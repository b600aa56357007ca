---------------------------- MODULE SettledProofs ----------------------------
(***************************************************************************)
(* What the threads find once no device reset is under way and none has    *)
(* raced with a call: the backend brought up once, sizes that agree, every *)
(* address in one hand, and of a freed one no trace in the epoch.          *)
(***************************************************************************)
EXTENDS ThreadProofs

(* What a reset that meets no other call has done so far. *)
ResetSoFar(t) ==
  /\ OthersIdle(t)
  /\ Bound = {} /\ input_addrs = {} /\ DOMAIN addr_modulus = {} /\ ~recording
  /\ call[t].at # "reset.backend" => ~initialized
  /\ call[t].at \in {"reset.config", "reset.compiler"} =>
       /\ alloc_set = {} /\ poly_bytes = 0 /\ DOMAIN shadow_data = {}
       /\ owned = [u \in Threads |-> {}] /\ DOMAIN truth = {} /\ unflushed = {} /\ overtaken = {}
  /\ call[t].at = "reset.compiler" => ring_dim = 0

ResetInv == ~raced => \A t \in Threads : Resetting(t) => ResetSoFar(t)

(* The compiler is up when the backend says so, and only then is there a recording. *)
BackendOnce == inits = (IF initialized THEN 1 ELSE 0) /\ (recording => initialized)

SizesAgree == config_lock = NoThread => ring_dim = poly_bytes

(* The addresses a thread has: those it owns and the one it is giving back. *)
Returning(c) == IF c.fn = "free" THEN {c.dst} ELSE {}
Hand(t) == owned[t] \cup Returning(call[t])

(* A call's operands are its thread's, of which it gives up the one it frees. *)
OperandsIn(c, S) ==
  /\ c.fn \in {"h2d", "op", "memset"} => c.dst \in S
  /\ c.fn = "op" => c.src \in S
  /\ c.fn = "free" => c.dst \notin S

Ownership ==
  /\ \A t \in Threads : Hand(t) \subseteq alloc_set
  /\ \A t, u \in Threads : t # u => Hand(t) \cap Hand(u) = {}
  /\ \A t \in Threads : OperandsIn(call[t], owned[t])

(* The addresses the epoch keeps something of. *)
Traces == Bound \cup input_addrs \cup DOMAIN addr_modulus
Forgotten ==
  /\ Traces \subseteq alloc_set
  /\ \A t \in Threads : Returning(call[t]) \cap Traces = {}

SettledInv == BackendOnce /\ SizesAgree /\ Ownership /\ Forgotten

CalmInv == Core /\ ResetInv /\ (Settled => SettledInv)

-----------------------------------------------------------------------------
(* A call that is no reset keeps ResetInv: beside a reset it would be a race.  And it   *)
(* does not settle what was not.                                                        *)

LEMMA QuietStep ==
  ASSUME Core, ResetInv, NEW t \in Threads, NEW step, step # "idle", Starts(t) \/ At(t, step),
         ~Resetting(t), NEW c, Moves(t, c), c.fn # "reset"
  PROVE  ResetInv' /\ (Settled' => Settled)
  <1>1. raced \in BOOLEAN /\ raced' \in BOOLEAN
    BY RacedStep DEF Core, Scalars
  <1>2. \A u \in Threads : Resetting(u)' <=> Resetting(u)
    BY DEF Moves, Resetting
  <1>3. CASE Starts(t)
    <2>1. ~raced' => \A u \in Threads : ~Resetting(u)
      BY <1>1, <1>3 DEF Starts
    <2>2. ~raced' => ~raced
      BY <1>1, <1>3 DEF Starts
    <2>3. QED BY <1>2, <2>1, <2>2 DEF ResetInv, Settled
  <1>4. CASE At(t, step)
    <2>1. raced' = raced /\ call[t] # Idle
      BY <1>4, IdleFacts DEF At
    <2>2. ~raced => \A u \in Threads : ~Resetting(u)
      BY <2>1 DEF ResetInv, ResetSoFar, OthersIdle
    <2>3. QED BY <1>2, <2>1, <2>2 DEF ResetInv, Settled
  <1>5. QED BY <1>3, <1>4

LEMMA QuietInv ==
  ASSUME CalmInv, Core', NEW t \in Threads, NEW step, step # "idle", Starts(t) \/ At(t, step),
         ~Resetting(t), NEW c, Moves(t, c), c.fn # "reset",
         SettledInv => SettledInv'
  PROVE  CalmInv'
  BY QuietStep DEF CalmInv

LEMMA StartsIdle ==
  ASSUME NEW t \in Threads, Starts(t)
  PROVE  call[t] = Idle /\ ~Resetting(t) /\ Returning(call[t]) = {}
  BY IdleFacts DEF Starts, Resetting, Returning

-----------------------------------------------------------------------------
(* Parts of SettledInv, where little changes. *)

LEMMA BackendStays ==
  ASSUME BackendOnce, UNCHANGED backend, recording' = recording \/ recording' = FALSE
  PROVE  BackendOnce'
  BY DEF BackendOnce, backend

LEMMA SizesStay ==
  ASSUME SizesAgree, UNCHANGED <<ring_dim, poly_bytes, config_lock>>
  PROVE  SizesAgree'
  BY DEF SizesAgree

(* The hand of t holds nothing that was live and in no hand of its own. *)
LEMMA OwnershipStep ==
  ASSUME Core, Ownership, NEW t \in Threads, NEW c, Moves(t, c), NEW S, owned' = [owned EXCEPT ![t] = S],
         S \cup Returning(c) \subseteq alloc_set',
         (S \cup Returning(c)) \cap alloc_set \subseteq Hand(t),
         \A a \in alloc_set \ alloc_set' : a \in Hand(t),
         OperandsIn(c, S)
  PROVE  Ownership'
  <1>1. /\ owned'[t] = S /\ call'[t] = c
        /\ \A u \in Threads \ {t} : owned'[u] = owned[u] /\ call'[u] = call[u]
    BY DEF Core, GhostAddresses, Moves
  <1>2. Hand(t)' = S \cup Returning(c) /\ \A u \in Threads \ {t} : Hand(u)' = Hand(u)
    BY <1>1 DEF Hand, Returning
  <1>3. \A u \in Threads : Hand(u) \subseteq alloc_set
    BY DEF Ownership
  <1>4. \A u \in Threads \ {t} : Hand(u) \cap Hand(t) = {}
    BY DEF Ownership
  <1>5. \A u \in Threads \ {t} : Hand(u) \subseteq alloc_set' /\ Hand(u) \cap (S \cup Returning(c)) = {}
    BY <1>3, <1>4
  <1>6. \A u \in Threads : Hand(u)' \subseteq alloc_set'
    BY <1>2, <1>5
  <1>7. \A u, v \in Threads : u # v => Hand(u)' \cap Hand(v)' = {}
    <2>1. ASSUME NEW u \in Threads, NEW v \in Threads, u # v PROVE Hand(u)' \cap Hand(v)' = {}
      <3>1. CASE u = t
        BY <1>2, <1>5, <2>1, <3>1
      <3>2. CASE v = t
        BY <1>2, <1>5, <2>1, <3>2
      <3>3. CASE u # t /\ v # t
        BY <1>2, <2>1, <3>3 DEF Ownership
      <3>4. QED BY <3>1, <3>2, <3>3
    <2>2. QED BY <2>1
  <1>8. \A u \in Threads : OperandsIn(call'[u], owned'[u])
    BY <1>1 DEF Ownership, OperandsIn
  <1>9. QED BY <1>6, <1>7, <1>8 DEF Ownership, OperandsIn

LEMMA OwnershipStays ==
  ASSUME Core, Ownership, NEW t \in Threads, NEW c, Moves(t, c), UNCHANGED <<owned, alloc_set>>,
         Returning(c) \subseteq Returning(call[t]), OperandsIn(c, owned[t])
  PROVE  Ownership'
  <1>1. owned' = [owned EXCEPT ![t] = owned[t]]
    BY DEF Core, GhostAddresses
  <1>2. Hand(t) \subseteq alloc_set /\ owned[t] \cup Returning(c) \subseteq Hand(t)
    BY DEF Ownership, Hand
  <1>3. QED BY <1>1, <1>2, OwnershipStep

(* The epoch takes up addresses of the thread at work, or lets some go. *)
LEMMA ForgottenStep ==
  ASSUME Ownership, Forgotten, NEW t \in Threads, NEW c, Moves(t, c), Traces' \subseteq Traces \cup owned[t],
         Traces' \subseteq alloc_set', Returning(c) \cap Traces' = {}
  PROVE  Forgotten'
  <1>1. ASSUME NEW u \in Threads PROVE Returning(call'[u]) \cap Traces' = {}
    <2>1. CASE u = t
      BY <2>1 DEF Moves
    <2>2. CASE u # t
      <3>1. call'[u] = call[u] /\ Returning(call[u]) \subseteq Hand(u) /\ owned[t] \subseteq Hand(t)
        BY <2>2 DEF Moves, Hand
      <3>2. Hand(u) \cap Hand(t) = {} /\ Returning(call[u]) \cap Traces = {}
        BY <2>2 DEF Ownership, Forgotten
      <3>3. QED BY <3>1, <3>2
    <2>3. QED BY <2>1, <2>2
  <1>2. QED BY <1>1 DEF Forgotten, Returning

LEMMA ForgottenStays ==
  ASSUME Ownership, Forgotten, NEW t \in Threads, NEW c, Moves(t, c),
         Traces' \subseteq Traces \/ (Traces' \subseteq Traces \cup owned[t] /\ Returning(c) = {}),
         alloc_set' = alloc_set, Returning(c) \subseteq Returning(call[t])
  PROVE  Forgotten'
  <1>1. owned[t] \subseteq alloc_set /\ Returning(call[t]) \cap Traces = {} /\ Traces \subseteq alloc_set
    BY DEF Ownership, Hand, Forgotten
  <1>2. QED BY <1>1, ForgottenStep

(* A section of a call that keeps owners and live addresses, and lets the epoch take up *)
(* no address but the thread's own.                                                     *)
LEMMA SectionInv ==
  ASSUME CalmInv, Core', NEW t \in Threads, NEW step, step # "idle", Starts(t) \/ At(t, step),
         ~Resetting(t), NEW c, Moves(t, c), c.fn # "reset",
         BackendOnce => BackendOnce', SizesAgree => SizesAgree', UNCHANGED <<owned, alloc_set>>,
         \/ c = Idle
         \/ c.fn = call[t].fn /\ c.dst = call[t].dst /\ c.src = call[t].src
         \/ c.fn # "free" /\ OperandsIn(c, owned[t]),
         SettledInv => \/ Traces' \subseteq Traces
                       \/ Traces' \subseteq Traces \cup owned[t] /\ Returning(c) = {}
  PROVE  CalmInv'
  <1>1. Returning(c) \subseteq Returning(call[t])
    BY IdleFacts DEF Returning
  <1>2. ASSUME SettledInv PROVE SettledInv'
    <2>1. OperandsIn(c, owned[t])
      BY <1>2, IdleFacts DEF SettledInv, Ownership, OperandsIn
    <2>2. Ownership'
      BY <1>1, <1>2, <2>1, OwnershipStays DEF CalmInv, SettledInv
    <2>3. Forgotten'
      <3>1. alloc_set' = alloc_set /\ Ownership /\ Forgotten
        BY <1>2 DEF SettledInv
      <3>2. Traces' \subseteq Traces \/ (Traces' \subseteq Traces \cup owned[t] /\ Returning(c) = {})
        BY <1>2
      <3>3. QED BY <1>1, <3>1, <3>2, ForgottenStays
    <2>4. QED BY <1>2, <2>2, <2>3 DEF SettledInv
  <1>3. QED BY <1>2, QuietInv

(* The epoch is as it was. *)
LEMMA TracesStay ==
  ASSUME UNCHANGED epochVars
  PROVE  Traces' = Traces /\ recording' = recording
  BY DEF Traces, Bound, epochVars

-----------------------------------------------------------------------------
(* The calls, section by section. *)

LEMMA RingDimensionCalm ==
  ASSUME CalmInv, NEW t \in Threads, NEW n \in PolySizes, hazeSetRingDimension(t, n)
  PROVE  CalmInv'
  <1> DEFINE c == [at |-> "resize", fn |-> "resize", dst |-> n, src |-> Mem!Null, dim |-> 0]
  <1>1. Core' /\ Moves(t, c)
    BY RingDimensionCore DEF CalmInv
  <1>2. Starts(t) /\ ~Resetting(t)
    BY StartsIdle DEF hazeSetRingDimension
  <1>3. config_lock' = t /\ UNCHANGED <<shadows, epochVars, backend, ghosts>>
    BY DEF hazeSetRingDimension
  <1>4. (SizesAgree => SizesAgree') /\ (BackendOnce => BackendOnce') /\ Traces' = Traces
    BY <1>3, ThreadsAssumption, TracesStay, BackendStays DEF SizesAgree
  <1>5. UNCHANGED <<owned, alloc_set>> /\ c.fn \notin {"free", "reset", "h2d", "op", "memset"}
    BY <1>3 DEF ghosts, shadows
  <1> HIDE DEF c
  <1>6. OperandsIn(c, owned[t])
    BY <1>5 DEF OperandsIn
  <1>7. QED BY <1>1, <1>2, <1>4, <1>5, <1>6, SectionInv

LEMMA ResizeCalm ==
  ASSUME CalmInv, NEW t \in Threads, Resize(t)
  PROVE  CalmInv'
  <1>1. /\ Core' /\ Moves(t, Idle) /\ poly_bytes' = ring_dim
        /\ UNCHANGED <<alloc_set, shadow_data>>
    BY ResizeCore DEF CalmInv
  <1>2. At(t, "resize") /\ UNCHANGED <<epochVars, config, backend, ghosts>>
    BY DEF Resize
  <1>3. ~Resetting(t)
    BY <1>2, IdleFacts DEF At, CalmInv, Core, CallsShaped, Shaped, ResetSteps, Resetting
  <1>4. (SizesAgree => SizesAgree') /\ (BackendOnce => BackendOnce') /\ Traces' = Traces
    BY <1>1, <1>2, TracesStay, BackendStays DEF SizesAgree, config
  <1>5. UNCHANGED <<owned, alloc_set>> /\ Idle.fn # "reset"
    BY <1>1, <1>2, IdleFacts DEF ghosts
  <1>6. QED BY <1>1, <1>2, <1>3, <1>4, <1>5, SectionInv

LEMMA MontgomeryCalm ==
  ASSUME CalmInv, NEW t \in Threads, NEW b \in BOOLEAN, hazeSetMontgomery(t, b)
  PROVE  CalmInv'
  <1>1. Core' /\ Moves(t, Idle) /\ Starts(t) /\ ~Resetting(t)
    BY MontgomeryCore, StartsIdle DEF hazeSetMontgomery, CalmInv
  <1>2. UNCHANGED <<shadows, epochVars, ring_dim, backend, locks, ghosts>>
    BY DEF hazeSetMontgomery
  <1>3. (SizesAgree => SizesAgree') /\ (BackendOnce => BackendOnce') /\ Traces' = Traces
    BY <1>2, TracesStay, BackendStays DEF SizesAgree, shadows, locks
  <1>4. UNCHANGED <<owned, alloc_set>> /\ Idle.fn # "reset"
    BY <1>2, IdleFacts DEF ghosts, shadows
  <1>5. QED BY <1>1, <1>3, <1>4, SectionInv

(* A call goes on, from one step to the next. *)
LEMMA SessionStep ==
  ASSUME Core, NEW t \in Threads, NEW step, At(t, step), step \in SessionSteps \cup {"free", "memset", "flush", "populate"}
  PROVE  call[t].at = step /\ ~Resetting(t) /\ Idle.fn # "reset"
  BY IdleFacts DEF At, Core, CallsShaped, Shaped, SessionSteps, ResetSteps, Resetting

LEMMA FastPathCalm ==
  ASSUME CalmInv, NEW t \in Threads, FastPath(t)
  PROVE  CalmInv'
  <1>1. PICK step \in {"enter", "bring up"} : Moves(t, Next_(t, step))
    BY FastPathCore DEF CalmInv
  <1>2. Core' /\ At(t, "session") /\ UNCHANGED <<shadows, epochVars, config, backend, locks, ghosts>>
    BY FastPathCore DEF CalmInv, FastPath
  <1>3. ~Resetting(t)
    BY <1>2, SessionStep DEF CalmInv, SessionSteps
  <1>4. (SizesAgree => SizesAgree') /\ (BackendOnce => BackendOnce') /\ Traces' = Traces
    BY <1>2, TracesStay, BackendStays DEF SizesAgree, shadows, locks, config
  <1>5. UNCHANGED <<owned, alloc_set>>
    BY <1>2 DEF ghosts, shadows
  <1>6. /\ Next_(t, step).fn = call[t].fn /\ Next_(t, step).dst = call[t].dst
        /\ Next_(t, step).src = call[t].src /\ Next_(t, step).fn # "reset"
    BY <1>3 DEF Next_, Resetting
  <1>7. QED BY <1>1, <1>2, <1>3, <1>4, <1>5, <1>6, SectionInv

LEMMA LockInitCalm ==
  ASSUME CalmInv, NEW t \in Threads, LockInit(t)
  PROVE  CalmInv'
  <1>1. Core' /\ Moves(t, Next_(t, "init")) /\ At(t, "bring up")
    BY LockInitCore DEF CalmInv, LockInit
  <1>2. UNCHANGED <<shadows, epochVars, config, backend, config_lock, ghosts>>
    BY DEF LockInit
  <1>3. ~Resetting(t)
    BY <1>1, SessionStep DEF CalmInv, SessionSteps
  <1>4. (SizesAgree => SizesAgree') /\ (BackendOnce => BackendOnce') /\ Traces' = Traces
    BY <1>2, TracesStay, BackendStays DEF SizesAgree, shadows, config
  <1>5. UNCHANGED <<owned, alloc_set>>
    BY <1>2 DEF ghosts, shadows
  <1>6. /\ Next_(t, "init").fn = call[t].fn /\ Next_(t, "init").dst = call[t].dst
        /\ Next_(t, "init").src = call[t].src /\ Next_(t, "init").fn # "reset"
    BY <1>3 DEF Next_, Resetting
  <1>7. QED BY <1>1, <1>3, <1>4, <1>5, <1>6, SectionInv

(* The second look, under the lock, is what brings the compiler up once. *)
LEMMA InitBackendCalm ==
  ASSUME CalmInv, NEW t \in Threads, InitBackend(t)
  PROVE  CalmInv'
  <1>1. Core' /\ Moves(t, Next_(t, "enter")) /\ At(t, "init")
    BY InitBackendCore DEF CalmInv, InitBackend
  <1>2. UNCHANGED <<shadows, epochVars, config, config_lock, ghosts>>
    BY DEF InitBackend
  <1>3. ~Resetting(t)
    BY <1>1, SessionStep DEF CalmInv, SessionSteps
  <1>4. (SizesAgree => SizesAgree') /\ Traces' = Traces
    BY <1>2, TracesStay DEF SizesAgree, shadows, config
  <1>5. BackendOnce => BackendOnce'
    <2>1. recording' = recording
      BY <1>2, TracesStay
    <2>2. CASE UNCHANGED backend
      BY <2>1, <2>2, BackendStays
    <2>3. CASE ~initialized /\ CompilerInit
      BY <2>1, <2>3 DEF BackendOnce, CompilerInit
    <2>4. QED BY <2>2, <2>3 DEF InitBackend
  <1>6. UNCHANGED <<owned, alloc_set>>
    BY <1>2 DEF ghosts, shadows
  <1>7. /\ Next_(t, "enter").fn = call[t].fn /\ Next_(t, "enter").dst = call[t].dst
        /\ Next_(t, "enter").src = call[t].src /\ Next_(t, "enter").fn # "reset"
    BY <1>3 DEF Next_, Resetting
  <1>8. QED BY <1>1, <1>3, <1>4, <1>5, <1>6, <1>7, SectionInv

LEMMA EnterEpochCalm ==
  ASSUME CalmInv, NEW t \in Threads, EnterEpoch(t)
  PROVE  CalmInv'
  <1>1. Core' /\ Moves(t, Next_(t, "locked")) /\ At(t, "enter")
    BY EnterEpochCore DEF CalmInv, EnterEpoch
  <1>2. /\ UNCHANGED <<shadows, poly_map, reg, input_addrs, addr_modulus, mrp_in, config, backend,
                       config_lock, ghosts>>
        /\ recording' = (recording \/ initialized)
    BY DEF EnterEpoch
  <1>3. ~Resetting(t)
    BY <1>1, SessionStep DEF CalmInv, SessionSteps
  <1>4. (SizesAgree => SizesAgree') /\ Traces' = Traces /\ UNCHANGED <<owned, alloc_set>>
    BY <1>2 DEF SizesAgree, shadows, config, Traces, Bound, ghosts
  <1>5. BackendOnce => BackendOnce'
    <2>1. initialized' = initialized /\ inits' = inits
      BY <1>2 DEF backend
    <2>2. recording' => recording \/ initialized
      BY <1>2
    <2>3. QED BY <2>1, <2>2 DEF BackendOnce
  <1>6. /\ Next_(t, "locked").fn = call[t].fn /\ Next_(t, "locked").dst = call[t].dst
        /\ Next_(t, "locked").src = call[t].src /\ Next_(t, "locked").fn # "reset"
    BY <1>3 DEF Next_, Resetting
  <1>7. QED BY <1>1, <1>3, <1>4, <1>5, <1>6, SectionInv

LEMMA ReadRingDimCalm ==
  ASSUME CalmInv, NEW t \in Threads, ReadRingDim(t)
  PROVE  CalmInv'
  <1>1. Core' /\ Moves(t, Read_(t)) /\ At(t, "locked")
    BY ReadRingDimCore DEF CalmInv, ReadRingDim
  <1>2. UNCHANGED <<shadows, epochVars, config, backend, locks, ghosts>>
    BY DEF ReadRingDim
  <1>3. ~Resetting(t)
    BY <1>1, SessionStep DEF CalmInv, SessionSteps
  <1>4. (SizesAgree => SizesAgree') /\ (BackendOnce => BackendOnce') /\ Traces' = Traces
    BY <1>2, TracesStay, BackendStays DEF SizesAgree, shadows, locks, config
  <1>5. UNCHANGED <<owned, alloc_set>>
    BY <1>2 DEF ghosts, shadows
  <1>6. /\ Read_(t).fn = call[t].fn /\ Read_(t).dst = call[t].dst
        /\ Read_(t).src = call[t].src /\ Read_(t).fn # "reset"
    BY <1>3 DEF Read_, Resetting
  <1>7. QED BY <1>1, <1>3, <1>4, <1>5, <1>6, SectionInv

LEMMA TagInputCalm ==
  ASSUME CalmInv, NEW t \in Threads, TagInput(t)
  PROVE  CalmInv'
  <1> DEFINE a == call[t].dst
  <1>1. Core' /\ Moves(t, Idle) /\ At(t, "read") /\ call[t].fn = "h2d"
    BY TagInputCore DEF CalmInv, TagInput
  <1>2. /\ UNCHANGED <<allocations, addr_modulus, recording, config, backend, config_lock>>
        /\ (Tagged(a) /\ Written(a, Upload)) \/ (SameEpoch /\ UNCHANGED ghosts)
    BY TagInputEffect DEF TagInput, Leaves
  <1> HIDE DEF a
  <1>3. ~Resetting(t) /\ Idle.fn # "reset" /\ Returning(Idle) = {}
    BY <1>1, SessionStep, IdleFacts DEF CalmInv, SessionSteps, Returning
  <1>4. (SizesAgree => SizesAgree') /\ (BackendOnce => BackendOnce')
    BY <1>2, BackendStays DEF SizesAgree, allocations, config
  <1>5. UNCHANGED <<owned, alloc_set>>
    BY <1>2 DEF allocations, ghosts, Written
  <1>6. Traces' \subseteq Traces \cup {a}
    BY <1>2 DEF Traces, Bound, Tagged, SameEpoch
  <1>7. SettledInv => a \in owned[t]
    BY <1>1 DEF SettledInv, Ownership, OperandsIn, a
  <1>8. SettledInv => (Traces' \subseteq Traces \cup owned[t] /\ Returning(Idle) = {})
    BY <1>3, <1>6, <1>7
  <1>9. QED BY <1>1, <1>3, <1>4, <1>5, <1>8, SectionInv

LEMMA RecordCalm ==
  ASSUME CalmInv, NEW t \in Threads, Record(t)
  PROVE  CalmInv'
  <1> DEFINE d == call[t].dst
             s == call[t].src
  <1>0. Core' /\ Moves(t, Idle) /\ call[t].fn = "op"
    BY RecordCore DEF CalmInv, Record
  <1>1. PICK step \in {"locked", "read"} : At(t, step)
    BY DEF Record
  <1>2. /\ UNCHANGED <<allocations, recording, owned, config, backend, config_lock>>
        /\ Recorded(d, s) \/ Unrecorded(s)
    BY RecordEffect DEF Record, Leaves
  <1> HIDE DEF d, s
  <1>3. ~Resetting(t) /\ Idle.fn # "reset" /\ Returning(Idle) = {} /\ step # "idle"
    BY <1>1, SessionStep, IdleFacts DEF CalmInv, SessionSteps, Returning
  <1>4. (SizesAgree => SizesAgree') /\ (BackendOnce => BackendOnce')
    BY <1>2, BackendStays DEF SizesAgree, allocations, config
  <1>5. UNCHANGED <<owned, alloc_set>>
    BY <1>2 DEF allocations
  <1>6. Traces' \subseteq Traces \cup {d, s}
    BY <1>2 DEF Traces, Bound, Recorded, Unrecorded
  <1>7. SettledInv => {d, s} \subseteq owned[t]
    BY <1>0 DEF SettledInv, Ownership, OperandsIn, d, s
  <1>8. SettledInv => (Traces' \subseteq Traces \cup owned[t] /\ Returning(Idle) = {})
    BY <1>3, <1>6, <1>7
  <1>9. QED BY <1>0, <1>1, <1>3, <1>4, <1>5, <1>8, SectionInv

LEMMA CopyCalm ==
  ASSUME CalmInv, NEW t \in Threads, NEW a \in owned[t], hazeMemcpyH2D(t, a)
  PROVE  CalmInv'
  <1> DEFINE k == [at |-> "session", fn |-> "h2d", dst |-> a, src |-> Mem!Null, dim |-> 0]
  <1>1. PICK c \in {Idle, k} : Moves(t, c)
    BY CopyCore DEF CalmInv
  <1>2. /\ Core' /\ Starts(t) /\ ~Resetting(t) /\ Traces' = Traces
        /\ UNCHANGED <<epochVars, config, backend, locks, owned>>
    BY CopyCore, StartsIdle, TracesStay DEF CalmInv, hazeMemcpyH2D
  <1>3. UNCHANGED allocations
    BY CopyCore DEF CalmInv, WritesOne
  <1>4. (SizesAgree => SizesAgree') /\ (BackendOnce => BackendOnce') /\ UNCHANGED <<owned, alloc_set>>
    BY <1>2, <1>3, TracesStay, BackendStays DEF SizesAgree, allocations, config, locks
  <1>5. c.fn # "reset" /\ c.fn # "free" /\ OperandsIn(c, owned[t])
    BY <1>1, IdleFacts DEF OperandsIn
  <1>6. QED BY <1>1, <1>2, <1>4, <1>5, SectionInv

LEMMA OperationCalm ==
  ASSUME CalmInv, NEW t \in Threads, NEW d \in owned[t], NEW s \in owned[t], Operation(t, d, s)
  PROVE  CalmInv'
  <1> DEFINE c == [at |-> "session", fn |-> "op", dst |-> d, src |-> s, dim |-> 0]
  <1>1. Core' /\ Moves(t, c)
    BY OperationCore DEF CalmInv
  <1>2. /\ Starts(t) /\ ~Resetting(t) /\ Traces' = Traces
        /\ UNCHANGED <<shadows, epochVars, config, backend, locks, ghosts>>
    BY StartsIdle, TracesStay DEF Operation
  <1>3. (SizesAgree => SizesAgree') /\ (BackendOnce => BackendOnce') /\ UNCHANGED <<owned, alloc_set>>
    BY <1>2, TracesStay, BackendStays DEF SizesAgree, shadows, config, locks, ghosts
  <1>4. c.fn # "reset" /\ c.fn # "free" /\ OperandsIn(c, owned[t])
    BY DEF OperandsIn
  <1> HIDE DEF c
  <1>5. QED BY <1>1, <1>2, <1>3, <1>4, SectionInv

LEMMA MemsetCalm ==
  ASSUME CalmInv, NEW t \in Threads, NEW a \in owned[t], hazeMemset(t, a)
  PROVE  CalmInv'
  <1> DEFINE k == [at |-> "memset", fn |-> "memset", dst |-> a, src |-> Mem!Null, dim |-> 0]
  <1>1. PICK c \in {Idle, k} : Moves(t, c)
    BY MemsetCore DEF CalmInv
  <1>2. /\ Core' /\ Starts(t) /\ ~Resetting(t) /\ Traces' = Traces
        /\ UNCHANGED <<epochVars, config, backend, locks, owned>>
    BY MemsetCore, StartsIdle, TracesStay DEF CalmInv, hazeMemset
  <1>3. UNCHANGED allocations
    BY MemsetCore DEF CalmInv, WritesOne
  <1>4. (SizesAgree => SizesAgree') /\ (BackendOnce => BackendOnce') /\ UNCHANGED <<owned, alloc_set>>
    BY <1>2, <1>3, TracesStay, BackendStays DEF SizesAgree, allocations, config, locks
  <1>5. c.fn # "reset" /\ c.fn # "free" /\ OperandsIn(c, owned[t])
    BY <1>1, IdleFacts DEF OperandsIn
  <1>6. QED BY <1>1, <1>2, <1>4, <1>5, SectionInv

LEMMA DropBindingCalm ==
  ASSUME CalmInv, NEW t \in Threads, DropBinding(t)
  PROVE  CalmInv'
  <1>1. Core' /\ Moves(t, Idle) /\ At(t, "memset") /\ call[t].dst \in Mem!DevAddrs
    BY DropBindingCore DEF CalmInv, DropBinding
  <1>2. /\ Invalidated(call[t].dst) /\ UNCHANGED <<shadows, config, backend, locks, owned>>
    BY DEF DropBinding, Written
  <1>3. ~Resetting(t) /\ Idle.fn # "reset"
    BY <1>1, SessionStep DEF CalmInv
  <1>4. recording' = recording /\ Traces' \subseteq Traces
    BY <1>1, <1>2, ForgetEffect DEF Traces, CalmInv, Core
  <1>5. (SizesAgree => SizesAgree') /\ (BackendOnce => BackendOnce') /\ UNCHANGED <<owned, alloc_set>>
    BY <1>2, <1>4, BackendStays DEF SizesAgree, shadows, config, locks
  <1>6. QED BY <1>1, <1>3, <1>4, <1>5, SectionInv

LEMMA TagOutputCalm ==
  ASSUME CalmInv, NEW t \in Threads, NEW a \in owned[t], hazeTagOutput(t, a)
  PROVE  CalmInv'
  <1>1. Core' /\ Moves(t, Idle) /\ UNCHANGED <<poly_map, input_addrs, addr_modulus>>
    BY TagOutputCore DEF CalmInv
  <1>2. Starts(t) /\ ~Resetting(t) /\ UNCHANGED <<allocations, recording, config, backend, locks, ghosts>>
    BY StartsIdle DEF hazeTagOutput
  <1>3. (SizesAgree => SizesAgree') /\ (BackendOnce => BackendOnce') /\ UNCHANGED <<owned, alloc_set>>
        /\ Traces' = Traces
    BY <1>1, <1>2, BackendStays DEF SizesAgree, allocations, config, locks, ghosts, Traces, Bound
  <1>4. Idle.fn # "reset"
    BY IdleFacts
  <1>5. QED BY <1>1, <1>2, <1>3, <1>4, SectionInv

LEMMA FlushCalm ==
  ASSUME CalmInv, NEW t \in Threads, hazeFlush(t)
  PROVE  CalmInv'
  <1> DEFINE k == [at |-> "flush", fn |-> "flush", dst |-> Mem!Null, src |-> Mem!Null, dim |-> 0]
  <1>1. PICK c \in {Idle, k} : Moves(t, c)
    BY FlushCore DEF CalmInv
  <1>2. /\ Core' /\ Starts(t) /\ ~Resetting(t) /\ Traces' = Traces
        /\ UNCHANGED <<shadows, epochVars, config, backend, locks, ghosts>>
    BY FlushCore, StartsIdle, TracesStay DEF CalmInv, hazeFlush
  <1>3. (SizesAgree => SizesAgree') /\ (BackendOnce => BackendOnce') /\ UNCHANGED <<owned, alloc_set>>
    BY <1>2, TracesStay, BackendStays DEF SizesAgree, shadows, config, locks, ghosts
  <1>4. c.fn # "reset" /\ c.fn # "free" /\ OperandsIn(c, owned[t])
    BY <1>1, IdleFacts DEF OperandsIn
  <1>5. QED BY <1>1, <1>2, <1>3, <1>4, SectionInv

LEMMA FlushStartCalm ==
  ASSUME CalmInv, NEW t \in Threads, FlushStart(t)
  PROVE  CalmInv'
  <1>1. /\ Core' /\ At(t, "flush") /\ ~Resetting(t) /\ Idle.fn # "reset"
    BY FlushStartCore, SessionStep DEF CalmInv, FlushStart
  <1>2. /\ UNCHANGED <<allocations, config, backend, config_lock>>
        /\ Finishes(t) \/ Delivers(t)
    BY FlushStartEffect
  <1>3. CASE Delivers(t)
    <2> DEFINE c == Next_(t, "populate")
    <2>1. Moves(t, c)
      <3>1. call[t] # Idle /\ call'[t].at = "populate"
        BY <1>3, FlushStartEffect, IdleFacts DEF Delivers, GoesTo, CalmInv, Core, CallsShaped, Calls
      <3>2. ~Moves(t, Idle)
        BY <3>1, IdleFacts DEF Moves
      <3>3. QED BY <3>2, FlushStartCore DEF CalmInv
    <2>2. UNCHANGED <<epochVars, owned>>
      BY <1>3 DEF Delivers
    <2>3. (SizesAgree => SizesAgree') /\ (BackendOnce => BackendOnce') /\ UNCHANGED <<owned, alloc_set>>
          /\ Traces' = Traces
      BY <1>2, <2>2, TracesStay, BackendStays DEF SizesAgree, allocations, config
    <2>4. c.fn # "reset" /\ c.fn = call[t].fn /\ c.dst = call[t].dst /\ c.src = call[t].src
      BY <1>1 DEF Next_, Resetting
    <2> HIDE DEF c
    <2>5. QED BY <1>1, <2>1, <2>3, <2>4, SectionInv
  <1>4. CASE Finishes(t)
    <2>1. Moves(t, Idle)
      <3>1. call'[t] = Idle
        BY <1>4 DEF Finishes, Returns, CalmInv, Core, CallsShaped
      <3>2. ~Moves(t, Next_(t, "populate"))
        BY <3>1, IdleFacts DEF Moves, Next_
      <3>3. QED BY <3>2, FlushStartCore DEF CalmInv
    <2>2. owned' = owned
      BY <1>4, FinishCore DEF Finishes, CalmInv
    <2>3. (recording' = recording \/ recording' = FALSE) /\ Traces' \subseteq Traces
      <3>1. CASE SameEpoch /\ UNCHANGED <<shadow_data, recording>> /\ err' \in AP!Errors
        BY <3>1 DEF SameEpoch, Traces, Bound
      <3>2. CASE \E e \in AP!Errors : ended(Here, e)
        <4>1. PICK e \in AP!Errors : ended(Here, e)
          BY <3>2
        <4>2. QED BY <4>1, ClearEffect DEF Traces
      <3>3. QED BY <1>4, <3>1, <3>2 DEF Finishes
    <2>4. (SizesAgree => SizesAgree') /\ (BackendOnce => BackendOnce') /\ UNCHANGED <<owned, alloc_set>>
      BY <1>2, <2>2, <2>3, BackendStays DEF SizesAgree, allocations, config
    <2>5. QED BY <1>1, <2>1, <2>3, <2>4, SectionInv
  <1>5. QED BY <1>2, <1>3, <1>4

LEMMA PopulateCalm ==
  ASSUME CalmInv, NEW t \in Threads, Populate(t)
  PROVE  CalmInv'
  <1>1. /\ Core' /\ At(t, "populate") /\ ~Resetting(t) /\ call' = call
        /\ UNCHANGED <<epochVars, config, backend, locks, owned>>
    BY PopulateCore, SessionStep DEF CalmInv, Populate
  <1>2. UNCHANGED allocations
    BY PopulateCore DEF CalmInv, WritesOne
  <1>3. Moves(t, call[t]) /\ call[t].fn # "reset"
    BY <1>1 DEF Moves, Resetting
  <1>4. (SizesAgree => SizesAgree') /\ (BackendOnce => BackendOnce') /\ UNCHANGED <<owned, alloc_set>>
        /\ Traces' = Traces
    BY <1>1, <1>2, TracesStay, BackendStays DEF SizesAgree, allocations, config, locks
  <1>5. QED BY <1>1, <1>3, <1>4, SectionInv

LEMMA FlushEndCalm ==
  ASSUME CalmInv, NEW t \in Threads, FlushEnd(t)
  PROVE  CalmInv'
  <1>1. /\ Core' /\ At(t, "populate") /\ ~Resetting(t) /\ Moves(t, Idle)
        /\ Bound' = {} /\ input_addrs' = {} /\ DOMAIN addr_modulus' = {} /\ recording' = FALSE
        /\ UNCHANGED <<allocations, config, backend, config_lock>>
    BY FlushEndCore, SessionStep DEF CalmInv, FlushEnd
  <1>2. owned' = owned /\ Idle.fn # "reset"
    BY FlushEndCore, FinishCore, IdleFacts DEF CalmInv
  <1>3. (SizesAgree => SizesAgree') /\ (BackendOnce => BackendOnce') /\ UNCHANGED <<owned, alloc_set>>
    BY <1>1, <1>2, BackendStays DEF SizesAgree, allocations, config
  <1>4. Traces' \subseteq Traces
    BY <1>1 DEF Traces
  <1>5. QED BY <1>1, <1>2, <1>3, <1>4, SectionInv

(* A new address was nobody's, and the epoch knew nothing of it.                        *)
LEMMA MallocCalm ==
  ASSUME CalmInv, NEW t \in Threads, hazeMalloc(t)
  PROVE  CalmInv'
  <1> DEFINE S == owned[t] \cup (alloc_set' \ alloc_set)
  <1>1. /\ Core' /\ Moves(t, Idle) /\ call[t] = Idle /\ alloc_set \subseteq alloc_set'
        /\ UNCHANGED poly_bytes
    BY MallocCore DEF CalmInv
  <1>2. /\ Starts(t) /\ ~Resetting(t) /\ Idle.fn # "reset" /\ owned' = [owned EXCEPT ![t] = S]
        /\ UNCHANGED <<epochVars, config, backend, locks>>
    BY StartsIdle, IdleFacts DEF hazeMalloc
  <1>3. ASSUME SettledInv PROVE SettledInv'
    <2>1. BackendOnce' /\ SizesAgree' /\ Traces' = Traces
      BY <1>1, <1>2, <1>3, BackendStays, TracesStay DEF SettledInv, SizesAgree, config, locks
    <2>2. Ownership'
      <3>1. owned[t] \subseteq alloc_set /\ Returning(Idle) = {} /\ Hand(t) = owned[t]
        BY <1>1, <1>3, IdleFacts DEF SettledInv, Ownership, Hand, Returning
      <3>2. S \cup Returning(Idle) \subseteq alloc_set' /\ (S \cup Returning(Idle)) \cap alloc_set \subseteq Hand(t)
        BY <1>1, <3>1
      <3>3. OperandsIn(Idle, S) /\ \A a \in alloc_set \ alloc_set' : a \in Hand(t)
        BY <1>1, IdleFacts DEF OperandsIn
      <3> HIDE DEF S
      <3>4. QED BY <1>1, <1>2, <1>3, <3>2, <3>3, OwnershipStep DEF CalmInv, SettledInv
    <2>3. Forgotten'
      <3>1. Traces' \subseteq alloc_set' /\ Returning(Idle) = {} /\ Traces' \subseteq Traces \cup owned[t]
        BY <1>1, <1>3, <2>1, IdleFacts DEF SettledInv, Forgotten, Returning
      <3>2. QED BY <1>1, <1>3, <3>1, ForgottenStep DEF SettledInv
    <2>4. QED BY <2>1, <2>2, <2>3 DEF SettledInv
  <1>4. QED BY <1>1, <1>2, <1>3, QuietInv

(* The epoch lets go of the address while it is still live, *)
LEMMA FreeCalm ==
  ASSUME CalmInv, NEW t \in Threads, NEW a \in owned[t], hazeFree(t, a)
  PROVE  CalmInv'
  <1> DEFINE c == [at |-> "free", fn |-> "free", dst |-> a, src |-> Mem!Null, dim |-> 0]
             S == owned[t] \ {a}
  <1>1. Core' /\ Moves(t, c) /\ c.fn # "reset"
    BY FreeCore DEF CalmInv
  <1>2. /\ Starts(t) /\ ~Resetting(t) /\ owned' = [owned EXCEPT ![t] = S] /\ Invalidated(a)
        /\ UNCHANGED <<shadows, config, backend, locks>>
    BY StartsIdle DEF hazeFree
  <1>3. Returning(c) = {a} /\ OperandsIn(c, S)
    BY DEF Returning, OperandsIn
  <1> HIDE DEF c
  <1>4. ASSUME SettledInv PROVE SettledInv'
    <2>1. recording' = recording /\ Traces' = Traces \ {a}
      BY <1>2, OwnedAreDevice, ForgetEffect DEF Traces, CalmInv, Core
    <2>2. BackendOnce' /\ SizesAgree' /\ UNCHANGED alloc_set
      BY <1>2, <1>4, <2>1, BackendStays DEF SettledInv, SizesAgree, config, locks, shadows
    <2>3. owned[t] \subseteq alloc_set /\ owned[t] \subseteq Hand(t)
      BY <1>4 DEF SettledInv, Ownership, Hand
    <2>4. Ownership'
      <3>1. S \cup Returning(c) \subseteq owned[t]
        BY <1>3
      <3> HIDE DEF S
      <3>2. QED BY <1>1, <1>2, <1>3, <1>4, <2>2, <2>3, <3>1, OwnershipStep DEF CalmInv, SettledInv
    <2>5. Forgotten'
      <3>1. Traces' \subseteq alloc_set' /\ Returning(c) \cap Traces' = {} /\ Traces' \subseteq Traces \cup owned[t]
        BY <1>3, <1>4, <2>1, <2>2 DEF SettledInv, Forgotten
      <3>2. QED BY <1>1, <1>4, <3>1, ForgottenStep DEF SettledInv
    <2>6. QED BY <2>2, <2>4, <2>5 DEF SettledInv
  <1>5. QED BY <1>1, <1>2, <1>4, QuietInv

(* and the allocator when nothing is left of it. *)
LEMMA ReleaseCalm ==
  ASSUME CalmInv, NEW t \in Threads, Release(t)
  PROVE  CalmInv'
  <1> DEFINE a == call[t].dst
  <1>1. /\ Core' /\ Moves(t, Idle) /\ Idle.fn # "reset" /\ call[t].fn = "free"
        /\ alloc_set' = alloc_set \ {a} /\ poly_bytes' = poly_bytes
    BY ReleaseCore, IdleFacts DEF CalmInv
  <1>2. At(t, "free") /\ ~Resetting(t) /\ UNCHANGED <<epochVars, config, backend, locks, owned>>
    BY SessionStep DEF Release, CalmInv, ghosts
  <1>3. Returning(call[t]) = {a} /\ Returning(Idle) = {}
    BY <1>1, IdleFacts DEF Returning
  <1>4. ASSUME SettledInv PROVE SettledInv'
    <2>1. BackendOnce' /\ SizesAgree' /\ Traces' = Traces
      BY <1>1, <1>2, <1>4, BackendStays, TracesStay DEF SettledInv, SizesAgree, config, locks
    <2>2. Ownership'
      <3>1. owned' = [owned EXCEPT ![t] = owned[t]]
        BY <1>2 DEF CalmInv, Core, GhostAddresses
      <3>2. owned[t] \subseteq alloc_set \ {a} /\ Hand(t) = owned[t] \cup {a}
        BY <1>1, <1>3, <1>4 DEF SettledInv, Ownership, Hand, OperandsIn
      <3>3. OperandsIn(Idle, owned[t])
        BY IdleFacts DEF OperandsIn
      <3> HIDE DEF a
      <3>4. owned[t] \cup Returning(Idle) \subseteq alloc_set'
        BY <1>1, <1>3, <3>2
      <3>5. (owned[t] \cup Returning(Idle)) \cap alloc_set \subseteq Hand(t)
        BY <1>3, <3>2
      <3>6. \A x \in alloc_set \ alloc_set' : x \in Hand(t)
        BY <1>1, <3>2
      <3>7. QED BY <1>1, <1>4, <3>1, <3>3, <3>4, <3>5, <3>6, OwnershipStep DEF CalmInv, SettledInv
    <2>3. Forgotten'
      <3>1. Traces' \subseteq alloc_set' /\ Traces' \subseteq Traces \cup owned[t] /\ Returning(Idle) \cap Traces' = {}
        BY <1>1, <1>3, <1>4, <2>1 DEF SettledInv, Forgotten
      <3>2. QED BY <1>1, <1>4, <3>1, ForgottenStep DEF SettledInv
    <2>4. QED BY <2>1, <2>2, <2>3 DEF SettledInv
  <1>5. QED BY <1>1, <1>2, <1>4, QuietInv

-----------------------------------------------------------------------------
(* Device reset, component by component, alone in the device. *)

LEMMA ResetStep ==
  ASSUME Core, ResetInv, NEW t \in Threads, Resetting(t), raced' = raced, NEW c, Moves(t, c),
         OthersIdle(t)' /\ ResetSoFar(t) /\ c.fn = "reset" => ResetSoFar(t)'
  PROVE  ResetInv' /\ (~raced => OthersIdle(t)' /\ ResetSoFar(t))
  <1>1. ASSUME ~raced PROVE OthersIdle(t)' /\ ResetSoFar(t)
    BY <1>1 DEF ResetInv, ResetSoFar, OthersIdle, Moves
  <1>2. ASSUME ~raced, NEW u \in Threads, Resetting(u)' PROVE ResetSoFar(u)'
    <2>1. u = t
      BY <1>1, <1>2, IdleFacts DEF OthersIdle, Resetting
    <2>2. c.fn = "reset"
      BY <1>2, <2>1 DEF Resetting, Moves
    <2>3. QED BY <1>1, <1>2, <2>1, <2>2
  <1>3. QED BY <1>1, <1>2 DEF ResetInv

LEMMA ResetGoesOn ==
  ASSUME CalmInv, Core', NEW t \in Threads, Resetting(t), raced' = raced, NEW step,
         Moves(t, Next_(t, step)),
         OthersIdle(t)' /\ ResetSoFar(t) => ResetSoFar(t)'
  PROVE  CalmInv'
  <1>1. ResetInv'
    BY ResetStep DEF CalmInv
  <1>2. ~Settled'
    BY DEF Settled, Resetting, Moves, Next_
  <1>3. QED BY <1>1, <1>2 DEF CalmInv

LEMMA DeviceResetCalm ==
  ASSUME CalmInv, NEW t \in Threads, hazeDeviceReset(t)
  PROVE  CalmInv'
  <1> DEFINE c == [at |-> "reset.backend", fn |-> "reset", dst |-> Mem!Null, src |-> Mem!Null, dim |-> 0]
  <1>1. /\ Core' /\ Moves(t, c) /\ raced' = ~OthersIdle(t)
        /\ Bound' = {} /\ input_addrs' = {} /\ DOMAIN addr_modulus' = {} /\ recording' = FALSE
    BY DeviceResetCore DEF CalmInv, hazeDeviceReset
  <1>2. call'[t].fn = "reset" /\ call'[t].at = "reset.backend"
    BY <1>1 DEF Moves
  <1>3. ASSUME ~raced', NEW u \in Threads, Resetting(u)' PROVE ResetSoFar(u)'
    <2>1. OthersIdle(t)
      BY <1>1, <1>3
    <2>2. OthersIdle(t)' /\ u = t
      BY <1>1, <1>3, <2>1, IdleFacts DEF OthersIdle, Moves, Resetting
    <2>3. QED BY <1>1, <1>2, <2>2 DEF ResetSoFar
  <1>4. ~Settled'
    BY <1>2 DEF Settled, Resetting
  <1>5. QED BY <1>1, <1>3, <1>4 DEF CalmInv, ResetInv

LEMMA ResetBackendCalm ==
  ASSUME CalmInv, NEW t \in Threads, ResetBackend(t)
  PROVE  CalmInv'
  <1>1. /\ Core' /\ Moves(t, Next_(t, "reset.allocator")) /\ Resetting(t)
        /\ raced' = raced /\ initialized' = FALSE /\ UNCHANGED <<shadows, epochVars, ghosts>>
    BY ResetBackendCore DEF CalmInv, ResetBackend, Resetting, At
  <1>2. call'[t].at = "reset.allocator"
    BY <1>1 DEF Moves, Next_
  <1>3. OthersIdle(t)' /\ ResetSoFar(t) => ResetSoFar(t)'
    BY <1>1, <1>2 DEF ResetSoFar, Bound, epochVars
  <1>4. QED BY <1>1, <1>3, ResetGoesOn

LEMMA ResetAllocatorCalm ==
  ASSUME CalmInv, NEW t \in Threads, ResetAllocator(t)
  PROVE  CalmInv'
  <1>1. /\ Core' /\ Moves(t, Next_(t, "reset.config")) /\ Resetting(t)
        /\ alloc_set' = {} /\ DOMAIN shadow_data' = {} /\ poly_bytes' = 0
        /\ owned' = [u \in Threads |-> {}] /\ DOMAIN truth' = {} /\ unflushed' = {} /\ overtaken' = {}
    BY ResetAllocatorCore DEF CalmInv, Resetting
  <1>2. /\ call[t].at = "reset.allocator" /\ raced' = raced
        /\ UNCHANGED <<epochVars, config, backend>>
    BY DEF ResetAllocator, At
  <1>3. call'[t].at = "reset.config"
    BY <1>1 DEF Moves, Next_
  <1>4. OthersIdle(t)' /\ ResetSoFar(t) => ResetSoFar(t)'
    BY <1>1, <1>2, <1>3 DEF ResetSoFar, Bound, epochVars, backend
  <1>5. QED BY <1>1, <1>2, <1>4, ResetGoesOn

LEMMA ResetConfigCalm ==
  ASSUME CalmInv, NEW t \in Threads, ResetConfig(t)
  PROVE  CalmInv'
  <1>1. Core' /\ Moves(t, Next_(t, "reset.compiler")) /\ Resetting(t)
    BY ResetConfigCore DEF CalmInv, Resetting
  <1>2. /\ call[t].at = "reset.config" /\ raced' = raced /\ ring_dim' = 0
        /\ UNCHANGED <<shadows, epochVars, backend, ghosts>>
    BY DEF ResetConfig, At
  <1>3. call'[t].at = "reset.compiler"
    BY <1>1 DEF Moves, Next_
  <1>4. OthersIdle(t)' /\ ResetSoFar(t) => ResetSoFar(t)'
    BY <1>1, <1>2, <1>3 DEF ResetSoFar, Bound, epochVars, backend, shadows, ghosts
  <1>5. QED BY <1>1, <1>2, <1>4, ResetGoesOn

(* After which there is nothing to own, to forget or to bring up. *)
LEMMA ResetCompilerCalm ==
  ASSUME CalmInv, NEW t \in Threads, ResetCompiler(t)
  PROVE  CalmInv'
  <1>1. /\ Core' /\ Moves(t, Idle) /\ Resetting(t) /\ Idle.fn # "reset"
    BY ResetCompilerCore, IdleFacts DEF CalmInv, Resetting
  <1>2. /\ call[t].at = "reset.compiler" /\ raced' = raced /\ inits' = 0
        /\ UNCHANGED <<shadows, epochVars, config, initialized, locks, ghosts>>
    BY DEF ResetCompiler, At
  <1>3. ResetInv' /\ (~raced => OthersIdle(t)' /\ ResetSoFar(t))
    BY <1>1, <1>2, ResetStep DEF CalmInv
  <1>4. ASSUME Settled' PROVE SettledInv'
    <2>1. ResetSoFar(t) /\ \A u \in Threads : call'[u] = Idle
      BY <1>1, <1>2, <1>3, <1>4 DEF Settled, OthersIdle, Moves
    <2>2. /\ ~initialized' /\ ~recording' /\ alloc_set' = {} /\ poly_bytes' = 0 /\ ring_dim' = 0
          /\ owned' = [u \in Threads |-> {}] /\ Traces' = {}
      BY <1>2, <2>1 DEF ResetSoFar, epochVars, shadows, config, ghosts, Traces, Bound
    <2>3. BackendOnce' /\ SizesAgree'
      BY <1>2, <2>2 DEF BackendOnce, SizesAgree
    <2>4. \A u \in Threads : owned'[u] = {} /\ Returning(call'[u]) = {} /\ OperandsIn(call'[u], {})
      BY <2>1, <2>2, IdleFacts DEF Returning, OperandsIn
    <2>5. Ownership'
      BY <2>4 DEF Ownership, Hand, Returning, OperandsIn
    <2>6. Forgotten'
      BY <2>2 DEF Forgotten
    <2>7. QED BY <2>3, <2>5, <2>6 DEF SettledInv
  <1>5. QED BY <1>1, <1>3, <1>4 DEF CalmInv

-----------------------------------------------------------------------------
LEMMA InitCalm == Init => CalmInv
  <1> SUFFICES ASSUME Init PROVE CalmInv
    OBVIOUS
  <1>1. Core
    BY InitCore
  <1>2. /\ \A t \in Threads : call[t] = Idle /\ owned[t] = {}
        /\ Traces = {} /\ alloc_set = {} /\ ring_dim = 0 /\ poly_bytes = 0 /\ inits = 0
    BY DEF Init, Mem!Init, Traces, Bound, T!Empty
  <1>3. initialized = FALSE /\ recording = FALSE
    BY DEF Init
  <1>4. \A t \in Threads : ~Resetting(t) /\ Returning(call[t]) = {} /\ OperandsIn(call[t], owned[t])
    BY <1>2, IdleFacts DEF Resetting, Returning, OperandsIn
  <1>5. Ownership /\ Forgotten
    BY <1>2, <1>4 DEF Ownership, Forgotten, Hand
  <1>6. QED BY <1>1, <1>2, <1>3, <1>4, <1>5 DEF CalmInv, ResetInv, SettledInv, BackendOnce, SizesAgree

LEMMA BeginCalm ==
  ASSUME CalmInv, NEW t \in Threads, Begin(t)
  PROVE  CalmInv'
  <1>1. CASE Manage(t)
    BY <1>1, RingDimensionCalm, MontgomeryCalm, DeviceResetCalm DEF Manage
  <1>2. CASE ~Manage(t)
    BY <1>2, MallocCalm, FreeCalm, MemsetCalm, CopyCalm, TagOutputCalm, OperationCalm, FlushCalm
    DEF Begin
  <1>3. QED BY <1>1, <1>2

LEMMA ContinueCalm ==
  ASSUME CalmInv, NEW t \in Threads, Continue(t)
  PROVE  CalmInv'
  BY ResizeCalm, FastPathCalm, LockInitCalm, InitBackendCalm, EnterEpochCalm, ReadRingDimCalm,
     TagInputCalm, RecordCalm, ReleaseCalm, DropBindingCalm, FlushStartCalm, PopulateCalm, FlushEndCalm,
     ResetBackendCalm, ResetAllocatorCalm, ResetConfigCalm, ResetCompilerCalm
  DEF Continue

LEMMA StutterCalm ==
  ASSUME CalmInv, UNCHANGED threads
  PROVE  CalmInv'
  <1>1. Core'
    BY StutterCore DEF CalmInv
  <1>2. /\ UNCHANGED <<shadows, epochVars, config, backend, locks, ghosts, call, raced>>
    BY DEF threads
  <1>3. ResetInv'
    BY <1>2 DEF CalmInv, ResetInv, Resetting, ResetSoFar, OthersIdle, Bound, shadows, epochVars, config,
                backend, ghosts
  <1>4. Settled' = Settled
    BY <1>2 DEF Settled, Resetting
  <1>5. SettledInv => SettledInv'
    BY <1>2, TracesStay, BackendStays
    DEF SettledInv, SizesAgree, Ownership, Forgotten, Hand, Returning, OperandsIn, shadows, config,
        locks, ghosts
  <1>6. QED BY <1>1, <1>3, <1>4, <1>5 DEF CalmInv

LEMMA CalmInvariant == Spec => []CalmInv
  <1>1. CalmInv /\ [Next]_threads => CalmInv'
    BY BeginCalm, ContinueCalm, StutterCalm DEF Next
  <1>2. QED BY <1>1, InitCalm, PTL DEF Spec

-----------------------------------------------------------------------------
(* Concurrent first calls bring the compiler up once, and no session records before it  *)
(* is up (backend.cpp:37-46, epoch.cpp:47-56).                                             *)
THEOREM BackendBroughtUpOnce == Spec => []BroughtUpOnce
  <1>1. CalmInv => BroughtUpOnce
    BY DEF CalmInv, SettledInv, BackendOnce, BroughtUpOnce, Core, Scalars
  <1>2. QED BY <1>1, CalmInvariant, PTL

(* The epoch keeps nothing of an address that is not live, whatever the other threads   *)
(* are in the middle of (memory.cpp:39-43).                                             *)
THEOREM FreedIsForgottenByAll == Spec => []FreedIsForgotten
  <1>1. CalmInv => FreedIsForgotten
    <2>1. Core => Pending \subseteq Bound
      BY DEF Core, EpochInv, GP!FlushResolves, Pending, Bound
    <2>2. QED BY <2>1 DEF CalmInv, SettledInv, Forgotten, Traces, FreedIsForgotten
  <1>2. QED BY <1>1, CalmInvariant, PTL

(* An address is one thread's from its allocation to the end of the call that frees it, *)
(* and live all that time, unless a reset has raced with a call (memory.cpp:39-43,      *)
(* allocator.cpp).                                                                      *)
THEOREM AddressesHaveOneOwner == Spec => []OneOwner
  <1>1. CalmInv => OneOwner
    BY DEF CalmInv, SettledInv, Ownership, Hand, Returning, OneOwner, Claimed
  <1>2. QED BY <1>1, CalmInvariant, PTL

(* Types; and where Config's lock is free the ring dimension and the allocator's        *)
(* polynomial size agree (config.cpp:44-46).                                            *)
THEOREM SizesAgreeAndTypes == Spec => []TypeOK
  <1>1. CalmInv => TypeOK
    <2> SUFFICES ASSUME CalmInv PROVE TypeOK
      OBVIOUS
    <2>1. /\ Settled /\ config_lock = NoThread => ring_dim = poly_bytes
          /\ ring_dim \in PolySizes \cup {0} /\ inits \in 0..2
          /\ {epoch_lock, init_lock, config_lock} \subseteq Threads \cup {NoThread}
          /\ delivered \subseteq Pending
      BY DEF CalmInv, SettledInv, SizesAgree, Core, Scalars, Locks, Delivering
    <2>2. {montgomery, initialized, recording, raced} \subseteq BOOLEAN
      BY Zenon DEF CalmInv, Core, Scalars
    <2>3. alloc_set \subseteq Mem!DevAddrs /\ DOMAIN shadow_data \subseteq alloc_set
      BY MemFacts DEF CalmInv, Core, DeviceOnly
    <2>4. \A t \in Threads : owned[t] \subseteq Mem!DevAddrs /\ call[t].dst \in Nat
      BY DEF CalmInv, Core, GhostAddresses, CallsShaped, Calls
    <2>5. QED BY <2>1, <2>2, <2>3, <2>4 DEF TypeOK
  <1>2. QED BY <1>1, CalmInvariant, PTL
=============================================================================
