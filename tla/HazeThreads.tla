---------------------------- MODULE HazeThreads ----------------------------
(***************************************************************************)
(* The C API called by several threads.  A call is a sequence of critical  *)
(* sections of four mutexes: those of EpochState, CompilerBackend's init,  *)
(* Config and DeviceAllocator.  A section that takes one mutex and no      *)
(* other is one action; where a mutex is held while another is wanted the  *)
(* holder is state.  The allocator's is wanted last everywhere, so it is   *)
(* never seen held.                                                        *)
(*                                                                         *)
(* Single-residue calls, with one operand for the operations: a call on a  *)
(* group takes the same locks in the same order, and Haze has what it does *)
(* to the state.  A thread passes the addresses it allocated, and no other *)
(* thread does: the code gives no meaning to two calls on one address.     *)
(*                                                                         *)
(* Ghosts: `owned`, the addresses of each thread; `truth` and `unflushed`  *)
(* as in Haze; `overtaken`, the addresses a flush wrote between the two    *)
(* sections of an upload or memset of theirs; `raced`, whether the last    *)
(* device reset overlapped another call.                                   *)
(***************************************************************************)
EXTENDS Epoch, FiniteSets

CONSTANTS
  Threads,
  Managers,  \* threads that configure and reset the device
  Faults,    \* steps of the compiler that may fail: init, stop, hook, replay, result
  Upload,    \* the polynomial the threads upload
  MaxOwned   \* bound: addresses a thread allocates

NoThread == "none"
ASSUME ThreadsAssumption == NoThread \notin Threads /\ Managers \subseteq Threads
ASSUME UploadAssumption == \E n \in PolySizes : Upload \in [1..n -> Words]

VARIABLES
  ring_dim, montgomery,   \* Config
  initialized,            \* CompilerBackend::initialized_
  inits,                  \* compiler().init calls since compiler().reset, at most 2
  epoch_lock, init_lock, config_lock,   \* holder, between actions
  call,                   \* thread -> where it is in its call
  delivered,              \* outputs the flush that holds the epoch lock has delivered
  owned, truth, unflushed, overtaken, raced   \* ghosts

locks == <<epoch_lock, init_lock, config_lock>>
config == <<ring_dim, montgomery>>
backend == <<initialized, inits>>
shadows == <<alloc_set, pool_free, host_set, poly_bytes, next_addr, shadow_data, err>>
allocations == <<alloc_set, pool_free, host_set, poly_bytes, next_addr>>
ghosts == <<owned, truth, unflushed, overtaken>>
threads == <<shadows, epochVars, config, backend, locks, call, delivered, ghosts, raced>>

(* `dim` is the ring dimension a session has read from Config. *)
Idle == [at |-> "idle", fn |-> "none", dst |-> Mem!Null, src |-> Mem!Null, dim |-> 0]

Init ==
  /\ Mem!Init
  /\ poly_map = T!Empty /\ reg = Groups!NewRegistry /\ input_addrs = {}
  /\ addr_modulus = T!Empty /\ mrp_in = NoMrpInputs /\ recording = FALSE
  /\ ring_dim = 0 /\ montgomery = FALSE
  /\ initialized = FALSE /\ inits = 0
  /\ epoch_lock = NoThread /\ init_lock = NoThread /\ config_lock = NoThread
  /\ call = [t \in Threads |-> Idle] /\ delivered = {}
  /\ owned = [t \in Threads |-> {}] /\ truth = T!Empty /\ unflushed = {} /\ overtaken = {}
  /\ raced = FALSE

-----------------------------------------------------------------------------
(* Calls and their steps. *)

Resetting(t) == call[t].fn = "reset"
OthersIdle(t) == \A u \in Threads \ {t} : call[u] = Idle

(* A call that starts while a reset is under way races with it. *)
Starts(t) == call[t] = Idle /\ raced' = (raced \/ \E u \in Threads : Resetting(u))
At(t, step) == call[t].at = step /\ UNCHANGED raced

GoesTo(t, step) == call' = [call EXCEPT ![t].at = step]
Enters(t, step, fn, d, s) ==
  call' = [call EXCEPT ![t] = [at |-> step, fn |-> fn, dst |-> d, src |-> s, dim |-> 0]]
Returns(t) == call' = [call EXCEPT ![t] = Idle]

Holds(S, f) == /\ truth' = T!Put(T!Drop(truth, S), f) /\ unflushed' = unflushed \ S
               /\ overtaken' = overtaken \ S

(* The second section of a write of a is over: it holds v unless a flush came between. *)
Written(a, v) == Holds({a}, IF a \in overtaken THEN T!Empty ELSE one(a, v)) /\ UNCHANGED owned

-----------------------------------------------------------------------------
(* Config. *)

SetRingDimensionUnlocked(t, n) ==   \* mutation: the lock is given back before the allocator's is taken
  /\ Starts(t) /\ config_lock = NoThread
  /\ ring_dim' = n
  /\ Enters(t, "resize", "resize", n, Mem!Null)
  /\ UNCHANGED <<shadows, epochVars, montgomery, backend, locks, delivered, ghosts>>

(* The lock is kept while the allocator's is taken. *)
hazeSetRingDimension(t, n) ==
  /\ Starts(t) /\ config_lock = NoThread
  /\ ring_dim' = n
  /\ config_lock' = t /\ Enters(t, "resize", "resize", n, Mem!Null)
  /\ UNCHANGED <<shadows, epochVars, montgomery, backend, epoch_lock, init_lock, delivered, ghosts>>

Resize(t) ==
  /\ At(t, "resize")
  /\ Mem!set_polynomial_size(call[t].dst)
  /\ config_lock' = NoThread /\ Returns(t)
  /\ UNCHANGED <<epochVars, config, backend, epoch_lock, init_lock, delivered, ghosts>>

hazeSetMontgomery(t, b) ==
  /\ Starts(t) /\ config_lock = NoThread
  /\ montgomery' = b
  /\ UNCHANGED <<shadows, epochVars, ring_dim, backend, locks, call, delivered, ghosts>>

-----------------------------------------------------------------------------
(* Bringing up the backend, before the epoch lock is wanted. *)

FastPathLocked(t) ==   \* mutation: the look is under the epoch lock, which the session takes again
  /\ At(t, "session") /\ epoch_lock = NoThread
  /\ epoch_lock' = t /\ GoesTo(t, IF initialized THEN "enter" ELSE "bring up")
  /\ UNCHANGED <<shadows, epochVars, config, backend, init_lock, config_lock, delivered, ghosts>>

(* The look without a lock. *)
FastPath(t) ==
  /\ At(t, "session")
  /\ GoesTo(t, IF initialized THEN "enter" ELSE "bring up")
  /\ UNCHANGED <<shadows, epochVars, config, backend, locks, delivered, ghosts>>

LockInit(t) ==
  /\ At(t, "bring up") /\ init_lock = NoThread
  /\ init_lock' = t /\ GoesTo(t, "init")
  /\ UNCHANGED <<shadows, epochVars, config, backend, epoch_lock, config_lock, delivered, ghosts>>

(* Counted are the inits of ensure_initialized, not the one by which the bridge sets up *)
(* a crypto context (openfhe_template.cpp:514).                                         *)
CompilerInit == initialized' = TRUE /\ inits' = IF inits < 2 THEN inits + 1 ELSE inits

InitOnceMore(t) ==   \* mutation: no second look under the lock
  /\ At(t, "init") /\ config_lock = NoThread
  /\ IF montgomery THEN UNCHANGED backend ELSE CompilerInit
  /\ init_lock' = NoThread /\ GoesTo(t, "enter")
  /\ UNCHANGED <<shadows, epochVars, config, epoch_lock, config_lock, delivered, ghosts>>

InitKeepingLock(t) ==   \* mutation: the refusal does not give the lock back
  /\ At(t, "init") /\ config_lock = NoThread
  /\ IF montgomery THEN UNCHANGED <<backend, init_lock>> ELSE CompilerInit /\ init_lock' = NoThread
  /\ GoesTo(t, "enter")
  /\ UNCHANGED <<shadows, epochVars, config, epoch_lock, config_lock, delivered, ghosts>>

(* The second look, under the lock; the refusal of a format the target has not, which   *)
(* is the in-process simulator here; and the compiler's own init, which may throw.      *)
InitBackend(t) ==
  /\ At(t, "init") /\ config_lock = NoThread
  /\ \/ (initialized \/ montgomery \/ "init" \in Faults) /\ UNCHANGED backend
     \/ ~initialized /\ ~montgomery /\ CompilerInit
  /\ init_lock' = NoThread /\ GoesTo(t, "enter")
  /\ UNCHANGED <<shadows, epochVars, config, epoch_lock, config_lock, delivered, ghosts>>

(* The epoch lock, and the recording if there is a backend. *)
EnterEpoch(t) ==
  /\ At(t, "enter") /\ epoch_lock = NoThread
  /\ epoch_lock' = t /\ recording' = (recording \/ initialized)
  /\ GoesTo(t, "locked")
  /\ UNCHANGED <<shadows, poly_map, reg, input_addrs, addr_modulus, mrp_in, config, backend,
                 init_lock, config_lock, delivered, ghosts>>

(* An upload, and an operation on an address that has no binding, read the ring         *)
(* dimension under Config's lock before they go to the allocator.                       *)
ReadsSize(t) == call[t].fn = "h2d" \/ call[t].src \notin DOMAIN poly_map

ReadRingDim(t) ==
  /\ At(t, "locked") /\ ReadsSize(t) /\ config_lock = NoThread
  /\ call' = [call EXCEPT ![t].at = "read", ![t].dim = ring_dim]
  /\ UNCHANGED <<shadows, epochVars, config, backend, locks, delivered, ghosts>>

(* The rest of the session is over in one step: it meets the allocator at one point.    *)
Leaves(t, st) ==
  /\ Become(st) /\ UNCHANGED recording
  /\ epoch_lock' = NoThread /\ Returns(t)
  /\ UNCHANGED <<allocations, config, backend, init_lock, config_lock, delivered>>

-----------------------------------------------------------------------------
(* Calls that open a session. *)

hazeMemcpyH2D(t, a) ==
  /\ Starts(t)
  /\ Mem!copy_h2d(a, Upload)
  /\ IF err' = "Ok" THEN Enters(t, "session", "h2d", a, Mem!Null) /\ Holds({a}, T!Empty)
     ELSE UNCHANGED <<call, truth, unflushed, overtaken>>
  /\ UNCHANGED <<epochVars, config, backend, locks, delivered, owned>>

(* The shadow is read again, whatever became of it since. *)
TagInput(t) ==
  LET a == call[t].dst
      e == Mem!ComponentsError(a, call[t].dim)
      st == IF e = "Ok" THEN tag_h2d_input(Here, <<a>>, call[t].dim) ELSE [Here EXCEPT !.err = e]
  IN /\ At(t, "read") /\ call[t].fn = "h2d"
     /\ Leaves(t, st)
     /\ IF e = "Ok" THEN Written(a, Upload) ELSE UNCHANGED ghosts

Operation(t, d, s) ==
  /\ Starts(t)
  /\ Enters(t, "session", "op", d, s)
  /\ UNCHANGED <<shadows, epochVars, config, backend, locks, delivered, ghosts>>

Record(t) ==
  LET d == call[t].dst
      s == call[t].src
      st == compute(Here, <<d>>, <<<<s>>>>, <<CopyModulus>>, call[t].dim)
  IN /\ call[t].fn = "op"
     /\ \/ At(t, "read")
        \/ At(t, "locked") /\ ~ReadsSize(t)
     /\ Leaves(t, st)
     /\ IF st.err = "Ok"
        THEN /\ truth' = T!Put(T!Drop(truth, {d}),
                               IF s \in DOMAIN truth THEN one(d, Eval(<<truth[s]>>)) ELSE T!Empty)
             /\ unflushed' = unflushed \cup {d}
             /\ UNCHANGED <<owned, overtaken>>
        ELSE UNCHANGED ghosts

-----------------------------------------------------------------------------
(* Calls that take the epoch and the allocator in turn, or one of them. *)

hazeMalloc(t) ==
  /\ Starts(t)
  /\ \E n \in PolySizes : Mem!allocate(n)
  /\ Holds(alloc_set' \ alloc_set, T!Empty)
  /\ owned' = [owned EXCEPT ![t] = @ \cup (alloc_set' \ alloc_set)]
  /\ UNCHANGED <<epochVars, config, backend, locks, call, delivered>>

Invalidated(a) ==
  LET st == invalidate(Here, {a})
  IN /\ epoch_lock = NoThread
     /\ poly_map' = st.poly_map /\ reg' = st.reg /\ input_addrs' = st.input_addrs
     /\ addr_modulus' = st.addr_modulus /\ mrp_in' = st.mrp_in /\ UNCHANGED recording

FreeFirst(t, a) ==   \* mutation: the allocator lets go first
  /\ Starts(t)
  /\ Mem!free(a)
  /\ Enters(t, "free", "free", a, Mem!Null)
  /\ Holds({a}, T!Empty) /\ owned' = [owned EXCEPT ![t] = @ \ {a}]
  /\ UNCHANGED <<epochVars, config, backend, locks, delivered>>

(* The epoch lets go of the address, and then the allocator. *)
hazeFree(t, a) ==
  /\ Starts(t)
  /\ Invalidated(a)
  /\ Enters(t, "free", "free", a, Mem!Null)
  /\ Holds({a}, T!Empty) /\ owned' = [owned EXCEPT ![t] = @ \ {a}]
  /\ UNCHANGED <<shadows, config, backend, locks, delivered>>

Release(t) ==
  /\ At(t, "free")
  /\ Mem!free(call[t].dst)
  /\ Returns(t)
  /\ UNCHANGED <<epochVars, config, backend, locks, delivered, ghosts>>

hazeMemset(t, a) ==
  /\ Starts(t)
  /\ Mem!memset(a, 0, poly_bytes)
  /\ IF err' = "Ok" THEN Enters(t, "memset", "memset", a, Mem!Null) /\ Holds({a}, T!Empty)
     ELSE UNCHANGED <<call, truth, unflushed, overtaken>>
  /\ UNCHANGED <<epochVars, config, backend, locks, delivered, owned>>

DropBinding(t) ==
  /\ At(t, "memset")
  /\ Invalidated(call[t].dst)
  /\ Written(call[t].dst, Mem!Zeros(poly_bytes))
  /\ Returns(t)
  /\ UNCHANGED <<shadows, config, backend, locks, delivered>>

hazeTagOutput(t, a) ==
  /\ Starts(t) /\ epoch_lock = NoThread
  /\ Become(tag_output(Here, a))
  /\ reg'.output_counter <= MaxOutputs
  /\ UNCHANGED <<allocations, recording, config, backend, locks, call, delivered, ghosts>>

-----------------------------------------------------------------------------
(* Flush. *)

(* The format is looked at before the epoch is locked. *)
hazeFlush(t) ==
  /\ Starts(t) /\ config_lock = NoThread
  /\ IF montgomery THEN UNCHANGED call ELSE Enters(t, "flush", "flush", Mem!Null, Mem!Null)
  /\ UNCHANGED <<shadows, epochVars, config, backend, locks, delivered, ghosts>>

(* The epoch is over, `done` of its outputs delivered. *)
EpochEnds(done) ==
  /\ unflushed' = unflushed \ done
  /\ truth' = IF recording /\ ~recording' THEN T!Drop(truth, unflushed') ELSE truth
  /\ UNCHANGED <<owned, overtaken>>

FlushStartUnlocked(t) ==   \* mutation: the results are brought back outside the lock
  /\ At(t, "flush") /\ epoch_lock = NoThread
  /\ IF recording /\ ~NothingPending /\ Resolvable
     THEN /\ delivered' = {} /\ GoesTo(t, "populate")
          /\ UNCHANGED <<epochVars, shadow_data, err, truth, unflushed, owned, overtaken>>
     ELSE finalize(TRUE, "none", {}) /\ EpochEnds({}) /\ Returns(t) /\ UNCHANGED delivered
  /\ UNCHANGED <<allocations, config, backend, locks>>

FlushStart(t) ==
  /\ At(t, "flush") /\ epoch_lock = NoThread
  /\ \/ \E fault \in (Faults \ {"init", "result"}) \cup {"none"} :
          /\ fault # "none" \/ ~recording \/ NothingPending \/ ~Resolvable
          /\ finalize(TRUE, fault, {})
          /\ EpochEnds({})
          /\ Returns(t) /\ UNCHANGED <<epoch_lock, delivered>>
     \/ /\ recording /\ ~NothingPending /\ Resolvable
        /\ epoch_lock' = t /\ delivered' = {} /\ GoesTo(t, "populate")
        /\ UNCHANGED <<epochVars, shadow_data, err, truth, unflushed, owned, overtaken>>
  /\ UNCHANGED <<allocations, config, backend, init_lock, config_lock>>

(* One update_shadow, under the allocator's lock. *)
Populate(t) ==
  /\ At(t, "populate")
  /\ \E a \in (Pending \ delivered) \cap alloc_set :
       /\ Mem!update_shadow(a, ResultAt(a))
       /\ delivered' = delivered \cup {a}
       /\ overtaken' = overtaken \cup {call[u].dst : u \in {v \in Threads :
                                         call[v].fn \in {"h2d", "memset"} /\ call[v].dst = a}}
  /\ UNCHANGED <<epochVars, config, backend, locks, call, owned, truth, unflushed>>

FlushEnd(t) ==
  /\ At(t, "populate")
  /\ \/ Pending = delivered /\ ended(Here, "Ok")
     \/ ~(Pending \ delivered \subseteq alloc_set) /\ ended(Here, "UnknownAddress")
     \/ "result" \in Faults /\ Pending # delivered /\ ended(Here, "BackendOutputMissing")
  /\ EpochEnds(delivered)
  /\ epoch_lock' = NoThread /\ delivered' = {} /\ Returns(t)
  /\ UNCHANGED <<allocations, config, backend, init_lock, config_lock>>

-----------------------------------------------------------------------------
(* Device reset: one component after the other, each under its own lock. *)

hazeDeviceReset(t) ==
  /\ call[t] = Idle /\ epoch_lock = NoThread
  /\ ended(Here, "Ok")
  /\ raced' = ~OthersIdle(t)
  /\ Enters(t, "reset.backend", "reset", Mem!Null, Mem!Null)
  /\ UNCHANGED <<allocations, config, backend, locks, delivered, ghosts>>

ResetBackend(t) ==
  /\ At(t, "reset.backend") /\ init_lock = NoThread
  /\ initialized' = FALSE
  /\ GoesTo(t, "reset.allocator")
  /\ UNCHANGED <<shadows, epochVars, config, inits, locks, delivered, ghosts>>

ResetAllocator(t) ==
  /\ At(t, "reset.allocator")
  /\ Mem!reset
  /\ owned' = [u \in Threads |-> {}] /\ Holds(Mem!DevAddrs, T!Empty)
  /\ GoesTo(t, "reset.config")
  /\ UNCHANGED <<epochVars, config, backend, locks, delivered>>

ResetConfig(t) ==
  /\ At(t, "reset.config") /\ config_lock = NoThread
  /\ ring_dim' = 0 /\ montgomery' = FALSE
  /\ GoesTo(t, "reset.compiler")
  /\ UNCHANGED <<shadows, epochVars, backend, locks, delivered, ghosts>>

ResetCompiler(t) ==
  /\ At(t, "reset.compiler")
  /\ inits' = 0
  /\ Returns(t)
  /\ UNCHANGED <<shadows, epochVars, config, initialized, locks, delivered, ghosts>>

-----------------------------------------------------------------------------
Manage(t) ==
  \/ \E n \in PolySizes : hazeSetRingDimension(t, n)
  \/ \E b \in BOOLEAN : hazeSetMontgomery(t, b)
  \/ hazeDeviceReset(t)

Begin(t) ==
  \/ t \in Managers /\ Manage(t)
  \/ Cardinality(owned[t]) < MaxOwned /\ hazeMalloc(t)
  \/ \E a \in owned[t] : hazeFree(t, a) \/ hazeMemset(t, a) \/ hazeMemcpyH2D(t, a) \/ hazeTagOutput(t, a)
  \/ \E d, s \in owned[t] : Operation(t, d, s)
  \/ hazeFlush(t)

(* The next section of the call t is in. *)
Continue(t) ==
  \/ Resize(t)
  \/ FastPath(t) \/ LockInit(t) \/ InitBackend(t) \/ EnterEpoch(t)
  \/ ReadRingDim(t) \/ TagInput(t) \/ Record(t)
  \/ Release(t) \/ DropBinding(t)
  \/ FlushStart(t) \/ Populate(t) \/ FlushEnd(t)
  \/ ResetBackend(t) \/ ResetAllocator(t) \/ ResetConfig(t) \/ ResetCompiler(t)

Next == \E t \in Threads : Begin(t) \/ Continue(t)

(* A thread inside a call runs on when it can; one outside need never call again.  Of a  *)
(* mutex nothing more is assumed: a waiter may be passed over for as long as others want *)
(* it, so Fairness is weak.                                                             *)
Fairness == \A t \in Threads : WF_threads(Continue(t))

Spec == Init /\ [][Next]_threads /\ Fairness

-----------------------------------------------------------------------------
(* Properties. *)

Bound == DOMAIN poly_map

(* No reset is under way, and none has raced with a call since the last that did not.   *)
Settled == ~raced /\ \A t \in Threads : ~Resetting(t)

(* Types; and whoever holds Config's lock, where it was free, finds the ring dimension  *)
(* and the allocator's polynomial size equal (config.cpp:44-46).  A session that reads   *)
(* the one and goes on to the other may find a resize between (epoch.cpp:107-108).       *)
TypeOK ==
  /\ Settled /\ config_lock = NoThread => ring_dim = poly_bytes
  /\ alloc_set \subseteq Mem!DevAddrs /\ DOMAIN shadow_data \subseteq alloc_set
  /\ ring_dim \in PolySizes \cup {0} /\ inits \in 0..2
  /\ {montgomery, initialized, recording, raced} \subseteq BOOLEAN
  /\ {epoch_lock, init_lock, config_lock} \subseteq Threads \cup {NoThread}
  /\ \A t \in Threads : owned[t] \subseteq Mem!DevAddrs /\ call[t].dst \in Nat
  /\ delivered \subseteq Pending

(* Of a free address nothing is left in the epoch that its next owner, another thread   *)
(* perhaps, could meet, wherever the other threads are in their calls.                  *)
FreedIsForgotten ==
  Settled => \A a \in Mem!DevAddrs \ alloc_set :
    a \notin Bound \cup input_addrs \cup DOMAIN addr_modulus \cup Pending

(* A D2H returns what the address's own thread last gave it, whatever the others did,   *)
(* but for a recorded result that no flush brought back and for a write overtaken by a  *)
(* flush: whose result then stands in its place (haze.h:80-83).                         *)
ReadsAreCurrent ==
  Settled => \A a \in (DOMAIN shadow_data \cap DOMAIN truth) \ unflushed : shadow_data[a] = truth[a]

(* And an operation reads it too. *)
BindingsAreCurrent ==
  Settled => \A a \in Bound \cap DOMAIN truth : poly_map[a].val = truth[a]

(* A flush that succeeds has delivered the tagged outputs of all threads, and none is   *)
(* lost to what they do meanwhile: only their own later writes replace them.            *)
FlushDelivers ==
  [][\A t \in Threads : Settled /\ call[t].at = "populate" /\ call'[t] = Idle /\ err' = "Ok" =>
       \A a \in Pending \cap DOMAIN truth :
         a \in DOMAIN shadow_data' /\ shadow_data'[a] = truth[a]]_threads

(* Concurrent first calls bring the compiler up once (backend.cpp:44), and none takes   *)
(* it for up before it is.                                                              *)
BroughtUpOnce == Settled => inits <= 1 /\ (initialized \/ recording => inits = 1)

(* What a thread has allocated and not freed, or is freeing. *)
Claimed(t) == owned[t] \cup (IF call[t].fn = "free" THEN {call[t].dst} ELSE {})

(* An address is one thread's, from the allocation to the end of the call that frees    *)
(* it, and live all that time, however the calls of the threads are interleaved.  Where *)
(* a reset has raced with a call it need not be: a free of before the reset may yet     *)
(* reach the allocator, and pool an address that has been handed out again.             *)
OneOwner ==
  Settled => /\ \A t \in Threads : Claimed(t) \subseteq alloc_set
             /\ \A t, u \in Threads : t # u => Claimed(t) \cap Claimed(u) = {}

(* Whatever a device reset races with, and whatever calls follow, the tags of a flush   *)
(* resolve to bindings.                                                                 *)
SurvivesRaces == Groups!FlushResolves

(* Who holds the mutex that the next section of t's call takes.                         *)
Awaited(t) ==
  CASE call[t].at \in {"bring up", "reset.backend"} -> init_lock
    [] call[t].at \in {"init", "reset.config"} \/ (call[t].at = "locked" /\ ReadsSize(t)) -> config_lock
    [] call[t].at \in {"enter", "flush", "memset"} -> epoch_lock
    [] OTHER -> NoThread

(* No wait for a mutex goes round in a circle or on a mutex left behind: who holds one  *)
(* is inside a call, and waits, if at all, for one who waits for nobody                 *)
(* (epoch.cpp:509-514, backend.cpp:45-51, config.cpp:44-46).                            *)
EveryWaitEnds ==
  \A h \in {epoch_lock, init_lock, config_lock} \ {NoThread} :
    call[h] # Idle /\ (Awaited(h) # NoThread => Awaited(Awaited(h)) = NoThread)

(* In a program of finitely many calls every call returns: no call waits for ever on a  *)
(* mutex, one that another left locked or one whose holder waits on a mutex of its own. *)
CallsReturn ==
  <>[][\A t \in Threads : ~Begin(t)]_threads => <>[](\A t \in Threads : call[t] = Idle)
=============================================================================
