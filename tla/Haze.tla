-------------------------------- MODULE Haze --------------------------------
(***************************************************************************)
(* The C API of HAZE (src/src/api) over Epoch, Allocator and Config: one   *)
(* action per call, as a single-threaded program makes them (README.md     *)
(* 675-679).  The compiler that replays a recording is external: the model *)
(* lets each of its steps fail, as Faults allows.                          *)
(*                                                                         *)
(* Ghosts: `truth` is the polynomial each address holds for a program that *)
(* thinks of device memory as memory, where that is defined; `unflushed`   *)
(* are the addresses last written by a recorded operation whose result no  *)
(* flush has brought back.                                                 *)
(***************************************************************************)
EXTENDS Epoch

CONSTANTS
  Moduli,     \* arguments of hazeSetCiphertextModulus
  MaxModuli,  \* bound on the length of the modulus table
  Targets,    \* arguments of hazeSetTarget
  Toggles,    \* arguments of hazeSetMontgomery and hazeSetBitReversal
  Uploads,    \* payloads of an H2D transfer
  Faults,     \* steps of the compiler that may fail: init, stop, hook, replay, result
  Arity,      \* numbers of polynomial operands an operation may have
  AnyDst      \* may an operation name a destination that is not allocated?

ASSUME UploadsAssumption == Uploads \subseteq Seq(Words)
ASSUME ArityAssumption == Arity \subseteq 1..2

VARIABLES
  conf,         \* Config: what the setters set
  initialized,  \* CompilerBackend::initialized_
  truth,        \* ghost
  unflushed     \* ghost

haze == <<alloc_set, shadow_data, pool_free, host_set, poly_bytes, next_addr, err,
          poly_map, reg, input_addrs, addr_modulus, mrp_in, recording,
          conf, initialized, truth, unflushed>>

NewConfig == [ring_dim |-> 0, moduli |-> <<>>, configured |-> FALSE, target |-> "local",
              montgomery |-> FALSE, bit_reversal |-> FALSE]

Init ==
  /\ Mem!Init
  /\ poly_map = T!Empty /\ reg = Groups!NewRegistry /\ input_addrs = {}
  /\ addr_modulus = T!Empty /\ mrp_in = NoMrpInputs /\ recording = FALSE
  /\ conf = NewConfig /\ initialized = FALSE
  /\ truth = T!Empty /\ unflushed = {}

(* What a call may leave alone. *)
KeepsEpoch == UNCHANGED <<poly_map, reg, input_addrs, addr_modulus, mrp_in, recording, initialized>>
KeepsAllocations == UNCHANGED <<alloc_set, pool_free, host_set, poly_bytes, next_addr>>
KeepsGhosts == UNCHANGED <<truth, unflushed>>

(* The addresses of S are, from now on, not recorded results; they hold what f says. *)
Holds(S, f) == truth' = T!Put(T!Drop(truth, S), f) /\ unflushed' = unflushed \ S

(* What each address a of f holds when f[a] is written over its start: f[a], where that *)
(* is a whole polynomial, and else f[a] before the rest of what the program had there.  *)
(* Where the rest was not in the shadow, because it was never written, was moved to the *)
(* recording, or is a result that no flush brought back, it is left undefined.          *)
Overwritten(f) ==
  LET known == {a \in (DOMAIN truth \cap DOMAIN shadow_data) \ unflushed : Len(truth[a]) = poly_bytes}
      whole == {a \in DOMAIN f : Len(f[a]) = poly_bytes}
  IN [a \in whole \cup (DOMAIN f \cap known) |->
        IF a \in whole THEN f[a] ELSE Mem!Overlay(truth[a], f[a])]

-----------------------------------------------------------------------------
(* Config (config.cpp).  A refused setter changes nothing. *)

Setting(c, e) == /\ conf' = c /\ err' = e
                 /\ KeepsAllocations /\ UNCHANGED shadow_data /\ KeepsEpoch /\ KeepsGhosts

SetRingDimensionOfConfigOnly(n) ==   \* mutation: the allocator keeps its size
  IF n \notin PolySizes THEN Setting(conf, "InvalidArgument")
  ELSE IF conf.configured /\ conf.ring_dim # n THEN Setting(conf, "NotConfigured")
  ELSE Setting([conf EXCEPT !.ring_dim = n], "Ok")

(* Powers of two only, for which PolySizes stands.  The lock is held across the         *)
(* allocator's update.  What addresses hold for the program under a new size is left    *)
(* undefined: their bytes stay as they were, in polynomials of the old one.             *)
hazeSetRingDimension(n) ==
  IF n \notin PolySizes THEN Setting(conf, "InvalidArgument")
  ELSE IF conf.configured /\ conf.ring_dim # n THEN Setting(conf, "NotConfigured")
  ELSE /\ conf' = [conf EXCEPT !.ring_dim = n]
       /\ Mem!set_polynomial_size(n)
       /\ KeepsEpoch
       /\ truth' = (IF n = poly_bytes THEN truth ELSE T!Empty) /\ UNCHANGED unflushed

(* The table grows one index at a time, and is frozen once the device is configured. *)
hazeSetCiphertextModulus(i, q) ==   \* the code's index is i - 1
  LET known == i \in DOMAIN conf.moduli
  IN IF conf.configured
     THEN Setting(conf, IF known /\ conf.moduli[i] = q THEN "Ok" ELSE "NotConfigured")
     ELSE IF i > Len(conf.moduli) + 1 THEN Setting(conf, "InvalidArgument")
     ELSE Setting([conf EXCEPT !.moduli = IF known THEN [@ EXCEPT ![i] = q] ELSE Append(@, q)], "Ok")

hazeConfigureDevice ==
  IF conf.ring_dim = 0 THEN Setting(conf, "NotConfigured")
  ELSE Setting([conf EXCEPT !.configured = TRUE], "Ok")

hazeSetTarget(t) == Setting([conf EXCEPT !.target = t], "Ok")
hazeSetMontgomery(b) == Setting([conf EXCEPT !.montgomery = b], "Ok")
hazeSetBitReversal(b) == Setting([conf EXCEPT !.bit_reversal = b], "Ok")

(* The in-process simulator runs ordinary-form traces only. *)
UnsupportedFormat == (conf.montgomery \/ conf.bit_reversal) /\ conf.target = "local"

-----------------------------------------------------------------------------
(* Memory calls that record nothing. *)

Fresh == alloc_set' \ alloc_set

hazeMalloc(n) ==
  /\ Mem!allocate(n)
  /\ KeepsEpoch /\ UNCHANGED conf /\ Holds(Fresh, T!Empty)

hazeMallocMrp(n, bytes) ==
  /\ Mem!allocate_many(n, bytes)
  /\ KeepsEpoch /\ UNCHANGED conf /\ Holds(Fresh, T!Empty)

(* The part of Become an invalidation touches. *)
Invalidated(s) ==
  LET st == invalidate(Here, T!Range(s) \ {Mem!Null})
  IN /\ poly_map' = st.poly_map /\ reg' = st.reg /\ input_addrs' = st.input_addrs
     /\ addr_modulus' = st.addr_modulus /\ mrp_in' = st.mrp_in
     /\ UNCHANGED <<recording, initialized, conf>>

(* The epoch lets go of the address before the allocator looks whether it is live. *)
hazeFree(a) ==
  /\ Invalidated(<<a>>)
  /\ Mem!free(a)
  /\ Holds({a}, T!Empty)

hazeFreeMrp(addrs) ==
  /\ Invalidated(addrs)
  /\ Mem!free_many(addrs)
  /\ Holds({addrs[i] : i \in DOMAIN addrs}, T!Empty)

hazeMemset(a, w, count) ==
  /\ Mem!memset(a, w, count)
  /\ IF err' = "Ok"
     THEN Invalidated(<<a>>) /\ Holds({a}, Overwritten(one(a, Mem!Fill(w, count))))
     ELSE KeepsEpoch /\ UNCHANGED conf /\ KeepsGhosts

hazeHostAlloc(p) == /\ p \notin host_set /\ Mem!register_host_pointer(p)
                    /\ KeepsEpoch /\ UNCHANGED conf /\ KeepsGhosts
hazeFreeHost(p) == /\ Mem!unregister_host_pointer(p)
                   /\ KeepsEpoch /\ UNCHANGED conf /\ KeepsGhosts

hazeMemcpyD2H(a, count) ==
  /\ Mem!copy_to_host(a, count)
  /\ KeepsEpoch /\ UNCHANGED conf /\ KeepsGhosts

-----------------------------------------------------------------------------
(* Calls that open an EpochSession. *)

(* Bringing up the backend may fail, and nothing but the missing recording shows it. *)
ensure_initialized ==
  \/ initialized /\ initialized' = TRUE
  \/ ~initialized /\ ~UnsupportedFormat /\ initialized' = TRUE
  \/ /\ ~initialized
     /\ UnsupportedFormat \/ "init" \in Faults
     /\ initialized' = FALSE

Session == ensure_initialized /\ recording' = (recording \/ initialized')

(* One critical section of the epoch, with st for its outcome. *)
Recorded(st) == Session /\ Become(st) /\ KeepsAllocations /\ UNCHANGED conf

(* The residues are written to their shadows in order, up to the first that is        *)
(* refused; when all were, one session binds them.                                    *)
Upload(d, vals) ==
  LET refused == {i \in DOMAIN d : Mem!WriteError(d[i], Len(vals[i])) # "Ok"}
      first == CHOOSE i \in refused : \A j \in refused : i <= j
      payload(a) == vals[CHOOSE i \in DOMAIN d : d[i] = a]
      written == IF refused = {} THEN DOMAIN d ELSE 1..(first - 1)
      payloads == [a \in {d[i] : i \in written} |-> payload(a)]
      shadows == Mem!Written(payloads)
  IN IF refused # {}
     THEN /\ shadow_data' = shadows /\ err' = Mem!WriteError(d[first], Len(vals[first]))
          /\ KeepsEpoch /\ KeepsAllocations /\ UNCHANGED conf
          /\ Holds({d[i] : i \in written}, T!Empty)
     ELSE /\ Recorded(tag_h2d_input([Here EXCEPT !.shadow_data = shadows], d, conf.ring_dim))
          /\ Holds({d[i] : i \in written}, Overwritten(payloads))

hazeMemcpyH2D(a, src) == Upload(<<a>>, <<src>>)
hazeMemcpyMrpH2D(d, src) == Upload(d, [i \in DOMAIN d |-> src])

(* A recorded operation wrote the addresses of f, or did not if it failed. *)
Writes(f, S) ==
  IF err' = "Ok" THEN truth' = T!Put(T!Drop(truth, S), f) /\ unflushed' = unflushed \cup S
  ELSE KeepsGhosts

(* What the operation makes of the truth, when every operand has one. *)
Outcome(d, ops) ==
  LET defined == {i \in DOMAIN d : \A k \in DOMAIN ops : ops[k][i] \in DOMAIN truth}
  IN [a \in {d[i] : i \in defined} |->
        LET i == CHOOSE j \in DOMAIN d : d[j] = a
        IN Eval([k \in DOMAIN ops |-> truth[ops[k][i]]])]

(* hazeAdd, hazeSub, ... (two operands) and hazeAddScalar, hazeNTT, ... (one): the     *)
(* session is open when the modulus index is found to be out of the table.            *)
SrpOp(d, srcs, i) ==
  LET ops == [k \in DOMAIN srcs |-> <<srcs[k]>>]
      found == lookup_or_create(Here, srcs, conf.ring_dim)
      val == Eval([k \in DOMAIN srcs |-> found.poly_map[srcs[k]].val])
  IN IF i \notin DOMAIN conf.moduli
     THEN Recorded([Here EXCEPT !.err = "InvalidArgument"]) /\ KeepsGhosts
     ELSE /\ Recorded(IF found.err # "Ok" THEN found
                      ELSE store_compute_result(found, one(d, [val |-> val, mod |-> conf.moduli[i]])))
          /\ Writes(Outcome(<<d>>, ops), {d})

hazeAutomorph(d, s) ==
  Recorded(automorph(Here, d, s, conf.ring_dim)) /\ Writes(Outcome(<<d>>, <<<<s>>>>), {d})

hazeMemcpyD2D(d, s) ==
  /\ Recorded(copy_result(Here, d, s, CopyModulus, conf.ring_dim))
  /\ Writes([a \in {d} \cap (IF s \in DOMAIN truth THEN {d} ELSE {}) |-> truth[s]], {d})

MrpOp(d, ops, base) ==
  /\ Recorded(compute(Here, d, ops, base, conf.ring_dim))
  /\ Writes(Outcome(d, ops), {d[i] : i \in DOMAIN d})

(* What a copy from b to a makes of the truth f, and the truth after each of the copies. *)
CopyOf(f, a, b) == IF b \in DOMAIN f THEN T!Put(f, one(a, f[b])) ELSE T!Drop(f, {a})
CopiedTruth(d, s) ==
  LET after[i \in 0..Len(d)] == IF i = 0 THEN truth ELSE CopyOf(after[i - 1], d[i], s[i])
  IN after

(* A copy that fails leaves the earlier ones made. *)
hazeMemcpyMrpD2D(d, s, base) ==
  LET dst == {d[i] : i \in DOMAIN d}
  IN /\ Recorded(copy_mrp(Here, d, s, base, conf.ring_dim))
     /\ truth' = IF err' = "Ok" THEN CopiedTruth(d, s)[Len(d)] ELSE T!Drop(truth, dst)
     /\ unflushed' = unflushed \cup dst

-----------------------------------------------------------------------------
(* Outputs. *)

(* No session: tagging never starts a recording. *)
hazeTagOutput(a) ==
  /\ Become(tag_output(Here, a))
  /\ KeepsAllocations /\ KeepsGhosts /\ UNCHANGED <<recording, initialized, conf>>

(* An epoch that ends takes the recorded results it did not bring back with it. *)
EpochEnds(done) ==
  /\ unflushed' = unflushed \ done
  /\ truth' = IF recording /\ ~recording' THEN T!Drop(truth, unflushed') ELSE truth

Finalize(run_replay) ==
  \E fault \in (Faults \ {"init"}) \cup {"none"}, done \in SUBSET Pending :
    finalize(run_replay, fault, done) /\ EpochEnds(done)

FlushDiscardsWhenRefused ==   \* mutation
  /\ KeepsAllocations /\ UNCHANGED <<initialized, conf>>
  /\ IF UnsupportedFormat
     THEN ended(Here, "UnsupportedDataFormat") /\ KeepsGhosts
     ELSE Finalize(TRUE)

hazeFlush ==
  /\ KeepsAllocations /\ UNCHANGED <<initialized, conf>>
  /\ IF UnsupportedFormat
     THEN /\ Become([Here EXCEPT !.err = "UnsupportedDataFormat"])
          /\ UNCHANGED recording /\ KeepsGhosts
     ELSE Finalize(TRUE)

hazeWriteProgram ==
  KeepsAllocations /\ UNCHANGED <<initialized, conf>> /\ Finalize(FALSE)

hazeDeviceReset ==
  /\ Mem!reset
  /\ poly_map' = T!Empty /\ reg' = Groups!NewRegistry /\ input_addrs' = {}
  /\ addr_modulus' = T!Empty /\ mrp_in' = NoMrpInputs /\ recording' = FALSE
  /\ initialized' = FALSE /\ conf' = NewConfig
  /\ truth' = T!Empty /\ unflushed' = {}

-----------------------------------------------------------------------------
Dst == IF AnyDst THEN Mem!DevAddrs ELSE alloc_set
Distinct(S, base) == {s \in [DOMAIN base -> S] : T!IsInjective(s)}
Sizes == Mem!Sizes

Configure ==
  \/ \E n \in Sizes : hazeSetRingDimension(n)
  \/ \E i \in 1..MaxModuli, q \in Moduli : hazeSetCiphertextModulus(i, q)
  \/ hazeConfigureDevice
  \/ \E t \in Targets : hazeSetTarget(t)
  \/ \E b \in Toggles : hazeSetMontgomery(b) \/ hazeSetBitReversal(b)

Memory ==
  \/ \E n \in Sizes : hazeMalloc(n)
  \/ \E a \in Mem!DevAddrs \cup {Mem!Null} : hazeFree(a)
  \/ \E a \in Mem!DevAddrs, w \in Words, n \in Sizes : hazeMemset(a, w, n)
  \/ \E a \in Mem!DevAddrs, src \in Uploads : hazeMemcpyH2D(a, src)
  \/ \E a \in Mem!DevAddrs, n \in Sizes : hazeMemcpyD2H(a, n)
  \/ \E p \in Hosts : hazeHostAlloc(p) \/ hazeFreeHost(p)

Srp ==
  \/ \E d \in Dst, n \in Arity, i \in 1..MaxModuli :
       \E srcs \in [1..n -> Mem!DevAddrs] : SrpOp(d, srcs, i)
  \/ \E d \in Dst, s \in Mem!DevAddrs : hazeAutomorph(d, s) \/ hazeMemcpyD2D(d, s)

WithinBounds == /\ reg'.output_counter <= MaxOutputs
                /\ reg'.mrp_out_name_counter <= MaxGroups
                /\ mrp_in'.counter <= MaxInNames

Mrp ==
  \/ \E n \in 0..MaxGroup, bytes \in Sizes : hazeMallocMrp(n, bytes)
  \/ \E addrs \in Mem!Groups : hazeFreeMrp(addrs)
  \/ \E base \in Bases, src \in Uploads :
       \E d \in Distinct(Mem!DevAddrs, base) : hazeMemcpyMrpH2D(d, src)
  \/ \E base \in Bases :
       \E d \in Distinct(Dst, base), s \in Distinct(Mem!DevAddrs, base) :
         hazeMemcpyMrpD2D(d, s, base) /\ WithinBounds
  \/ \E base \in Bases, n \in Arity :
       \E d \in Distinct(Dst, base), ops \in [1..n -> Distinct(Mem!DevAddrs, base)] :
         MrpOp(d, ops, base) /\ WithinBounds

Outputs ==
  \/ \E a \in Mem!DevAddrs : hazeTagOutput(a) /\ WithinBounds
  \/ hazeFlush
  \/ hazeWriteProgram
  \/ hazeDeviceReset

Next == Configure \/ Memory \/ Srp \/ Mrp \/ Outputs

Spec == Init /\ [][Next]_haze

-----------------------------------------------------------------------------
(* Properties. *)

Bound == DOMAIN poly_map

(* Types of the variables this module adds, and those of Epoch. *)
TypeOK ==
  /\ Mem!TypeOK
  /\ \A a \in Bound : poly_map[a].val \in Seq(Words)
                     /\ poly_map[a].mod \in Moduli \cup {CopyModulus} \cup UNION {T!Range(b) : b \in Bases}
  /\ conf.moduli \in Seq(Moduli) /\ conf.target \in Targets \cup {"local"}
  /\ conf.ring_dim = poly_bytes
  /\ {initialized, recording, conf.configured} \subseteq BOOLEAN

(* The bytes a D2H returns are those the program last gave the address, unless that    *)
(* was a recorded operation that no flush has brought back (haze.h:78-83).            *)
ReadsAreCurrent ==
  \A a \in (DOMAIN shadow_data \cap DOMAIN truth) \ unflushed : shadow_data[a] = truth[a]

(* A recorded operation reads the current value of its operand, whichever of upload,   *)
(* memset, operation, copy, flush and recycling came last.                             *)
BindingsAreCurrent ==
  \A a \in Bound \cap DOMAIN truth : poly_map[a].val = truth[a]

(* The modulus a copy or automorph recovers for a result is the one its node carries.  *)
ModuliAgree ==
  \A a \in Bound \ input_addrs : recorded_modulus(Here, a) = poly_map[a].mod

(* Of an address that is free nothing is left that its next owner could meet: no       *)
(* binding, recorded modulus, output tag, group or name (epoch.cpp:76-99).             *)
FreedIsForgotten ==
  \A a \in Mem!DevAddrs \ alloc_set :
    /\ a \notin Bound \cup input_addrs \cup DOMAIN addr_modulus \cup Pending
    /\ a \notin DOMAIN reg.mrp_out_names \cup DOMAIN mrp_in.names
    /\ Groups!Claims(reg, a) = {}

(* A flush that succeeds has brought every tagged result back, each to its own address. *)
FlushDelivers ==
  [][(hazeFlush /\ recording /\ err' = "Ok") =>
       \A a \in Pending : /\ a \in DOMAIN shadow_data'
                          /\ a \in DOMAIN truth => shadow_data'[a] = truth[a]]_haze

(* D2H of a result that was not tagged and flushed is refused (haze.h:80-81).          *)
UnflushedIsRefused == \A a \in unflushed \cap alloc_set : a \notin DOMAIN shadow_data

=============================================================================
