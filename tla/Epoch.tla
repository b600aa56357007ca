------------------------------- MODULE Epoch -------------------------------
(***************************************************************************)
(* EpochState (src/src/core/epoch.cpp, mrp_polymap.cpp, compute.hpp): the  *)
(* polynomials of the recording in flight, over the allocator's shadows    *)
(* and the output bookkeeping of MrpGroups.                                *)
(*                                                                         *)
(* A method is a function from one session state to the next, so that an   *)
(* operation is written as the calls it makes, in their order; a failed    *)
(* call makes the rest of the operation a no-op, as the early returns do.  *)
(* A recorded polynomial is the value replay computes for it, and the      *)
(* modulus bound to its node.  Input names are left out: nothing reads     *)
(* them back, and each upload and promotion takes a new one.               *)
(***************************************************************************)
EXTENDS Integers, Sequences, SequencesExt

CONSTANTS
  Words, PolySizes, Hosts, HbmBase, MaxAddr, MaxGroup,   \* of the allocator
  Bases, MaxOutputs, MaxGroups,                          \* of MrpGroups
  MaxInNames,    \* bound on mrp_in_name_counter_
  Eval(_),       \* value of an operation, from the tuple of its operands' values
  CopyModulus    \* kCopyModulus, the "no modulus" sentinel

VARIABLES
  alloc_set, shadow_data, pool_free, host_set, poly_bytes, next_addr, err,
  poly_map,      \* address -> recorded polynomial
  reg,           \* output bookkeeping
  input_addrs,   \* addresses whose polynomial is a live-in input
  addr_modulus,  \* address -> modulus last recorded for it
  mrp_in,        \* names of the MRP inputs: by leading address, counter, tagged
  recording      \* recording_

Mem == INSTANCE Allocator
Groups == INSTANCE MrpGroups WITH Addrs <- Mem!DevAddrs, bound <- DOMAIN poly_map,
                                  Bases <- {b \in Bases : Len(b) > 1}
T == INSTANCE Tables

(* Of the allocator, as it says. *)
ASSUME WordsAssumption == 0 \in Words
ASSUME PolySizesAssumption == PolySizes \subseteq Nat \ {0}
ASSUME AddrAssumption == HbmBase \in Nat \ {0} /\ MaxAddr \in Nat
ASSUME MaxGroupAssumption == MaxGroup \in Nat \ {0}
(* Bases are tuples, not empty (compute.cpp:120). *)
ASSUME BasesAssumption == \A b \in Bases : b \in Seq(T!Range(b)) /\ Len(b) > 0

(* An operation on polynomials gives one; their sizes may differ, as a recorded operand *)
(* may be older than the ring dimension.                                                *)
Poly == UNION {[1..n -> Words] : n \in PolySizes}
ASSUME EvalAssumption == \A k \in 1..2 : \A vals \in [1..k -> Poly] : Eval(vals) \in Poly

epochVars == <<poly_map, reg, input_addrs, addr_modulus, mrp_in, recording>>

NoMrpInputs == [names |-> T!Empty, counter |-> 0, tagged |-> {}]

(* The session state at the start of an operation, and the step to the one at its end. *)
Here == [poly_map |-> poly_map, reg |-> reg, input_addrs |-> input_addrs,
         addr_modulus |-> addr_modulus, mrp_in |-> mrp_in,
         shadow_data |-> shadow_data, err |-> "Ok"]

Become(st) ==
  /\ poly_map' = st.poly_map /\ reg' = st.reg /\ input_addrs' = st.input_addrs
  /\ addr_modulus' = st.addr_modulus /\ mrp_in' = st.mrp_in
  /\ shadow_data' = st.shadow_data /\ err' = st.err

one(a, v) == [x \in {a} |-> v]

-----------------------------------------------------------------------------
(* Sources. *)

(* The bindings of s in order, up to the first that fails: one that is there, or else   *)
(* the address's shadow, moved out of the allocator and tagged as an input.  An extract *)
(* that fails on the length has lost the entry all the same.                            *)
lookup_or_create(st, s, ring_dim) ==
  LET error(i) == IF s[i] \in DOMAIN st.poly_map THEN "Ok" ELSE Mem!ComponentsError(s[i], ring_dim)
      failing == {i \in DOMAIN s : error(i) # "Ok"}
      first == CHOOSE i \in failing : \A j \in failing : i <= j
      taken == {s[i] : i \in {j \in DOMAIN s : \A k \in failing : j < k}} \ DOMAIN st.poly_map
      found == [st EXCEPT
                  !.poly_map = T!Put(@, [a \in taken |-> [val |-> shadow_data[a], mod |-> CopyModulus]]),
                  !.input_addrs = @ \cup taken,
                  !.shadow_data = T!Drop(@, taken)]
  IN IF st.err # "Ok" THEN st
     ELSE IF failing = {} THEN found
     ELSE [found EXCEPT !.err = IF error(first) = "NoData" THEN "SourceUnavailable" ELSE error(first),
                        !.shadow_data = IF Mem!Evicts(error(first)) THEN T!Drop(@, {s[first]}) ELSE @]

(* A genuine multi-residue input is tagged under the name of its leading address, once *)
(* per name and epoch.                                                                 *)
tag_mrp_input(st, s) ==
  LET named == s[1] \in DOMAIN st.mrp_in.names
      name == IF named THEN st.mrp_in.names[s[1]] ELSE st.mrp_in.counter
  IN IF st.err # "Ok" \/ Len(s) = 1 \/ s[1] \notin st.input_addrs THEN st
     ELSE [st EXCEPT !.mrp_in =
             [names |-> T!Put(@.names, one(s[1], name)),
              counter |-> IF named THEN @.counter ELSE @.counter + 1,
              tagged |-> @.tagged \cup {name}]]

build_mrp(st, s, ring_dim) == tag_mrp_input(lookup_or_create(st, s, ring_dim), s)

-----------------------------------------------------------------------------
(* Results. *)

recorded_modulus(st, a) == IF a \in DOMAIN st.addr_modulus THEN st.addr_modulus[a] ELSE CopyModulus

StoreKeepingModulus(st, f) ==   \* mutation: no modulus leaves the old one
  IF st.err # "Ok" THEN st
  ELSE [st EXCEPT !.poly_map = T!Put(@, f),
                  !.input_addrs = @ \ DOMAIN f,
                  !.addr_modulus = T!Put(@, [a \in {b \in DOMAIN f : f[b].mod # CopyModulus} |-> f[a].mod])]

(* The destinations, the addresses of f, are bound whatever they held, and whether or   *)
(* not they are live.                                                                   *)
store_compute_result(st, f) ==
  IF st.err # "Ok" THEN st
  ELSE [st EXCEPT !.poly_map = T!Put(@, f),
                  !.input_addrs = @ \ DOMAIN f,
                  !.addr_modulus = T!Put(T!Drop(@, DOMAIN f),
                                         [a \in {b \in DOMAIN f : f[b].mod # CopyModulus} |-> f[a].mod])]

(* The residues, whose addresses differ, then the group they form; a single residue     *)
(* forms none.                                                                          *)
store_mrp(st, d, vals, base) ==
  LET at(a) == CHOOSE i \in DOMAIN d : d[i] = a
      stored == store_compute_result(st, [a \in T!Range(d) |-> [val |-> vals[at(a)], mod |-> base[at(a)]]])
  IN IF st.err # "Ok" \/ Len(d) = 1 THEN stored
     ELSE [stored EXCEPT !.reg = Groups!register_mrp_output_group(@, d, base)]

ComputePerResidue(st, d, ops, base, ring_dim) ==   \* mutation: look up, store, next residue
  LET residue(acc, i) ==
        LET found == lookup_or_create(acc, [k \in DOMAIN ops |-> ops[k][i]], ring_dim)
            val == Eval([k \in DOMAIN ops |-> found.poly_map[ops[k][i]].val])
        IN IF found.err # "Ok" THEN found
           ELSE store_compute_result(found, one(d[i], [val |-> val, mod |-> base[i]]))
  IN FoldLeft(residue, st, [i \in DOMAIN d |-> i])

(* Operation on the one or two operands `ops`, each a sequence of as many residues as d *)
(* has: all sources are looked up before anything is stored, so d may overlap them.     *)
compute(st, d, ops, base, ring_dim) ==
  LET left == build_mrp(st, ops[1], ring_dim)
      built == IF Len(ops) = 1 THEN left ELSE build_mrp(left, ops[2], ring_dim)
      val(a) == built.poly_map[a].val
  IN IF built.err # "Ok" THEN built
     ELSE store_mrp(built, d, [i \in DOMAIN d |-> Eval([k \in DOMAIN ops |-> val(ops[k][i])])], base)

(* Binding a modulus to the node that s is bound to. *)
bind_modulus(st, s, q) ==
  IF q = CopyModulus THEN st ELSE [st EXCEPT !.poly_map[s].mod = q]

(* hazeAutomorph: the modulus is the one recorded for the source, if any. *)
automorph(st, d, s, ring_dim) ==
  LET found == lookup_or_create(st, <<s>>, ring_dim)
      q == recorded_modulus(found, s)
  IN IF found.err # "Ok" THEN found
     ELSE store_compute_result(bind_modulus(found, s, q),
                               one(d, [val |-> Eval(<<found.poly_map[s].val>>), mod |-> q]))

(* One pass-through copy under modulus m, or under the source's when m is the sentinel. *)
copy_result(st, d, s, m, ring_dim) ==
  LET found == lookup_or_create(st, <<s>>, ring_dim)
      q == IF m = CopyModulus THEN recorded_modulus(found, s) ELSE m
      bound == IF q = CopyModulus THEN found
               ELSE [bind_modulus(found, s, q) EXCEPT !.addr_modulus = T!Put(@, one(s, q))]
  IN IF found.err # "Ok" THEN found
     ELSE store_compute_result(bound, one(d, [val |-> found.poly_map[s].val, mod |-> q]))

(* The session after each of the copies, which are made in order, so that one sees the  *)
(* ones before it.                                                                      *)
copies(st, d, s, base, ring_dim) ==
  LET after[i \in 0..Len(d)] ==
        IF i = 0 THEN st ELSE copy_result(after[i - 1], d[i], s[i], base[i], ring_dim)
  IN after

(* The copies, then the group they form. *)
copy_mrp(st, d, s, base, ring_dim) ==
  LET copied == copies(st, d, s, base, ring_dim)[Len(d)]
  IN IF copied.err # "Ok" \/ Len(d) = 1 THEN copied
     ELSE [copied EXCEPT !.reg = Groups!register_mrp_output_group(@, d, base)]

-----------------------------------------------------------------------------
(* Uploads, tags, invalidation. *)

TagKeepingBinding(st, s, ring_dim) ==   \* mutation: an address bound before stays as it was
  LET new == T!Range(s) \ DOMAIN st.poly_map
  IN IF st.err # "Ok" THEN st
     ELSE [st EXCEPT
             !.poly_map = T!Put(@, [a \in new |-> [val |-> st.shadow_data[a], mod |-> CopyModulus]]),
             !.input_addrs = @ \cup new]

(* The bytes just written to the shadows of s become their bindings, inputs, in order   *)
(* up to the first that fails; the shadows stay, and so do the groups and the recorded  *)
(* moduli.                                                                              *)
tag_h2d_input(st, s, ring_dim) ==
  LET failing == {i \in DOMAIN s : Len(st.shadow_data[s[i]]) # ring_dim}
      tagged == {s[i] : i \in {j \in DOMAIN s : \A k \in failing : j < k}}
  IN IF st.err # "Ok" THEN st
     ELSE IF ring_dim = 0 THEN [st EXCEPT !.err = "NotConfigured"]
     ELSE [st EXCEPT
             !.poly_map = T!Put(@, [a \in tagged |-> [val |-> st.shadow_data[a], mod |-> CopyModulus]]),
             !.reg = Groups!untag(@, tagged),
             !.input_addrs = @ \cup tagged,
             !.err = IF failing = {} THEN "Ok" ELSE "ShadowSizeMismatch"]

tag_output(st, a) ==
  IF a \in DOMAIN st.poly_map THEN [st EXCEPT !.reg = Groups!tag_output(@, a)]
  ELSE [st EXCEPT !.err = "SourceUnavailable"]

InvalidateKeepingBinding(st, S) == [st EXCEPT !.reg = Groups!invalidate(@, S)]   \* mutation

InvalidateKeepingModulus(st, S) ==   \* mutation
  [st EXCEPT !.poly_map = T!Drop(@, S), !.reg = Groups!invalidate(@, S),
             !.input_addrs = @ \ S, !.mrp_in.names = T!Drop(@, S)]

InvalidateKeepingGroups(st, S) ==   \* mutation
  [st EXCEPT !.poly_map = T!Drop(@, S), !.addr_modulus = T!Drop(@, S), !.input_addrs = @ \ S]

(* The addresses of S are invalidated, one after the other. *)
invalidate(st, S) ==
  [st EXCEPT !.poly_map = T!Drop(@, S),
             !.reg = Groups!invalidate(@, S),
             !.addr_modulus = T!Drop(@, S),
             !.input_addrs = @ \ S,
             !.mrp_in.names = T!Drop(@, S)]

clear_state(st) ==
  [st EXCEPT !.poly_map = T!Empty, !.reg = Groups!NewRegistry, !.input_addrs = {},
             !.addr_modulus = T!Empty, !.mrp_in = NoMrpInputs]

-----------------------------------------------------------------------------
(* Finalising.  The compiler decides how far it gets: `fault` is the step that fails,  *)
(* or "none".                                                                          *)

Pending == DOMAIN reg.pending_outputs
NothingPending == Pending = {} /\ reg.pending_mrp_groups = {}

(* Replay keys results by output name: what `a` reads back is what its name was tagged on. *)
ResultAt(a) ==
  poly_map[CHOOSE b \in Pending : reg.pending_outputs[b] = reg.pending_outputs[a]].val

Resized(v) == [i \in 1..poly_bytes |-> IF i <= Len(v) THEN v[i] ELSE 0]

(* Outputs are populated one by one, in the order of a hash map; `done` is how many of  *)
(* them were when the call ended.  A dead address ends it, as does a missing result.    *)
PopulateError(done, fault) ==
  IF done = Pending THEN "Ok"
  ELSE IF fault = "result" THEN "BackendOutputMissing" ELSE "UnknownAddress"

(* tag_pending_outputs_locked finds a binding for all it is to tag. *)
Resolvable ==
  /\ Pending \subseteq DOMAIN poly_map
  /\ \A g \in reg.pending_mrp_groups : /\ g \in DOMAIN reg.known_mrp_groups
                                       /\ Groups!Members(reg, g) \subseteq DOMAIN poly_map

populated(st, done) ==
  [st EXCEPT !.shadow_data = T!Put(@, [a \in done |-> Resized(ResultAt(a))])]

(* finalize_locked.  An epoch that is over also ends the recording. *)
ended(st, e) == Become([clear_state(st) EXCEPT !.err = e]) /\ recording' = FALSE
kept(e) == Become([Here EXCEPT !.err = e]) /\ UNCHANGED recording

finalize(run_replay, fault, done) ==
  \/ /\ fault = "none" /\ done = {}
     /\ \/ ~recording /\ kept("Ok")
        \/ recording /\ NothingPending /\ ended(Here, "Ok")
        \/ recording /\ ~NothingPending /\ ~Resolvable /\ kept("MissingPolyMapBinding")
  \/ /\ recording /\ ~NothingPending /\ Resolvable
     /\ \/ done = {} /\ fault = "stop" /\ ended(Here, "BackendReplayFailed")
        \/ done = {} /\ fault = "hook" /\ ended(Here, "BridgeHookFailed")
        \/ done = {} /\ fault = "none" /\ ~run_replay /\ ended(Here, "Ok")
        \/ done = {} /\ fault = "replay" /\ run_replay /\ ended(Here, "BackendReplayFailed")
        \/ /\ run_replay /\ fault \in {"none", "result"}
           /\ done \subseteq Pending \cap alloc_set
           /\ IF fault = "result" THEN done # Pending
              ELSE done = Pending \/ ~(Pending \subseteq alloc_set)
           /\ ended(populated(Here, done), PopulateError(done, fault))
=============================================================================
