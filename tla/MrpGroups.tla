----------------------------- MODULE MrpGroups -----------------------------
(***************************************************************************)
(* The output bookkeeping of EpochState (src/src/core/epoch.cpp): which    *)
(* addresses are tagged as outputs under which name, which addresses form  *)
(* a multi-residue (MRP) group, and which groups are exported.             *)
(*                                                                         *)
(* `reg` is the part of EpochState these methods own; the operators below  *)
(* are its methods as functions from one such record to the next, so that  *)
(* a caller can compose the methods one critical section runs.  `bound` is *)
(* DOMAIN poly_map_.  The names "haze_out_N" and "haze_mrp_out_N" are N.   *)
(***************************************************************************)
EXTENDS Integers, Tables

CONSTANTS
  Addrs,       \* device addresses
  Bases,       \* moduli sequences of the groups that get stored
  MaxOutputs,  \* bound on output_counter_
  MaxGroups    \* bound on mrp_out_name_counter_

ASSUME BasesAssumption == \A m \in Bases : m \in Seq(Range(m)) /\ Len(m) > 1

VARIABLES reg, bound

vars == <<reg, bound>>

NewRegistry ==
  [known_mrp_groups     |-> Empty,   \* name -> its addrs and moduli
   pending_mrp_groups   |-> {},      \* names of the tagged groups
   addr_to_mrp_groups   |-> Empty,   \* address -> names of the groups it is in
   mrp_out_names        |-> Empty,   \* leading address -> name
   mrp_out_name_counter |-> 0,
   pending_outputs      |-> Empty,   \* tagged address -> output name
   output_counter       |-> 0]

Init == reg = NewRegistry /\ bound = {}

-----------------------------------------------------------------------------
Members(r, g) == Range(r.known_mrp_groups[g].addrs)
Claims(r, a) == IF a \in DOMAIN r.addr_to_mrp_groups THEN r.addr_to_mrp_groups[a] ELSE {}

ScrubNothing(r, G) == r.addr_to_mrp_groups   \* mutation

(* The reverse index without the entries of G's own members; empty entries are erased. *)
Scrub(r, G) ==
  LET left(a) == Claims(r, a) \ {g \in G \cap DOMAIN r.known_mrp_groups : a \in Members(r, g)}
  IN [a \in {b \in DOMAIN r.addr_to_mrp_groups : left(b) # {}} |-> left(a)]

EvictWithOutputTags(r, G) ==   \* mutation: the residues lose their own tags
  [r EXCEPT !.addr_to_mrp_groups = Scrub(r, G),
            !.known_mrp_groups = Drop(@, G),
            !.pending_mrp_groups = @ \ G,
            !.pending_outputs =
              Drop(@, UNION {Members(r, g) : g \in G \cap DOMAIN r.known_mrp_groups})]

(* The groups in G go, their members stay bound and keep their own output tags. *)
evict_mrp_groups(r, G) ==
  [r EXCEPT !.addr_to_mrp_groups = Scrub(r, G),
            !.known_mrp_groups = Drop(@, G),
            !.pending_mrp_groups = @ \ G]

InvalidateKeepingGroups(r, S) ==   \* mutation
  [r EXCEPT !.pending_outputs = Drop(@, S), !.mrp_out_names = Drop(@, S)]

(* Every group that names one of S is dropped, and with it all that is known about S. *)
invalidate(r, S) ==
  LET e == evict_mrp_groups(r, UNION {Claims(r, a) : a \in S})
  IN [e EXCEPT !.addr_to_mrp_groups = Drop(@, S),
               !.pending_outputs = Drop(@, S),
               !.mrp_out_names = Drop(@, S)]

NameOutputsAlike(r, s) ==   \* mutation: the counter stands still
  [r EXCEPT !.pending_outputs =
     Put(@, [a \in Range(s) \ DOMAIN r.pending_outputs |-> r.output_counter])]

(* An output name for every address of s that has none, in order. *)
name_outputs(r, s) ==
  LET new == Range(s) \ DOMAIN r.pending_outputs
  IN [r EXCEPT !.pending_outputs = Put(@, [a \in new |-> r.output_counter + Rank(s, new, a)]),
               !.output_counter = @ + Cardinality(new)]

(* A member of a known group tags the group and all its members.  The code asserts    *)
(* that the reverse index holds one name here and, were there more, would tag each.   *)
tag_output(r, a) ==
  LET live == Claims(r, a) \cap DOMAIN r.known_mrp_groups
      g == CHOOSE x \in live : TRUE
  IN IF Claims(r, a) = {} THEN name_outputs(r, <<a>>)
     ELSE IF live = {} THEN r
     ELSE [name_outputs(r, r.known_mrp_groups[g].addrs)
             EXCEPT !.pending_mrp_groups = @ \cup {g}]

NamedByAddress(r, lead) == lead   \* mutation

(* mrp_group_name_locked for outputs: one name per leading address and epoch. *)
group_name(r, lead) ==
  IF lead \in DOMAIN r.mrp_out_names THEN r.mrp_out_names[lead] ELSE r.mrp_out_name_counter

with_group_name(r, lead) ==
  IF lead \in DOMAIN r.mrp_out_names THEN r
  ELSE [r EXCEPT !.mrp_out_names = Put(@, [x \in {lead} |-> r.mrp_out_name_counter]),
                 !.mrp_out_name_counter = @ + 1]

IdenticalMembers(r, name, s, m) ==   \* mutation: the moduli are not compared
  name \in DOMAIN r.known_mrp_groups /\ r.known_mrp_groups[name].addrs = s

(* Is this the registration that `name` already has? *)
identical(r, name, s, m) ==
  /\ name \in DOMAIN r.known_mrp_groups
  /\ r.known_mrp_groups[name] = [addrs |-> s, moduli |-> m]

NoConflicts(r, name, s) == {}                                     \* mutation
AllClaims(r, name, s) == UNION {Claims(r, a) : a \in Range(s)}   \* mutation

(* Groups of another name that claim an address of s. *)
Conflicting(r, name, s) == (UNION {Claims(r, a) : a \in Range(s)}) \ {name}

(* Latest write wins: groups of another name that claim one of s are evicted, the old  *)
(* members of `name` are released, and the new ones are claimed.                       *)
replace_group(r, name, s, m) ==
  LET evicted == evict_mrp_groups(r, Conflicting(r, name, s))
      released == Scrub(evicted, {name})
      claims(a) == (IF a \in DOMAIN released THEN released[a] ELSE {})
                     \cup (IF a \in Range(s) THEN {name} ELSE {})
  IN [evicted EXCEPT
        !.known_mrp_groups = Put(@, [g \in {name} |-> [addrs |-> s, moduli |-> m]]),
        !.addr_to_mrp_groups = [a \in DOMAIN released \cup Range(s) |-> claims(a)]]

RegisterLeavingTags(r, s, m) ==   \* mutation: members gained by a tagged group stay untagged
  LET named == with_group_name(r, s[1])
      name == group_name(r, s[1])
  IN IF identical(named, name, s, m) THEN named ELSE replace_group(named, name, s, m)

(* The tail of store_mrp_locked: name the group after its leading address, register   *)
(* it, and let an already tagged group tag the members it gains.                      *)
register_mrp_output_group(r, s, m) ==
  LET named == with_group_name(r, s[1])
      name == group_name(r, s[1])
      replaced == replace_group(named, name, s, m)
  IN IF identical(named, name, s, m) THEN named
     ELSE IF name \in replaced.pending_mrp_groups THEN name_outputs(replaced, s)
     ELSE replaced

(* H2D takes the output tags of the addresses; their groups, tagged or not, keep them. *)
untag(r, S) == [r EXCEPT !.pending_outputs = Drop(@, S)]

-----------------------------------------------------------------------------
(* One critical section each. *)

(* A single-residue result, or a source promoted to an input. *)
Bind(a) == bound' = bound \cup {a} /\ UNCHANGED reg

StoreGroup(s, m) ==
  /\ reg' = register_mrp_output_group(reg, s, m)
  /\ bound' = bound \cup Range(s)

UploadInput(a) ==
  /\ reg' = untag(reg, {a})
  /\ bound' = bound \cup {a}

(* Tagging an address that names no recorded value fails and changes nothing. *)
TagOutput(a) ==
  /\ a \in bound
  /\ reg' = tag_output(reg, a)
  /\ UNCHANGED bound

Invalidate(a) ==
  /\ reg' = invalidate(reg, {a})
  /\ bound' = bound \ {a}

Clear == reg' = NewRegistry /\ bound' = {}

Distinct(m) == {s \in [DOMAIN m -> Addrs] : IsInjective(s)}

WithinBounds == /\ reg'.output_counter <= MaxOutputs
                /\ reg'.mrp_out_name_counter <= MaxGroups

Next ==
  \/ \E a \in Addrs : Bind(a) \/ UploadInput(a) \/ Invalidate(a)
  \/ \E m \in Bases : \E s \in Distinct(m) : StoreGroup(s, m) /\ WithinBounds
  \/ \E a \in Addrs : TagOutput(a) /\ WithinBounds
  \/ Clear

Spec == Init /\ [][Next]_vars

-----------------------------------------------------------------------------
(* Properties. *)

Names == DOMAIN reg.known_mrp_groups

GroupType == [addrs : Seq(Addrs), moduli : Bases]

(* Types of the fields of epoch.hpp:175-217 that are modelled here.                   *)
TypeOK ==
  /\ bound \in SUBSET Addrs
  /\ reg.known_mrp_groups \in [Names -> GroupType]
  /\ Names \subseteq Nat
  /\ DOMAIN reg.addr_to_mrp_groups \subseteq Addrs
  /\ reg.addr_to_mrp_groups \in [DOMAIN reg.addr_to_mrp_groups -> SUBSET Nat]
  /\ DOMAIN reg.mrp_out_names \subseteq Addrs
  /\ reg.mrp_out_names \in [DOMAIN reg.mrp_out_names -> Nat]
  /\ DOMAIN reg.pending_outputs \subseteq Addrs
  /\ reg.pending_outputs \in [DOMAIN reg.pending_outputs -> Nat]
  /\ reg.mrp_out_name_counter \in Nat /\ reg.output_counter \in Nat

(* addr_to_mrp_groups_ is the exact inverse of known_mrp_groups_, without empty        *)
(* entries, so that invalidate finds every group that names the address.               *)
Lockstep ==
  /\ \A g \in Names, a \in Addrs : a \in Members(reg, g) <=> g \in Claims(reg, a)
  /\ \A a \in DOMAIN reg.addr_to_mrp_groups :
       reg.addr_to_mrp_groups[a] # {} /\ reg.addr_to_mrp_groups[a] \subseteq Names

(* An address is in at most one group: what the assertion in tag_output_locked and    *)
(* its whole-group promotion rely on.                                                 *)
OneGroupPerAddr == \A a \in Addrs : \A g, h \in Claims(reg, a) : g = h

(* Flush can resolve everything it is about to tag: the MissingPolyMapBinding         *)
(* branches of tag_pending_outputs_locked are unreachable.                            *)
FlushResolves ==
  /\ DOMAIN reg.pending_outputs \subseteq bound
  /\ reg.pending_mrp_groups \subseteq Names
  /\ \A g \in Names : Members(reg, g) \subseteq bound

(* Two outputs of one epoch never share a name, or the probe of one would be read     *)
(* back as the value of the other, and a name not yet given out is free.              *)
OutputNamesUnique ==
  /\ IsInjective(reg.pending_outputs)
  /\ \A a \in DOMAIN reg.pending_outputs : reg.pending_outputs[a] < reg.output_counter

(* A multi-residue store would leave every address it writes in exactly one group,    *)
(* with the members and moduli of this write, whatever was registered before: also    *)
(* when it differs from the registered group in its moduli only (epoch.cpp:253-310).  *)
LatestWriteWins ==
  \A m \in Bases : \A s \in Distinct(m) :
    LET stored == register_mrp_output_group(reg, s, m)
    IN \A a \in Range(s) : \E g \in DOMAIN stored.known_mrp_groups :
         /\ Claims(stored, a) = {g}
         /\ stored.known_mrp_groups[g] = [addrs |-> s, moduli |-> m]

(* The tag of an address and its name outlive everything but a new upload to it, its  *)
(* invalidation and the end of the epoch: eviction of a group leaves its residues     *)
(* individually materialised (haze.h:139-141).                                        *)
OutputTagsKept ==
  [][\A a \in DOMAIN reg.pending_outputs :
       \/ a \in DOMAIN reg'.pending_outputs /\ reg'.pending_outputs[a] = reg.pending_outputs[a]
       \/ a \notin bound'
       \/ UploadInput(a)]_vars

(* A tagged group stops being exported only because a member was invalidated (or the  *)
(* epoch ended) or because another group now claims one of its members.               *)
ExportKept ==
  [][\A g \in reg.pending_mrp_groups \ reg'.pending_mrp_groups :
       \E a \in Members(reg, g) : a \notin bound' \/ Claims(reg', a) \ {g} # {}]_vars
=============================================================================
