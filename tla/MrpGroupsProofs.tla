-------------------------- MODULE MrpGroupsProofs --------------------------
(***************************************************************************)
(* The output bookkeeping for any number of addresses, groups and tags.    *)
(* All of it rests on one fact about eviction: because the reverse index   *)
(* is exact (Index), the groups that claim an address can be found and     *)
(* removed through it, so that a new group meets none at its members.      *)
(***************************************************************************)
EXTENDS MrpGroups, FiniteSetTheorems, TLAPS

Fields == {"known_mrp_groups", "pending_mrp_groups", "addr_to_mrp_groups", "mrp_out_names",
           "mrp_out_name_counter", "pending_outputs", "output_counter"}

GroupNames(r) == DOMAIN r.known_mrp_groups

(* A registry has its fields, and every group is of addresses named once. *)
Known(r) ==
  /\ DOMAIN r = Fields
  /\ r.known_mrp_groups \in [GroupNames(r) -> GroupType] /\ GroupNames(r) \subseteq Nat
  /\ \A g \in GroupNames(r) : IsInjective(r.known_mrp_groups[g].addrs) /\ Members(r, g) # {}

(* The reverse index is the inverse of the groups, which do not overlap. *)
Index(r) ==
  /\ DOMAIN r.addr_to_mrp_groups \subseteq Addrs
  /\ r.addr_to_mrp_groups \in [DOMAIN r.addr_to_mrp_groups -> SUBSET Nat]
  /\ \A a \in DOMAIN r.addr_to_mrp_groups :
       r.addr_to_mrp_groups[a] # {} /\ r.addr_to_mrp_groups[a] \subseteq GroupNames(r)
  /\ \A g \in GroupNames(r), a \in Addrs : a \in Members(r, g) <=> g \in Claims(r, a)
  /\ \A a \in Addrs : \A g, h \in Claims(r, a) : g = h

LEMMA ClaimsKnown ==
  ASSUME NEW r, Index(r), NEW a
  PROVE  Claims(r, a) \subseteq GroupNames(r)
  BY DEF Index, Claims

LEMMA MembersAreAddrs ==
  ASSUME NEW r, Known(r), NEW g \in GroupNames(r)
  PROVE  Members(r, g) \subseteq Addrs
  BY DEF Known, Members, Range, GroupType

(* Scrubbing an exact index takes the names away wherever they are. *)
LEMMA ScrubStep ==
  ASSUME NEW r, Known(r), Index(r), NEW G
  PROVE  /\ DOMAIN Scrub(r, G) = {a \in DOMAIN r.addr_to_mrp_groups : Claims(r, a) \ G # {}}
         /\ \A a \in DOMAIN Scrub(r, G) : Scrub(r, G)[a] = Claims(r, a) \ G
  <1> DEFINE left(a) == Claims(r, a) \ {g \in G \cap DOMAIN r.known_mrp_groups : a \in Members(r, g)}
  <1>1. ASSUME NEW a \in DOMAIN r.addr_to_mrp_groups PROVE left(a) = Claims(r, a) \ G
    <2>1. a \in Addrs /\ Claims(r, a) \subseteq GroupNames(r)
      BY ClaimsKnown DEF Index
    <2>2. \A g \in Claims(r, a) : a \in Members(r, g)
      BY <2>1 DEF Index
    <2>3. QED BY <2>1, <2>2 DEF GroupNames
  <1>2. Scrub(r, G) = [a \in {b \in DOMAIN r.addr_to_mrp_groups : left(b) # {}} |-> left(a)]
    BY DEF Scrub
  <1> HIDE DEF left
  <1>3. QED BY <1>1, <1>2

LEMMA EvictStep ==
  ASSUME NEW r, Known(r), Index(r), NEW G, NEW e, e = evict_mrp_groups(r, G)
  PROVE  /\ Known(e) /\ Index(e)
         /\ GroupNames(e) = GroupNames(r) \ G
         /\ \A g \in GroupNames(e) : e.known_mrp_groups[g] = r.known_mrp_groups[g]
         /\ \A a \in Addrs : Claims(e, a) = Claims(r, a) \ G
         /\ e.pending_mrp_groups = r.pending_mrp_groups \ G
         /\ e.mrp_out_names = r.mrp_out_names /\ e.mrp_out_name_counter = r.mrp_out_name_counter
         /\ e.pending_outputs = r.pending_outputs /\ e.output_counter = r.output_counter
  <1>0. /\ DOMAIN Scrub(r, G) = {a \in DOMAIN r.addr_to_mrp_groups : Claims(r, a) \ G # {}}
        /\ \A a \in DOMAIN Scrub(r, G) : Scrub(r, G)[a] = Claims(r, a) \ G
    BY ScrubStep
  <1>1. /\ DOMAIN e = Fields
        /\ e.addr_to_mrp_groups = Scrub(r, G)
        /\ e.known_mrp_groups = Drop(r.known_mrp_groups, G)
        /\ e.pending_mrp_groups = r.pending_mrp_groups \ G
        /\ e.mrp_out_names = r.mrp_out_names /\ e.mrp_out_name_counter = r.mrp_out_name_counter
        /\ e.pending_outputs = r.pending_outputs /\ e.output_counter = r.output_counter
    BY DEF evict_mrp_groups, Known, Fields
  <1>2. /\ GroupNames(e) = GroupNames(r) \ G
        /\ \A g \in GroupNames(e) : e.known_mrp_groups[g] = r.known_mrp_groups[g]
        /\ e.known_mrp_groups \in [GroupNames(e) -> GroupType]
    BY <1>1 DEF Drop, Restrict, GroupNames, Known
  <1>3. Known(e)
    BY <1>1, <1>2 DEF Known, Members
  <1>4. \A a \in Addrs : Claims(e, a) = Claims(r, a) \ G
    <2>1. ASSUME NEW a \in Addrs, a \in DOMAIN Scrub(r, G) PROVE Claims(e, a) = Claims(r, a) \ G
      BY <1>1, <2>1, <1>0 DEF Claims
    <2>2. ASSUME NEW a \in Addrs, a \notin DOMAIN Scrub(r, G) PROVE Claims(e, a) = Claims(r, a) \ G
      <3>1. Claims(e, a) = {}
        BY <1>1, <2>2 DEF Claims
      <3>2. a \notin DOMAIN r.addr_to_mrp_groups \/ Claims(r, a) \ G = {}
        BY <2>2, <1>0
      <3>3. QED BY <3>1, <3>2 DEF Claims
    <2>3. QED BY <2>1, <2>2
  <1>5. \A g \in GroupNames(e) : Members(e, g) = Members(r, g)
    BY <1>2 DEF Members
  <1>6. Index(e)
    <2>1. \A a \in Addrs : Claims(r, a) \subseteq GroupNames(r)
      BY ClaimsKnown
    <2>2. /\ DOMAIN e.addr_to_mrp_groups \subseteq Addrs
          /\ \A a \in DOMAIN e.addr_to_mrp_groups :
               /\ e.addr_to_mrp_groups[a] # {}
               /\ e.addr_to_mrp_groups[a] = Claims(r, a) \ G
      <3>1. DOMAIN e.addr_to_mrp_groups = {a \in DOMAIN r.addr_to_mrp_groups : Claims(r, a) \ G # {}}
        BY <1>1, <1>0
      <3>2. \A a \in DOMAIN e.addr_to_mrp_groups : e.addr_to_mrp_groups[a] = Claims(r, a) \ G
        BY <1>1, <1>0
      <3>3. QED BY <3>1, <3>2 DEF Index
    <2>3. \A a \in DOMAIN e.addr_to_mrp_groups :
            e.addr_to_mrp_groups[a] \subseteq GroupNames(e) /\ e.addr_to_mrp_groups[a] \subseteq Nat
      BY <1>2, <1>3, <2>1, <2>2 DEF Known
    <2>4. e.addr_to_mrp_groups \in [DOMAIN e.addr_to_mrp_groups -> SUBSET Nat]
      BY <1>1, <2>3 DEF Scrub
    <2>5. \A g \in GroupNames(e), a \in Addrs : a \in Members(e, g) <=> g \in Claims(e, a)
      BY <1>2, <1>4, <1>5 DEF Index
    <2>6. \A a \in Addrs : \A g, h \in Claims(e, a) : g = h
      BY <1>4 DEF Index
    <2>7. QED BY <2>2, <2>3, <2>4, <2>5, <2>6 DEF Index
  <1>7. QED BY <1>1, <1>2, <1>3, <1>4, <1>6

-----------------------------------------------------------------------------
(* Output names. *)

Outputs(r) ==
  /\ r.output_counter \in Nat
  /\ DOMAIN r.pending_outputs \subseteq Addrs
  /\ r.pending_outputs \in [DOMAIN r.pending_outputs -> Nat]
  /\ IsInjective(r.pending_outputs)
  /\ \A a \in DOMAIN r.pending_outputs : r.pending_outputs[a] < r.output_counter

(* Sequences of addresses that name none twice. *)
Residues(s) == s \in Seq(Addrs) /\ IsInjective(s)

LEMMA FirstAtStep ==
  ASSUME NEW s, Residues(s), NEW a \in Range(s)
  PROVE  FirstAt(s, a) \in Nat /\ s[FirstAt(s, a)] = a
  <1>1. PICK i \in DOMAIN s : s[i] = a
    BY DEF Range
  <1>2. DOMAIN s = 1..Len(s) /\ Len(s) \in Nat
    BY DEF Residues
  <1>3. i <= i
    BY <1>1, <1>2
  <1>4. \A j \in DOMAIN s : s[j] = a => i <= j
    BY <1>1, <1>3 DEF Residues, IsInjective
  <1>5. FirstAt(s, a) \in DOMAIN s /\ s[FirstAt(s, a)] = a
    BY <1>1, <1>4 DEF FirstAt
  <1>6. QED BY <1>2, <1>5

LEMMA ResiduesFinite ==
  ASSUME NEW s, Residues(s)
  PROVE  IsFiniteSet(Range(s))
  <1>1. DOMAIN s = 1..Len(s) /\ Len(s) \in Nat
    BY DEF Residues
  <1>2. IsFiniteSet(DOMAIN s)
    BY <1>1, FS_Interval
  <1>3. s \in [DOMAIN s -> Range(s)]
    BY <1>1 DEF Residues, Range
  <1>4. s \in Surjection(DOMAIN s, Range(s))
    BY <1>3 DEF Surjection, Range
  <1>5. QED BY <1>2, <1>4, FS_Surjection

(* Ranks number the members of S from 0 on, each differently. *)
LEMMA RankStep ==
  ASSUME NEW s, Residues(s), NEW S \in SUBSET Range(s)
  PROVE  /\ Cardinality(S) \in Nat
         /\ \A a \in S : Rank(s, S, a) \in Nat /\ Rank(s, S, a) < Cardinality(S)
         /\ \A a, b \in S : Rank(s, S, a) = Rank(s, S, b) => a = b
  <1> DEFINE Before(a) == {x \in S : FirstAt(s, x) < FirstAt(s, a)}
  <1>1. IsFiniteSet(S) /\ Cardinality(S) \in Nat
    BY ResiduesFinite, FS_Subset, FS_CardinalityType
  <1>2. \A a \in S : FirstAt(s, a) \in Nat /\ s[FirstAt(s, a)] = a
    BY FirstAtStep
  <1>3. ASSUME NEW a \in S
        PROVE  IsFiniteSet(Before(a)) /\ Cardinality(Before(a)) \in Nat
    BY <1>1, FS_Subset, FS_CardinalityType
  <1>4. ASSUME NEW a \in S
        PROVE  Cardinality(Before(a)) < Cardinality(S)
    <2>1. Before(a) \subseteq S \ {a}
      BY <1>2
    <2>2. IsFiniteSet(S \ {a}) /\ Cardinality(S \ {a}) = Cardinality(S) - 1
      BY <1>1, <1>4, FS_RemoveElement
    <2>3. Cardinality(Before(a)) <= Cardinality(S \ {a})
      BY <2>1, <2>2, FS_Subset
    <2>4. QED BY <1>1, <1>3, <1>4, <2>2, <2>3
  <1>5. ASSUME NEW a \in S, NEW b \in S, FirstAt(s, a) < FirstAt(s, b)
        PROVE  Cardinality(Before(a)) < Cardinality(Before(b))
    <2>1. Before(a) \cup {a} \subseteq Before(b) /\ a \notin Before(a)
      BY <1>2, <1>5
    <2> HIDE DEF Before
    <2>2. Cardinality(Before(a) \cup {a}) = Cardinality(Before(a)) + 1
      BY <1>3, <2>1, FS_AddElement
    <2>3. Cardinality(Before(a) \cup {a}) <= Cardinality(Before(b))
      BY <1>3, <2>1, FS_Subset
    <2>4. QED BY <1>3, <2>2, <2>3
  <1>6. \A a \in S : Rank(s, S, a) = Cardinality(Before(a))
    BY DEF Rank
  <1> HIDE DEF Before
  <1>7. ASSUME NEW a \in S, NEW b \in S, Cardinality(Before(a)) = Cardinality(Before(b))
        PROVE  a = b
    <2>1. FirstAt(s, a) = FirstAt(s, b)
      BY <1>2, <1>3, <1>5, <1>7
    <2>2. QED BY <1>2, <2>1
  <1>8. QED BY <1>1, <1>3, <1>4, <1>6, <1>7

(* Naming leaves the groups alone, names all of s, and changes no name. *)
LEMMA NameOutputsStep ==
  ASSUME NEW r, Known(r), Outputs(r), NEW s, Residues(s), NEW n, n = name_outputs(r, s)
  PROVE  /\ Outputs(n)
         /\ DOMAIN n = Fields
         /\ n.known_mrp_groups = r.known_mrp_groups
         /\ n.addr_to_mrp_groups = r.addr_to_mrp_groups
         /\ n.pending_mrp_groups = r.pending_mrp_groups
         /\ n.mrp_out_names = r.mrp_out_names /\ n.mrp_out_name_counter = r.mrp_out_name_counter
         /\ DOMAIN n.pending_outputs = DOMAIN r.pending_outputs \cup Range(s)
         /\ \A a \in DOMAIN r.pending_outputs : n.pending_outputs[a] = r.pending_outputs[a]
  <1> DEFINE new == Range(s) \ DOMAIN r.pending_outputs
             c == r.output_counter
             fresh == [a \in new |-> c + Rank(s, new, a)]
  <1>1. /\ DOMAIN n = Fields
        /\ n.known_mrp_groups = r.known_mrp_groups
        /\ n.addr_to_mrp_groups = r.addr_to_mrp_groups
        /\ n.pending_mrp_groups = r.pending_mrp_groups
        /\ n.mrp_out_names = r.mrp_out_names /\ n.mrp_out_name_counter = r.mrp_out_name_counter
        /\ n.pending_outputs = Put(r.pending_outputs, fresh)
        /\ n.output_counter = c + Cardinality(new)
    BY DEF name_outputs, Known, Fields
  <1>2. /\ Cardinality(new) \in Nat
        /\ \A a \in new : Rank(s, new, a) \in Nat /\ Rank(s, new, a) < Cardinality(new)
        /\ \A a, b \in new : Rank(s, new, a) = Rank(s, new, b) => a = b
    BY RankStep
  <1>3. c \in Nat
    BY DEF Outputs
  <1>4. /\ DOMAIN n.pending_outputs = DOMAIN r.pending_outputs \cup Range(s)
        /\ \A a \in new : n.pending_outputs[a] = c + Rank(s, new, a)
        /\ \A a \in DOMAIN r.pending_outputs : n.pending_outputs[a] = r.pending_outputs[a]
        /\ n.pending_outputs \in [DOMAIN n.pending_outputs -> Nat]
    <2>1. DOMAIN n.pending_outputs = DOMAIN r.pending_outputs \cup new
      BY <1>1 DEF Put
    <2>2. \A a \in new : n.pending_outputs[a] = c + Rank(s, new, a)
      BY <1>1 DEF Put
    <2>3. \A a \in DOMAIN r.pending_outputs : n.pending_outputs[a] = r.pending_outputs[a]
      BY <1>1 DEF Put
    <2>4. n.pending_outputs = [a \in DOMAIN n.pending_outputs |-> n.pending_outputs[a]]
      BY <1>1 DEF Put
    <2>5. \A a \in DOMAIN n.pending_outputs : n.pending_outputs[a] \in Nat
      <3>1. ASSUME NEW a \in new PROVE n.pending_outputs[a] \in Nat
        <4> HIDE DEF new, c
        <4>1. QED BY <1>2, <1>3, <2>2, <3>1
      <3>2. \A a \in DOMAIN r.pending_outputs : n.pending_outputs[a] \in Nat
        BY <2>3 DEF Outputs
      <3>3. QED BY <2>1, <3>1, <3>2
    <2>6. QED BY <2>1, <2>2, <2>3, <2>4, <2>5
  <1>5. \A a \in DOMAIN r.pending_outputs : r.pending_outputs[a] \in Nat /\ r.pending_outputs[a] < c
    BY DEF Outputs
  <1> HIDE DEF new, c
  <1>6. DOMAIN n.pending_outputs = DOMAIN r.pending_outputs \cup new
    BY <1>4 DEF new
  <1>7. IsInjective(n.pending_outputs)
    <2>1. ASSUME NEW a \in new, NEW b \in new, n.pending_outputs[a] = n.pending_outputs[b]
          PROVE  a = b
      BY <1>2, <1>3, <1>4, <2>1
    <2>2. ASSUME NEW a \in new, NEW b \in DOMAIN r.pending_outputs
          PROVE  n.pending_outputs[a] # n.pending_outputs[b]
      BY <1>2, <1>3, <1>4, <1>5
    <2>3. ASSUME NEW a \in DOMAIN r.pending_outputs, NEW b \in DOMAIN r.pending_outputs,
                 n.pending_outputs[a] = n.pending_outputs[b]
          PROVE  a = b
      BY <1>4, <2>3 DEF Outputs, IsInjective
    <2>4. QED BY <1>6, <2>1, <2>2, <2>3 DEF IsInjective
  <1>8. \A a \in DOMAIN n.pending_outputs : n.pending_outputs[a] < n.output_counter
    <2>1. ASSUME NEW a \in new PROVE n.pending_outputs[a] < n.output_counter
      BY <1>1, <1>2, <1>3, <1>4
    <2>2. ASSUME NEW a \in DOMAIN r.pending_outputs PROVE n.pending_outputs[a] < n.output_counter
      BY <1>1, <1>2, <1>3, <1>4, <1>5
    <2>3. QED BY <1>6, <2>1, <2>2
  <1>9. DOMAIN n.pending_outputs \subseteq Addrs /\ n.output_counter \in Nat
    <2>1. Range(s) \subseteq Addrs
      BY DEF Residues, Range
    <2>2. QED BY <1>1, <1>2, <1>3, <1>4, <2>1 DEF Outputs
  <1>10. QED BY <1>1, <1>4, <1>7, <1>8, <1>9 DEF Outputs

-----------------------------------------------------------------------------
(* Names of groups: one per leading address, and every group under its leader's. *)

Named(r) ==
  /\ r.mrp_out_name_counter \in Nat
  /\ DOMAIN r.mrp_out_names \subseteq Addrs
  /\ r.mrp_out_names \in [DOMAIN r.mrp_out_names -> Nat]
  /\ IsInjective(r.mrp_out_names)
  /\ \A a \in DOMAIN r.mrp_out_names : r.mrp_out_names[a] < r.mrp_out_name_counter

Lead(r, g) == r.known_mrp_groups[g].addrs[1]

Headed(r) ==
  \A g \in GroupNames(r) :
    Lead(r, g) \in DOMAIN r.mrp_out_names /\ r.mrp_out_names[Lead(r, g)] = g

Good(r) == Known(r) /\ Index(r) /\ Outputs(r) /\ Named(r) /\ Headed(r)

LEMMA LeadStep ==
  ASSUME NEW r, Known(r), NEW g \in GroupNames(r)
  PROVE  Lead(r, g) \in Members(r, g)
  <1>1. r.known_mrp_groups[g].addrs \in Seq(Addrs) /\ Members(r, g) # {}
    BY DEF Known, GroupType
  <1> DEFINE s == r.known_mrp_groups[g].addrs
  <1>2. PICK i \in DOMAIN s : TRUE
    BY <1>1 DEF Members, Range
  <1>3. DOMAIN s = 1..Len(s) /\ Len(s) \in Nat
    BY <1>1
  <1>4. 1 \in DOMAIN s
    BY <1>2, <1>3
  <1>5. QED BY <1>4 DEF Members, Range, Lead

(* A registry with the same groups and more names, if any, heads them as well. *)
LEMMA HeadedKept ==
  ASSUME NEW r, Headed(r), NEW q,
         \A g \in GroupNames(q) : g \in GroupNames(r) /\ Lead(q, g) = Lead(r, g),
         \A g \in GroupNames(q) :
           /\ Lead(r, g) \in DOMAIN q.mrp_out_names
           /\ q.mrp_out_names[Lead(r, g)] = r.mrp_out_names[Lead(r, g)]
  PROVE  Headed(q)
  BY DEF Headed

-----------------------------------------------------------------------------
(* The methods. *)

(* What does not touch the groups and their index keeps what holds of them. *)
LEMMA SameGroups ==
  ASSUME NEW r, Known(r), Index(r), NEW q, DOMAIN q = Fields,
         q.known_mrp_groups = r.known_mrp_groups, q.addr_to_mrp_groups = r.addr_to_mrp_groups
  PROVE  /\ Known(q) /\ Index(q) /\ GroupNames(q) = GroupNames(r)
         /\ \A a : Claims(q, a) = Claims(r, a)
         /\ \A g : Members(q, g) = Members(r, g)
  <1>1. GroupNames(q) = GroupNames(r)
    BY DEF GroupNames
  <1>2. \A a : Claims(q, a) = Claims(r, a)
    BY DEF Claims
  <1>3. \A g : Members(q, g) = Members(r, g)
    BY DEF Members
  <1>4. QED BY <1>1, <1>2, <1>3 DEF Known, Index

(* The groups that claim an address of S. *)
ClaimsOf(r, S) == UNION {Claims(r, a) : a \in S}

(* Invalidated addresses are in no group, and no other group is touched. *)
LEMMA InvalidateStep ==
  ASSUME NEW r, Good(r), NEW S, S \subseteq Addrs, NEW q, q = invalidate(r, S)
  PROVE  /\ Good(q)
         /\ GroupNames(q) = GroupNames(r) \ ClaimsOf(r, S)
         /\ \A g \in GroupNames(q) : Members(q, g) = Members(r, g) /\ Members(q, g) \cap S = {}
         /\ \A a \in Addrs : Claims(q, a) = Claims(r, a) \ ClaimsOf(r, S)
         /\ q.pending_mrp_groups = r.pending_mrp_groups \ ClaimsOf(r, S)
         /\ q.pending_outputs = Drop(r.pending_outputs, S)
         /\ q.mrp_out_names = Drop(r.mrp_out_names, S)
         /\ q.mrp_out_name_counter = r.mrp_out_name_counter
  <1> DEFINE G == ClaimsOf(r, S)
             e == evict_mrp_groups(r, G)
  <1>1. /\ Known(e) /\ Index(e)
        /\ GroupNames(e) = GroupNames(r) \ G
        /\ \A g \in GroupNames(e) : e.known_mrp_groups[g] = r.known_mrp_groups[g]
        /\ \A a \in Addrs : Claims(e, a) = Claims(r, a) \ G
        /\ e.pending_mrp_groups = r.pending_mrp_groups \ G
        /\ e.mrp_out_names = r.mrp_out_names /\ e.mrp_out_name_counter = r.mrp_out_name_counter
        /\ e.pending_outputs = r.pending_outputs /\ e.output_counter = r.output_counter
    BY EvictStep DEF Good
  <1>2. q = [e EXCEPT !.addr_to_mrp_groups = Drop(@, S),
                      !.pending_outputs = Drop(@, S),
                      !.mrp_out_names = Drop(@, S)]
    BY DEF invalidate, ClaimsOf
  <1>3. \A a \in S : Claims(r, a) \subseteq G
    BY DEF ClaimsOf
  <1> HIDE DEF e, G
  <1>4. \A a \in S : Claims(e, a) = {}
    BY <1>1, <1>3
  <1>5. e.addr_to_mrp_groups = [x \in DOMAIN e.addr_to_mrp_groups |-> e.addr_to_mrp_groups[x]]
    BY <1>1 DEF Index
  <1>6. DOMAIN e.addr_to_mrp_groups \ S = DOMAIN e.addr_to_mrp_groups
    BY <1>1, <1>4 DEF Index, Claims
  <1>7. Drop(e.addr_to_mrp_groups, S) = e.addr_to_mrp_groups
    BY <1>5, <1>6, Zenon DEF Drop, Restrict
  <1>8. /\ DOMAIN q = Fields
        /\ q.known_mrp_groups = e.known_mrp_groups
        /\ q.addr_to_mrp_groups = e.addr_to_mrp_groups
        /\ q.pending_mrp_groups = e.pending_mrp_groups
        /\ q.pending_outputs = Drop(e.pending_outputs, S)
        /\ q.mrp_out_names = Drop(e.mrp_out_names, S)
        /\ q.mrp_out_name_counter = e.mrp_out_name_counter
        /\ q.output_counter = e.output_counter
    BY <1>1, <1>2, <1>7 DEF Known, Fields
  <1>9. /\ Known(q) /\ Index(q) /\ GroupNames(q) = GroupNames(e)
        /\ \A a : Claims(q, a) = Claims(e, a)
        /\ \A g : Members(q, g) = Members(e, g)
    BY <1>1, <1>8, SameGroups
  <1>10. \A g \in GroupNames(q) : Members(q, g) = Members(r, g) /\ Members(q, g) \cap S = {}
    <2>1. \A g \in GroupNames(e) : Members(e, g) = Members(r, g)
      BY <1>1 DEF Members
    <2>2. \A g \in GroupNames(e), a \in S : a \notin Members(e, g)
      BY <1>1, <1>4 DEF Index
    <2>3. QED BY <1>9, <2>1, <2>2
  <1>11. Outputs(q) /\ Named(q)
    <2>1. Outputs(r) /\ Named(r)
      BY DEF Good
    <2>2. Outputs(q)
      BY <1>1, <1>8, <2>1 DEF Outputs, Drop, Restrict, IsInjective
    <2>3. QED BY <1>1, <1>8, <2>1, <2>2 DEF Named, Drop, Restrict, IsInjective
  <1>12. Headed(q)
    <2>1. \A g \in GroupNames(q) : g \in GroupNames(r) /\ Lead(q, g) = Lead(r, g)
      BY <1>1, <1>8, <1>9 DEF Lead
    <2>2. \A g \in GroupNames(q) : Lead(r, g) \in Members(q, g)
      BY <1>9, <2>1, LeadStep
    <2>3. \A g \in GroupNames(q) : Lead(r, g) \in DOMAIN r.mrp_out_names \ S
      BY <1>10, <2>1, <2>2 DEF Good, Headed
    <2>4. q.mrp_out_names = Drop(r.mrp_out_names, S)
      BY <1>1, <1>8
    <2>5. \A g \in GroupNames(q) : /\ Lead(r, g) \in DOMAIN q.mrp_out_names
                                   /\ q.mrp_out_names[Lead(r, g)] = r.mrp_out_names[Lead(r, g)]
      BY <2>3, <2>4 DEF Drop, Restrict
    <2>6. QED BY <2>1, <2>5, HeadedKept DEF Good
  <1>13. QED BY <1>1, <1>8, <1>9, <1>10, <1>11, <1>12 DEF G, Good

(* The new group replaces all that claim one of its members, and no other. *)
LEMMA ReplaceStep ==
  ASSUME NEW r, Known(r), Index(r), NEW name \in Nat, NEW s, Residues(s), Range(s) # {},
         NEW m \in Bases, NEW q, q = replace_group(r, name, s, m)
  PROVE  /\ Known(q) /\ Index(q)
         /\ GroupNames(q) = (GroupNames(r) \ Conflicting(r, name, s)) \cup {name}
         /\ q.known_mrp_groups[name] = [addrs |-> s, moduli |-> m]
         /\ \A g \in GroupNames(q) \ {name} : q.known_mrp_groups[g] = r.known_mrp_groups[g]
         /\ \A a \in Range(s) : Claims(q, a) = {name}
         /\ q.pending_mrp_groups = r.pending_mrp_groups \ Conflicting(r, name, s)
         /\ q.mrp_out_names = r.mrp_out_names /\ q.mrp_out_name_counter = r.mrp_out_name_counter
         /\ q.pending_outputs = r.pending_outputs /\ q.output_counter = r.output_counter
  <1> DEFINE G == Conflicting(r, name, s)
             e == evict_mrp_groups(r, G)
             released == Scrub(e, {name})
             claims(a) == (IF a \in DOMAIN released THEN released[a] ELSE {})
                            \cup (IF a \in Range(s) THEN {name} ELSE {})
             new == [addrs |-> s, moduli |-> m]
  <1>1. /\ Known(e) /\ Index(e)
        /\ GroupNames(e) = GroupNames(r) \ G
        /\ \A g \in GroupNames(e) : e.known_mrp_groups[g] = r.known_mrp_groups[g]
        /\ \A a \in Addrs : Claims(e, a) = Claims(r, a) \ G
        /\ e.pending_mrp_groups = r.pending_mrp_groups \ G
        /\ e.mrp_out_names = r.mrp_out_names /\ e.mrp_out_name_counter = r.mrp_out_name_counter
        /\ e.pending_outputs = r.pending_outputs /\ e.output_counter = r.output_counter
    BY EvictStep
  <1>2. q = [e EXCEPT !.known_mrp_groups = Put(@, [g \in {name} |-> new]),
                      !.addr_to_mrp_groups = [a \in DOMAIN released \cup Range(s) |-> claims(a)]]
    BY DEF replace_group
  <1>3. /\ DOMAIN released = {a \in DOMAIN e.addr_to_mrp_groups : Claims(e, a) \ {name} # {}}
        /\ \A a \in DOMAIN released : released[a] = Claims(e, a) \ {name}
    <2>1. Known(e) /\ Index(e)
      BY <1>1
    <2> HIDE DEF e
    <2>2. QED BY <2>1, ScrubStep
  <1>4. Range(s) \subseteq Addrs
    BY DEF Residues, Range
  <1>5. \A a \in Range(s) : Claims(r, a) \ G \subseteq {name}
    <2> DEFINE claimants == UNION {Claims(r, a) : a \in Range(s)}
    <2>1. \A a \in Range(s) : Claims(r, a) \subseteq claimants
      OBVIOUS
    <2>2. G = claimants \ {name}
      BY DEF Conflicting
    <2> HIDE DEF claimants, G
    <2>3. QED BY <2>1, <2>2
  <1> HIDE DEF G, e, released
  <1>6. \A a \in Range(s) : Claims(e, a) \subseteq {name}
    BY <1>1, <1>4, <1>5
  <1>7. \A a \in Range(s) : claims(a) = {name}
    BY <1>3, <1>6
  <1>8. ASSUME NEW a, a \notin Range(s) PROVE claims(a) = Claims(e, a) \ {name}
    BY <1>3, <1>8 DEF Claims
  <1> HIDE DEF claims
  <1>9. /\ DOMAIN q = Fields
        /\ q.known_mrp_groups = Put(e.known_mrp_groups, [g \in {name} |-> new])
        /\ q.addr_to_mrp_groups = [a \in DOMAIN released \cup Range(s) |-> claims(a)]
        /\ q.pending_mrp_groups = e.pending_mrp_groups
        /\ q.pending_outputs = e.pending_outputs
        /\ q.mrp_out_names = e.mrp_out_names
        /\ q.mrp_out_name_counter = e.mrp_out_name_counter
        /\ q.output_counter = e.output_counter
    BY <1>1, <1>2 DEF Known, Fields
  <1>10. /\ GroupNames(q) = GroupNames(e) \cup {name}
         /\ q.known_mrp_groups[name] = new
         /\ \A g \in GroupNames(q) \ {name} : q.known_mrp_groups[g] = e.known_mrp_groups[g]
         /\ q.known_mrp_groups = [g \in GroupNames(q) |-> q.known_mrp_groups[g]]
    BY <1>9 DEF Put, GroupNames
  <1>11. Members(q, name) = Range(s) /\ \A g \in GroupNames(q) \ {name} : Members(q, g) = Members(e, g)
    BY <1>10 DEF Members
  <1>12. Known(q)
    <2>1. new \in GroupType /\ new.addrs = s
      BY DEF GroupType, Residues
    <2>2. GroupNames(q) \subseteq Nat /\ \A g \in GroupNames(q) : q.known_mrp_groups[g] \in GroupType
      BY <1>1, <1>10, <2>1 DEF Known
    <2>3. \A g \in GroupNames(q) : IsInjective(q.known_mrp_groups[g].addrs) /\ Members(q, g) # {}
      <3>1. IsInjective(s) /\ Members(q, name) # {}
        BY <1>11 DEF Residues
      <3>2. \A g \in GroupNames(q) \ {name} :
              /\ g \in GroupNames(e) /\ q.known_mrp_groups[g] = e.known_mrp_groups[g]
              /\ Members(q, g) = Members(e, g)
        BY <1>10, <1>11
      <3>3. \A g \in GroupNames(e) : IsInjective(e.known_mrp_groups[g].addrs) /\ Members(e, g) # {}
        BY <1>1 DEF Known
      <3>4. QED BY <1>10, <2>1, <3>1, <3>2, <3>3
    <2>4. QED BY <1>9, <1>10, <2>2, <2>3 DEF Known
  <1>13. \A a \in Addrs : Claims(q, a) = IF a \in Range(s) THEN {name} ELSE Claims(e, a) \ {name}
    <2>1. ASSUME NEW a \in Range(s) PROVE Claims(q, a) = {name}
      BY <1>7, <1>9 DEF Claims
    <2>2. ASSUME NEW a, a \notin Range(s), a \in DOMAIN released
          PROVE  Claims(q, a) = Claims(e, a) \ {name}
      BY <1>8, <1>9, <2>2 DEF Claims
    <2>3. ASSUME NEW a, a \notin Range(s), a \notin DOMAIN released
          PROVE  Claims(q, a) = Claims(e, a) \ {name}
      <3>1. Claims(q, a) = {}
        BY <1>9, <2>3 DEF Claims
      <3>2. Claims(e, a) \ {name} = {}
        BY <1>3, <2>3 DEF Claims
      <3>3. QED BY <3>1, <3>2
    <2>4. QED BY <2>1, <2>2, <2>3
  <1>14. Index(q)
    <2>1. \A a \in DOMAIN q.addr_to_mrp_groups : a \in Addrs /\ q.addr_to_mrp_groups[a] = Claims(q, a)
      BY <1>1, <1>3, <1>4, <1>9 DEF Index, Claims
    <2>2. ASSUME NEW a \in DOMAIN q.addr_to_mrp_groups
          PROVE  Claims(q, a) # {} /\ Claims(q, a) \subseteq GroupNames(q)
      <3>1. CASE a \in Range(s)
        BY <1>10, <1>13, <2>1, <3>1
      <3>2. CASE a \notin Range(s)
        <4>1. a \in DOMAIN released
          BY <1>9, <2>2, <3>2
        <4>2. Claims(e, a) \ {name} # {}
          BY <1>3, <4>1
        <4>3. Claims(e, a) \subseteq GroupNames(e)
          BY <1>1, ClaimsKnown
        <4>4. QED BY <1>10, <1>13, <2>1, <3>2, <4>2, <4>3
      <3>3. QED BY <3>1, <3>2
    <2>3. q.addr_to_mrp_groups \in [DOMAIN q.addr_to_mrp_groups -> SUBSET Nat]
      <3>1. \A a \in DOMAIN q.addr_to_mrp_groups : q.addr_to_mrp_groups[a] \in SUBSET Nat
        BY <1>12, <2>1, <2>2 DEF Known
      <3>2. q.addr_to_mrp_groups = [a \in DOMAIN q.addr_to_mrp_groups |-> q.addr_to_mrp_groups[a]]
        BY <1>9
      <3>3. QED BY <3>1, <3>2
    <2>4. ASSUME NEW g \in GroupNames(q), NEW a \in Addrs
          PROVE  a \in Members(q, g) <=> g \in Claims(q, a)
      <3>1. CASE g = name
        BY <1>11, <1>13, <3>1
      <3>2. CASE g # name
        <4>1. g \in GroupNames(e) /\ Members(q, g) = Members(e, g)
          BY <1>10, <1>11, <3>2
        <4>2. a \in Members(e, g) <=> g \in Claims(e, a)
          BY <1>1, <4>1 DEF Index
        <4>3. QED BY <1>6, <1>13, <3>2, <4>1, <4>2
      <3>3. QED BY <3>1, <3>2
    <2>5. \A a \in Addrs : \A g, h \in Claims(q, a) : g = h
      BY <1>1, <1>13 DEF Index
    <2>6. QED BY <2>1, <2>2, <2>3, <2>4, <2>5 DEF Index
  <1>15. QED BY <1>1, <1>4, <1>9, <1>10, <1>12, <1>13, <1>14 DEF G

LEMMA NameStep ==
  ASSUME NEW r, Good(r), NEW lead \in Addrs, NEW n, n = with_group_name(r, lead)
  PROVE  /\ Good(n) /\ group_name(r, lead) \in Nat
         /\ n.known_mrp_groups = r.known_mrp_groups
         /\ n.addr_to_mrp_groups = r.addr_to_mrp_groups
         /\ n.pending_mrp_groups = r.pending_mrp_groups
         /\ n.pending_outputs = r.pending_outputs
         /\ lead \in DOMAIN n.mrp_out_names /\ n.mrp_out_names[lead] = group_name(r, lead)
         /\ \A a \in DOMAIN r.mrp_out_names :
              a \in DOMAIN n.mrp_out_names /\ n.mrp_out_names[a] = r.mrp_out_names[a]
  <1>1. group_name(r, lead) \in Nat
    BY DEF Good, Named, group_name
  <1>2. CASE lead \in DOMAIN r.mrp_out_names
    BY <1>1, <1>2 DEF with_group_name, group_name
  <1>3. CASE lead \notin DOMAIN r.mrp_out_names
    <2> DEFINE given == [x \in {lead} |-> r.mrp_out_name_counter]
    <2>1. /\ DOMAIN n = Fields
          /\ n.known_mrp_groups = r.known_mrp_groups
          /\ n.addr_to_mrp_groups = r.addr_to_mrp_groups
          /\ n.pending_mrp_groups = r.pending_mrp_groups
          /\ n.pending_outputs = r.pending_outputs /\ n.output_counter = r.output_counter
          /\ n.mrp_out_names = Put(r.mrp_out_names, given)
          /\ n.mrp_out_name_counter = r.mrp_out_name_counter + 1
      BY <1>3 DEF with_group_name, Good, Known, Fields
    <2>2. Known(n) /\ Index(n)
      BY <2>1, SameGroups DEF Good
    <2>3. Outputs(n)
      BY <2>1 DEF Good, Outputs
    <2>4. /\ DOMAIN n.mrp_out_names = DOMAIN r.mrp_out_names \cup {lead}
          /\ n.mrp_out_names[lead] = r.mrp_out_name_counter
          /\ \A a \in DOMAIN r.mrp_out_names : n.mrp_out_names[a] = r.mrp_out_names[a]
          /\ n.mrp_out_names = [a \in DOMAIN n.mrp_out_names |-> n.mrp_out_names[a]]
      BY <1>3, <2>1 DEF Put
    <2>5. Named(n)
      <3>1. Named(r)
        BY DEF Good
      <3>2. n.mrp_out_names \in [DOMAIN n.mrp_out_names -> Nat]
        BY <2>4, <3>1 DEF Named
      <3>3. IsInjective(n.mrp_out_names)
        BY <2>4, <3>1 DEF Named, IsInjective
      <3>4. QED BY <2>1, <2>4, <3>1, <3>2, <3>3 DEF Named
    <2>6. Headed(n)
      <3>1. Headed(r)
        BY DEF Good
      <3>2. \A g \in GroupNames(n) : g \in GroupNames(r) /\ Lead(n, g) = Lead(r, g)
        BY <2>1 DEF GroupNames, Lead
      <3>3. \A g \in GroupNames(n) : Lead(r, g) \in DOMAIN r.mrp_out_names
        BY <3>1, <3>2 DEF Headed
      <3>4. QED BY <2>4, <3>1, <3>2, <3>3, HeadedKept
    <2>7. QED BY <1>1, <1>3, <2>1, <2>2, <2>3, <2>4, <2>5, <2>6 DEF Good, group_name
  <1>4. QED BY <1>2, <1>3

(* The addresses of a stored group. *)
LEMMA DistinctStep ==
  ASSUME NEW m \in Bases, NEW s \in Distinct(m)
  PROVE  Residues(s) /\ s[1] \in Range(s) /\ Range(s) \subseteq Addrs
  <1>1. m \in Seq(Range(m)) /\ Len(m) > 1
    BY BasesAssumption
  <1>2. DOMAIN m = 1..Len(m) /\ Len(m) \in Nat
    BY <1>1
  <1>3. s \in [1..Len(m) -> Addrs] /\ IsInjective(s)
    BY <1>2 DEF Distinct
  <1>4. s \in Seq(Addrs) /\ 1 \in DOMAIN s
    BY <1>1, <1>2, <1>3
  <1>5. QED BY <1>3, <1>4 DEF Residues, Range

(* A store leaves its addresses in its own group, takes the export only from groups it    *)
(* shares an address with, and takes no tag.                                             *)
Stored(r, s, m, q) ==
  /\ \A g \in GroupNames(q) :
       \/ Members(q, g) = Range(s)
       \/ g \in GroupNames(r) /\ Members(q, g) = Members(r, g)
  /\ \E g \in GroupNames(q) : /\ q.known_mrp_groups[g] = [addrs |-> s, moduli |-> m]
                              /\ \A a \in Range(s) : Claims(q, a) = {g}
  /\ q.pending_mrp_groups \subseteq GroupNames(q)
  /\ \A g \in r.pending_mrp_groups \ q.pending_mrp_groups :
       \E a \in Members(r, g) : Claims(q, a) \ {g} # {}
  /\ DOMAIN r.pending_outputs \subseteq DOMAIN q.pending_outputs
  /\ DOMAIN q.pending_outputs \subseteq DOMAIN r.pending_outputs \cup Range(s)
  /\ \A a \in DOMAIN r.pending_outputs : q.pending_outputs[a] = r.pending_outputs[a]

(* A store leaves the groups it shares no address with as they are and keeps the names;   *)
(* a group stored anew, under the name it has, stays exported, and so are its addresses.  *)
Restored(r, s, m, q) ==
  /\ \A g \in GroupNames(r) :
       Members(r, g) \cap Range(s) = {} =>
         g \in GroupNames(q) /\ q.known_mrp_groups[g] = r.known_mrp_groups[g]
  /\ \A g \in r.pending_mrp_groups :
       (Lead(r, g) = s[1] /\ r.known_mrp_groups[g] # [addrs |-> s, moduli |-> m]) =>
         g \in q.pending_mrp_groups /\ Range(s) \subseteq DOMAIN q.pending_outputs

LEMMA RegisterStep ==
  ASSUME NEW r, Good(r), r.pending_mrp_groups \subseteq GroupNames(r),
         NEW m \in Bases, NEW s \in Distinct(m), NEW q, q = register_mrp_output_group(r, s, m)
  PROVE  Good(q) /\ Stored(r, s, m, q) /\ Restored(r, s, m, q)
  <1> DEFINE named == with_group_name(r, s[1])
             name == group_name(r, s[1])
             replaced == replace_group(named, name, s, m)
             G == Conflicting(named, name, s)
  <1>1. Residues(s) /\ s[1] \in Addrs /\ Range(s) \subseteq Addrs /\ Range(s) # {}
    BY DistinctStep
  <1>2. /\ Good(named) /\ name \in Nat
        /\ named.known_mrp_groups = r.known_mrp_groups
        /\ named.addr_to_mrp_groups = r.addr_to_mrp_groups
        /\ named.pending_mrp_groups = r.pending_mrp_groups
        /\ named.pending_outputs = r.pending_outputs
        /\ s[1] \in DOMAIN named.mrp_out_names /\ named.mrp_out_names[s[1]] = name
    BY <1>1, NameStep
  <1>3. q = IF identical(named, name, s, m) THEN named
            ELSE IF name \in replaced.pending_mrp_groups THEN name_outputs(replaced, s)
            ELSE replaced
    BY DEF register_mrp_output_group
  <1> HIDE DEF named, name
  <1>4. /\ GroupNames(named) = GroupNames(r)
        /\ \A g : Members(named, g) = Members(r, g) /\ Lead(named, g) = Lead(r, g)
    BY <1>2 DEF GroupNames, Members, Lead
  <1>5. CASE identical(named, name, s, m)
    <2>1. name \in GroupNames(named) /\ named.known_mrp_groups[name] = [addrs |-> s, moduli |-> m]
      BY <1>5 DEF identical, GroupNames
    <2>2. Members(named, name) = Range(s)
      BY <2>1 DEF Members
    <2>3. \A a \in Range(s) : Claims(named, a) = {name}
      BY <1>1, <1>2, <2>1, <2>2 DEF Good, Index
    <2>4. Stored(r, s, m, q)
      BY <1>2, <1>3, <1>4, <1>5, <2>1, <2>3 DEF Stored
    <2>5. \A g \in GroupNames(r) : Lead(r, g) = s[1] => g = name
      BY <1>2, <1>4 DEF Good, Headed
    <2>6. Restored(r, s, m, q)
      BY <1>2, <1>3, <1>4, <1>5, <2>1, <2>5 DEF Restored, GroupNames
    <2>7. QED BY <1>2, <1>3, <1>5, <2>4, <2>6
  <1>6. CASE ~identical(named, name, s, m)
    <2>1. /\ Known(replaced) /\ Index(replaced)
          /\ GroupNames(replaced) = (GroupNames(named) \ G) \cup {name}
          /\ replaced.known_mrp_groups[name] = [addrs |-> s, moduli |-> m]
          /\ \A g \in GroupNames(replaced) \ {name} :
               replaced.known_mrp_groups[g] = named.known_mrp_groups[g]
          /\ \A a \in Range(s) : Claims(replaced, a) = {name}
          /\ replaced.pending_mrp_groups = named.pending_mrp_groups \ G
          /\ replaced.mrp_out_names = named.mrp_out_names
          /\ replaced.mrp_out_name_counter = named.mrp_out_name_counter
          /\ replaced.pending_outputs = named.pending_outputs
          /\ replaced.output_counter = named.output_counter
      BY <1>1, <1>2, ReplaceStep DEF Good
    <2>1a. name \notin G
      BY DEF Conflicting
    <2>1b. \A g \in G : g \in ClaimsOf(named, Range(s))
      BY DEF Conflicting, ClaimsOf
    <2>2. \A g \in G : \E a \in Range(s) : g \in Claims(named, a) /\ g # name
      BY DEF Conflicting
    <2> HIDE DEF replaced, G
    <2>3. Outputs(replaced) /\ Named(replaced) /\ Headed(replaced)
      <3>1. Outputs(replaced) /\ Named(replaced)
        BY <1>2, <2>1 DEF Good, Outputs, Named
      <3>2. ASSUME NEW g \in GroupNames(replaced), g # name
            PROVE  /\ Lead(replaced, g) \in DOMAIN replaced.mrp_out_names
                   /\ replaced.mrp_out_names[Lead(replaced, g)] = g
        BY <1>2, <2>1, <3>2 DEF Good, Headed, Lead
      <3>3. Lead(replaced, name) = s[1]
        BY <2>1 DEF Lead
      <3>4. QED BY <1>2, <2>1, <3>1, <3>2, <3>3 DEF Headed
    <2>4. /\ Good(q)
          /\ q.known_mrp_groups = replaced.known_mrp_groups
          /\ q.addr_to_mrp_groups = replaced.addr_to_mrp_groups
          /\ q.pending_mrp_groups = replaced.pending_mrp_groups
          /\ name \in replaced.pending_mrp_groups => Range(s) \subseteq DOMAIN q.pending_outputs
          /\ DOMAIN r.pending_outputs \subseteq DOMAIN q.pending_outputs
          /\ DOMAIN q.pending_outputs \subseteq DOMAIN r.pending_outputs \cup Range(s)
          /\ \A a \in DOMAIN r.pending_outputs : q.pending_outputs[a] = r.pending_outputs[a]
      <3>1. CASE name \in replaced.pending_mrp_groups
        <4>1. q = name_outputs(replaced, s)
          BY <1>3, <1>6, <3>1
        <4>2. /\ Outputs(q) /\ DOMAIN q = Fields
              /\ q.known_mrp_groups = replaced.known_mrp_groups
              /\ q.addr_to_mrp_groups = replaced.addr_to_mrp_groups
              /\ q.pending_mrp_groups = replaced.pending_mrp_groups
              /\ q.mrp_out_names = replaced.mrp_out_names
              /\ q.mrp_out_name_counter = replaced.mrp_out_name_counter
              /\ DOMAIN q.pending_outputs = DOMAIN replaced.pending_outputs \cup Range(s)
              /\ \A a \in DOMAIN replaced.pending_outputs :
                   q.pending_outputs[a] = replaced.pending_outputs[a]
          BY <1>1, <2>1, <2>3, <4>1, NameOutputsStep
        <4>3. Known(q) /\ Index(q)
          BY <2>1, <4>2, SameGroups
        <4>4. Named(q) /\ Headed(q)
          BY <2>3, <4>2 DEF Named, Headed, Lead, GroupNames
        <4>5. QED BY <1>2, <2>1, <4>2, <4>3, <4>4 DEF Good
      <3>2. CASE name \notin replaced.pending_mrp_groups
        BY <1>2, <1>3, <1>6, <2>1, <2>3, <3>2 DEF Good
      <3>3. QED BY <3>1, <3>2
    <2>5. /\ GroupNames(q) = (GroupNames(r) \ G) \cup {name}
          /\ q.known_mrp_groups[name] = [addrs |-> s, moduli |-> m]
          /\ \A g \in GroupNames(q) \ {name} : q.known_mrp_groups[g] = r.known_mrp_groups[g]
          /\ \A a \in Range(s) : Claims(q, a) = {name}
          /\ q.pending_mrp_groups = r.pending_mrp_groups \ G
      BY <1>2, <1>4, <2>1, <2>4 DEF GroupNames, Claims
    <2>6. \A g \in GroupNames(q) :
            \/ Members(q, g) = Range(s)
            \/ g \in GroupNames(r) /\ Members(q, g) = Members(r, g)
      BY <2>5 DEF Members
    <2>7. ASSUME NEW g \in r.pending_mrp_groups \ q.pending_mrp_groups
          PROVE  \E a \in Members(r, g) : Claims(q, a) \ {g} # {}
      <3>1. g \in G /\ g \in GroupNames(named)
        BY <1>4, <2>5
      <3>2. PICK a \in Range(s) : g \in Claims(named, a) /\ g # name
        BY <2>2, <3>1
      <3>3. a \in Members(r, g)
        BY <1>1, <1>2, <1>4, <3>1, <3>2 DEF Good, Index
      <3>4. QED BY <2>5, <3>2, <3>3
    <2>8. Stored(r, s, m, q)
      BY <2>4, <2>5, <2>6, <2>7 DEF Stored
    <2>9. ASSUME NEW g \in GroupNames(r), Members(r, g) \cap Range(s) = {}
           PROVE  g \in GroupNames(q) /\ q.known_mrp_groups[g] = r.known_mrp_groups[g]
      <3>1. g # name
        <4>1. Lead(r, g) \in Members(r, g) /\ s[1] \in Range(s)
          BY <1>2, <1>4, <2>9, LeadStep, DistinctStep DEF Good
        <4>2. Lead(r, g) \in DOMAIN named.mrp_out_names /\ named.mrp_out_names[Lead(r, g)] = g
          BY <1>2, <1>4 DEF Good, Headed
        <4>3. QED BY <1>2, <2>9, <4>1, <4>2 DEF Good, Named, IsInjective
      <3>2. g \notin G
        <4>1. \A a \in Range(s) : g \notin Claims(named, a)
          BY <1>1, <1>2, <1>4, <2>9 DEF Good, Index
        <4>2. QED BY <2>1b, <4>1 DEF ClaimsOf
      <3>3. QED BY <2>5, <3>1, <3>2
    <2>10. ASSUME NEW g \in r.pending_mrp_groups, Lead(r, g) = s[1]
           PROVE  g \in q.pending_mrp_groups /\ Range(s) \subseteq DOMAIN q.pending_outputs
      <3>1. g = name
        BY <1>2, <1>4, <2>10 DEF Good, Headed
      <3>2. QED BY <2>4, <2>5, <2>1a, <3>1
    <2>11. QED BY <2>4, <2>8, <2>9, <2>10 DEF Restored
  <1>7. QED BY <1>5, <1>6

(* Tagging names an address, or its group and all members, and loses nothing. *)
LEMMA TagStep ==
  ASSUME NEW r, Good(r), r.pending_mrp_groups \subseteq GroupNames(r), NEW a \in Addrs,
         NEW q, q = tag_output(r, a)
  PROVE  /\ Good(q) /\ q.known_mrp_groups = r.known_mrp_groups
         /\ r.pending_mrp_groups \subseteq q.pending_mrp_groups
         /\ q.pending_mrp_groups \subseteq GroupNames(r)
         /\ DOMAIN r.pending_outputs \subseteq DOMAIN q.pending_outputs
         /\ \A x \in DOMAIN q.pending_outputs :
              x \in DOMAIN r.pending_outputs \/ x = a \/ \E g \in GroupNames(r) : x \in Members(r, g)
         /\ \A x \in DOMAIN r.pending_outputs : q.pending_outputs[x] = r.pending_outputs[x]
  <1> DEFINE live == Claims(r, a) \cap DOMAIN r.known_mrp_groups
             g == CHOOSE x \in live : TRUE
             s == IF Claims(r, a) = {} THEN <<a>> ELSE r.known_mrp_groups[g].addrs
             n == name_outputs(r, s)
  <1>1. Claims(r, a) # {} => g \in GroupNames(r)
    BY ClaimsKnown DEF Good, GroupNames
  <1>2. Residues(s)
    <2>1. <<a>> \in Seq(Addrs) /\ IsInjective(<<a>>)
      BY DEF IsInjective
    <2>2. ASSUME Claims(r, a) # {} PROVE Residues(r.known_mrp_groups[g].addrs)
      <3>1. g \in GroupNames(r)
        BY <1>1, <2>2
      <3> HIDE DEF g
      <3>2. QED BY <3>1 DEF Good, Known, GroupType, Residues
    <2>3. QED BY <2>1, <2>2 DEF Residues
  <1>3. Range(s) = IF Claims(r, a) = {} THEN {a} ELSE Members(r, g)
    <2>1. Range(<<a>>) = {a}
      BY DEF Range
    <2>2. QED BY <2>1 DEF Members
  <1>4. \/ Claims(r, a) = {} /\ q = n
        \/ Claims(r, a) # {} /\ q = [n EXCEPT !.pending_mrp_groups = @ \cup {g}]
    BY ClaimsKnown DEF tag_output, Good, GroupNames
  <1> HIDE DEF s, g
  <1>5. /\ Outputs(n) /\ DOMAIN n = Fields
        /\ n.known_mrp_groups = r.known_mrp_groups
        /\ n.addr_to_mrp_groups = r.addr_to_mrp_groups
        /\ n.pending_mrp_groups = r.pending_mrp_groups
        /\ n.mrp_out_names = r.mrp_out_names /\ n.mrp_out_name_counter = r.mrp_out_name_counter
        /\ DOMAIN n.pending_outputs = DOMAIN r.pending_outputs \cup Range(s)
        /\ \A x \in DOMAIN r.pending_outputs : n.pending_outputs[x] = r.pending_outputs[x]
    BY <1>2, NameOutputsStep DEF Good
  <1> HIDE DEF n
  <1>6. /\ DOMAIN q = Fields
        /\ q.known_mrp_groups = n.known_mrp_groups /\ q.addr_to_mrp_groups = n.addr_to_mrp_groups
        /\ q.mrp_out_names = n.mrp_out_names /\ q.mrp_out_name_counter = n.mrp_out_name_counter
        /\ q.pending_outputs = n.pending_outputs /\ q.output_counter = n.output_counter
        /\ q.pending_mrp_groups = n.pending_mrp_groups \cup (IF Claims(r, a) = {} THEN {} ELSE {g})
    BY <1>4, <1>5 DEF Fields
  <1>7. Good(q)
    <2>1. Known(q) /\ Index(q)
      BY <1>5, <1>6, SameGroups DEF Good
    <2>2. Outputs(q) /\ Named(q) /\ Headed(q)
      BY <1>5, <1>6 DEF Good, Outputs, Named, Headed, Lead, GroupNames
    <2>3. QED BY <2>1, <2>2 DEF Good
  <1>8. \A x \in DOMAIN q.pending_outputs :
          x \in DOMAIN r.pending_outputs \/ x = a \/ \E h \in GroupNames(r) : x \in Members(r, h)
    BY <1>1, <1>3, <1>5, <1>6
  <1>9. QED BY <1>1, <1>5, <1>6, <1>7, <1>8

-----------------------------------------------------------------------------
(* The invariant. *)

Inv == Good(reg) /\ FlushResolves /\ bound \subseteq Addrs

(* A new registry knows nothing. *)
LEMMA NewRegistryGood ==
  /\ Good(NewRegistry)
  /\ DOMAIN NewRegistry.known_mrp_groups = {} /\ NewRegistry.pending_mrp_groups = {}
  /\ DOMAIN NewRegistry.pending_outputs = {}
  <1> DEFINE n == NewRegistry
  <1>1. /\ DOMAIN n = Fields
        /\ n.known_mrp_groups = Empty /\ n.addr_to_mrp_groups = Empty
        /\ n.mrp_out_names = Empty /\ n.pending_outputs = Empty
        /\ n.pending_mrp_groups = {}
        /\ n.mrp_out_name_counter = 0 /\ n.output_counter = 0
    BY DEF NewRegistry, Fields
  <1> HIDE DEF n
  <1>2. DOMAIN Empty = {} /\ \A S : Empty \in [{} -> S]
    BY DEF Empty
  <1>3. Known(n)
    BY <1>1, <1>2 DEF Known, GroupNames
  <1>4. Index(n)
    BY <1>1, <1>2 DEF Index, GroupNames, Claims
  <1>5. Outputs(n)
    BY <1>1, <1>2 DEF Outputs, IsInjective
  <1>6. Named(n) /\ Headed(n)
    BY <1>1, <1>2 DEF Named, Headed, GroupNames, IsInjective
  <1>7. QED BY <1>1, <1>2, <1>3, <1>4, <1>5, <1>6 DEF Good, n

LEMMA InitInv == Init => Inv
  BY NewRegistryGood DEF Init, Inv, FlushResolves, Names

(* A store and an invalidation, as steps of the module. *)
LEMMA StoreStep ==
  ASSUME Inv, NEW m \in Bases, NEW s \in Distinct(m), StoreGroup(s, m)
  PROVE  /\ Inv'
         /\ \A g \in reg.pending_mrp_groups \ reg'.pending_mrp_groups :
              \E a \in Members(reg, g) : Claims(reg', a) \ {g} # {}
         /\ \A a \in DOMAIN reg.pending_outputs :
              a \in DOMAIN reg'.pending_outputs /\ reg'.pending_outputs[a] = reg.pending_outputs[a]
  <1> DEFINE q == register_mrp_output_group(reg, s, m)
  <1>1. Good(reg) /\ reg.pending_mrp_groups \subseteq GroupNames(reg)
    BY DEF Inv, FlushResolves, Names, GroupNames
  <1>2. Good(q) /\ Stored(reg, s, m, q)
    BY <1>1, RegisterStep
  <1>3. reg' = q /\ bound' = bound \cup Range(s)
    BY DEF StoreGroup
  <1> HIDE DEF q
  <1>4. Range(s) \subseteq Addrs
    BY DistinctStep
  <1>5. Inv'
    BY <1>2, <1>3, <1>4 DEF Inv, FlushResolves, Names, GroupNames, Stored
  <1>6. QED BY <1>2, <1>3, <1>5 DEF Stored

LEMMA DropStep ==
  ASSUME Inv, NEW a \in Addrs, Invalidate(a)
  PROVE  /\ Inv'
         /\ reg'.pending_mrp_groups = reg.pending_mrp_groups \ Claims(reg, a)
         /\ reg'.pending_outputs = Drop(reg.pending_outputs, {a})
  <1> DEFINE q == invalidate(reg, {a})
  <1>1. ClaimsOf(reg, {a}) = Claims(reg, a)
    BY DEF ClaimsOf
  <1>2. /\ Good(q)
        /\ GroupNames(q) = GroupNames(reg) \ Claims(reg, a)
        /\ \A g \in GroupNames(q) : Members(q, g) = Members(reg, g) /\ Members(q, g) \cap {a} = {}
        /\ q.pending_mrp_groups = reg.pending_mrp_groups \ Claims(reg, a)
        /\ q.pending_outputs = Drop(reg.pending_outputs, {a})
    <2>1. {a} \subseteq Addrs /\ Good(reg)
      BY DEF Inv
    <2>2. /\ Good(q)
          /\ GroupNames(q) = GroupNames(reg) \ ClaimsOf(reg, {a})
          /\ \A g \in GroupNames(q) : Members(q, g) = Members(reg, g) /\ Members(q, g) \cap {a} = {}
          /\ q.pending_mrp_groups = reg.pending_mrp_groups \ ClaimsOf(reg, {a})
          /\ q.pending_outputs = Drop(reg.pending_outputs, {a})
      <3> HIDE DEF q
      <3>1. QED BY <2>1, InvalidateStep DEF q
    <2>3. QED BY <1>1, <2>2
  <1>3. reg' = q /\ bound' = bound \ {a}
    BY DEF Invalidate
  <1> HIDE DEF q
  <1>4. DOMAIN q.pending_outputs = DOMAIN reg.pending_outputs \ {a}
    BY <1>2 DEF Drop, Restrict
  <1>5. Inv'
    BY <1>2, <1>3, <1>4 DEF Inv, FlushResolves, Names, GroupNames
  <1>6. QED BY <1>2, <1>3, <1>5

LEMMA UntagStep ==
  ASSUME NEW r, Good(r), NEW S, NEW q, q = untag(r, S)
  PROVE  /\ Good(q) /\ q.known_mrp_groups = r.known_mrp_groups
         /\ q.pending_mrp_groups = r.pending_mrp_groups
         /\ q.pending_outputs = Drop(r.pending_outputs, S)
  <1>1. /\ DOMAIN q = Fields
        /\ q.known_mrp_groups = r.known_mrp_groups /\ q.addr_to_mrp_groups = r.addr_to_mrp_groups
        /\ q.pending_mrp_groups = r.pending_mrp_groups
        /\ q.mrp_out_names = r.mrp_out_names /\ q.mrp_out_name_counter = r.mrp_out_name_counter
        /\ q.pending_outputs = Drop(r.pending_outputs, S) /\ q.output_counter = r.output_counter
    BY DEF untag, Good, Known, Fields
  <1>2. Known(q) /\ Index(q)
    BY <1>1, SameGroups DEF Good
  <1>3. Outputs(q)
    BY <1>1 DEF Good, Outputs, Drop, Restrict, IsInjective
  <1>4. Named(q) /\ Headed(q)
    BY <1>1 DEF Good, Named, Headed, Lead, GroupNames
  <1>5. QED BY <1>1, <1>2, <1>3, <1>4 DEF Good

LEMMA NextInv ==
  ASSUME Inv, [Next]_vars
  PROVE  Inv'
  <1>1. ASSUME NEW a \in Addrs, Bind(a) PROVE Inv'
    BY <1>1 DEF Bind, Inv, FlushResolves, Names
  <1>2. ASSUME NEW a \in Addrs, UploadInput(a) PROVE Inv'
    <2>1. /\ Good(reg') /\ reg'.known_mrp_groups = reg.known_mrp_groups
          /\ reg'.pending_mrp_groups = reg.pending_mrp_groups
          /\ reg'.pending_outputs = Drop(reg.pending_outputs, {a})
      BY <1>2, UntagStep DEF UploadInput, Inv
    <2>2. DOMAIN reg'.pending_outputs \subseteq DOMAIN reg.pending_outputs
      BY <2>1 DEF Drop, Restrict
    <2>3. \A g : Members(reg', g) = Members(reg, g)
      BY <2>1 DEF Members
    <2>4. QED BY <1>2, <2>1, <2>2, <2>3 DEF UploadInput, Inv, FlushResolves, Names
  <1>3. ASSUME NEW a \in Addrs, Invalidate(a) PROVE Inv'
    BY <1>3, DropStep
  <1>4. ASSUME NEW m \in Bases, NEW s \in Distinct(m), StoreGroup(s, m) PROVE Inv'
    BY <1>4, StoreStep
  <1>5. ASSUME NEW a \in Addrs, TagOutput(a) PROVE Inv'
    <2>1. /\ Good(reg') /\ reg'.known_mrp_groups = reg.known_mrp_groups
          /\ reg'.pending_mrp_groups \subseteq GroupNames(reg)
          /\ \A x \in DOMAIN reg'.pending_outputs :
               x \in DOMAIN reg.pending_outputs \/ x = a \/ \E g \in GroupNames(reg) : x \in Members(reg, g)
      BY <1>5, TagStep DEF TagOutput, Inv, FlushResolves, Names, GroupNames
    <2>2. \A g : Members(reg', g) = Members(reg, g)
      BY <2>1 DEF Members
    <2>3. QED BY <1>5, <2>1, <2>2 DEF TagOutput, Inv, FlushResolves, Names, GroupNames
  <1>6. CASE Clear
    BY <1>6, NewRegistryGood DEF Clear, Inv, FlushResolves, Names
  <1>7. CASE UNCHANGED vars
    BY <1>7 DEF vars, Inv, FlushResolves, Names
  <1>8. QED BY <1>1, <1>2, <1>3, <1>4, <1>5, <1>6, <1>7 DEF Next

LEMMA Invariant == Spec => []Inv
  BY InitInv, NextInv, PTL DEF Spec

-----------------------------------------------------------------------------
(* Theorems. *)

(* The fields of EpochState have the types of epoch.hpp:175-217. *)
THEOREM TypeCorrect == Spec => []TypeOK
  <1>1. Inv => TypeOK
    BY DEF Inv, Good, Known, Index, Outputs, Named, TypeOK, Names, GroupNames
  <1>2. QED BY <1>1, Invariant, PTL

(* addr_to_mrp_groups_ is the exact inverse of known_mrp_groups_, whatever was stored,    *)
(* evicted and invalidated (epoch.cpp:139-180, 263-310).                                 *)
THEOREM ExactIndex == Spec => []Lockstep
  <1>1. Inv => Lockstep
    BY DEF Inv, Good, Index, Lockstep, Names, GroupNames
  <1>2. QED BY <1>1, Invariant, PTL

(* No address is in two groups, which tag_output_locked asserts (epoch.cpp:97-105).       *)
THEOREM GroupsDisjoint == Spec => []OneGroupPerAddr
  <1>1. Inv => OneGroupPerAddr
    BY DEF Inv, Good, Index, OneGroupPerAddr
  <1>2. QED BY <1>1, Invariant, PTL

(* A flush finds the binding of all it exports: MissingPolyMapBinding is unreachable      *)
(* (epoch.cpp:314-369).                                                                  *)
THEOREM TagsResolve == Spec => []FlushResolves
  BY Invariant, PTL DEF Inv

(* No two outputs of an epoch share a name (epoch.cpp:86-95). *)
THEOREM NamesUnique == Spec => []OutputNamesUnique
  <1>1. Inv => OutputNamesUnique
    BY DEF Inv, Good, Outputs, OutputNamesUnique
  <1>2. QED BY <1>1, Invariant, PTL

(* A store decides the group of every address it writes (epoch.cpp:253-310). *)
THEOREM LatestStoreWins == Spec => []LatestWriteWins
  <1>1. ASSUME Inv PROVE LatestWriteWins
    <2>1. ASSUME NEW m \in Bases, NEW s \in Distinct(m)
          PROVE  LET stored == register_mrp_output_group(reg, s, m)
                 IN \A a \in Range(s) : \E g \in DOMAIN stored.known_mrp_groups :
                      /\ Claims(stored, a) = {g}
                      /\ stored.known_mrp_groups[g] = [addrs |-> s, moduli |-> m]
      <3> DEFINE stored == register_mrp_output_group(reg, s, m)
      <3>1. Stored(reg, s, m, stored)
        BY <1>1, RegisterStep DEF Inv, FlushResolves, Names, GroupNames
      <3> HIDE DEF stored
      <3>2. \A a \in Range(s) : \E g \in DOMAIN stored.known_mrp_groups :
              /\ Claims(stored, a) = {g}
              /\ stored.known_mrp_groups[g] = [addrs |-> s, moduli |-> m]
        BY <3>1 DEF Stored, GroupNames
      <3>3. QED BY <3>2 DEF stored
    <2>2. QED BY <2>1 DEF LatestWriteWins
  <1>2. QED BY <1>1, Invariant, PTL

(* Tags outlive what happens to the groups of their addresses (haze.h:139-141). *)
THEOREM TagsOutlive == Spec => OutputTagsKept
  <1> DEFINE Kept(a) == /\ a \in DOMAIN reg'.pending_outputs
                        /\ reg'.pending_outputs[a] = reg.pending_outputs[a]
  <1>1. ASSUME Inv, [Next]_vars, NEW a \in DOMAIN reg.pending_outputs
        PROVE  Kept(a) \/ a \notin bound' \/ UploadInput(a)
    <2>0. Good(reg) /\ reg.pending_mrp_groups \subseteq GroupNames(reg)
      BY <1>1 DEF Inv, FlushResolves, Names, GroupNames
    <2>1. ASSUME NEW b \in Addrs, Bind(b) PROVE Kept(a)
      BY <1>1, <2>1 DEF Bind
    <2>2. ASSUME NEW b \in Addrs, UploadInput(b) PROVE Kept(a) \/ UploadInput(a)
      <3>1. reg'.pending_outputs = Drop(reg.pending_outputs, {b})
        BY <2>0, <2>2, UntagStep DEF UploadInput
      <3>2. a # b => Kept(a)
        BY <1>1, <3>1 DEF Drop, Restrict
      <3>3. QED BY <2>2, <3>2
    <2>3. ASSUME NEW b \in Addrs, Invalidate(b) PROVE Kept(a) \/ a \notin bound'
      <3>1. reg'.pending_outputs = Drop(reg.pending_outputs, {b})
        BY <1>1, <2>3, DropStep
      <3>2. a # b => Kept(a)
        BY <1>1, <3>1 DEF Drop, Restrict
      <3>3. QED BY <2>3, <3>2 DEF Invalidate
    <2>4. ASSUME NEW m \in Bases, NEW s \in Distinct(m), StoreGroup(s, m) PROVE Kept(a)
      BY <1>1, <2>4, StoreStep
    <2>5. ASSUME NEW b \in Addrs, TagOutput(b) PROVE Kept(a)
      BY <1>1, <2>0, <2>5, TagStep DEF TagOutput
    <2>6. CASE Clear
      BY <2>6 DEF Clear
    <2>7. CASE UNCHANGED vars
      BY <1>1, <2>7 DEF vars
    <2>8. QED BY <1>1, <2>1, <2>2, <2>3, <2>4, <2>5, <2>6, <2>7 DEF Next
  <1>2. Inv /\ [Next]_vars =>
          \A a \in DOMAIN reg.pending_outputs :
            \/ a \in DOMAIN reg'.pending_outputs /\ reg'.pending_outputs[a] = reg.pending_outputs[a]
            \/ a \notin bound'
            \/ UploadInput(a)
    BY <1>1
  <1>3. QED BY <1>2, Invariant, PTL DEF Spec, OutputTagsKept

(* A group is no longer exported only when it lost a member (epoch.cpp:263-310). *)
THEOREM ExportOutlives == Spec => ExportKept
  <1> DEFINE Lost(g) == \E a \in Members(reg, g) : a \notin bound' \/ Claims(reg', a) \ {g} # {}
  <1>1. ASSUME Inv, [Next]_vars, NEW g \in reg.pending_mrp_groups \ reg'.pending_mrp_groups
        PROVE  Lost(g)
    <2>0. Good(reg) /\ reg.pending_mrp_groups \subseteq GroupNames(reg)
      BY <1>1 DEF Inv, FlushResolves, Names, GroupNames
    <2>1. ASSUME NEW b \in Addrs, Bind(b) PROVE FALSE
      BY <1>1, <2>1 DEF Bind
    <2>2. ASSUME NEW b \in Addrs, UploadInput(b) PROVE FALSE
      BY <1>1, <2>0, <2>2, UntagStep DEF UploadInput
    <2>3. ASSUME NEW b \in Addrs, Invalidate(b) PROVE Lost(g)
      <3>1. reg'.pending_mrp_groups = reg.pending_mrp_groups \ Claims(reg, b)
        BY <1>1, <2>3, DropStep
      <3>2. b \in Members(reg, g)
        BY <1>1, <2>0, <3>1 DEF Good, Index
      <3>3. QED BY <2>3, <3>2 DEF Invalidate
    <2>4. ASSUME NEW m \in Bases, NEW s \in Distinct(m), StoreGroup(s, m) PROVE Lost(g)
      BY <1>1, <2>4, StoreStep
    <2>5. ASSUME NEW b \in Addrs, TagOutput(b) PROVE FALSE
      BY <1>1, <2>0, <2>5, TagStep DEF TagOutput
    <2>6. CASE Clear
      BY <1>1, <2>0, <2>6 DEF Clear, Good, Known
    <2>7. CASE UNCHANGED vars
      BY <1>1, <2>7 DEF vars
    <2>8. QED BY <1>1, <2>1, <2>2, <2>3, <2>4, <2>5, <2>6, <2>7 DEF Next
  <1>2. Inv /\ [Next]_vars =>
          \A g \in reg.pending_mrp_groups \ reg'.pending_mrp_groups :
            \E a \in Members(reg, g) : a \notin bound' \/ Claims(reg', a) \ {g} # {}
    BY <1>1
  <1>3. QED BY <1>2, Invariant, PTL DEF Spec, ExportKept
=============================================================================
