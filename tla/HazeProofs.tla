----------------------------- MODULE HazeProofs -----------------------------
(***************************************************************************)
(* The C API as a single-threaded program calls it, with groups of any     *)
(* size, over any addresses, moduli and values.                            *)
(*                                                                         *)
(* A call runs methods of Epoch one after the other, each a function of    *)
(* the session state.  What the methods keep is therefore stated of a      *)
(* session state (Sound, Current), and proved of one method at a time; a   *)
(* call keeps it because the methods it is made of do.                     *)
(***************************************************************************)
EXTENDS RefusedFlush, FiniteSetTheorems, SequenceTheorems, TLAPS

(* The proofs about the allocator and about the output bookkeeping, here.               *)
AP == INSTANCE AllocatorProofs
GP == INSTANCE MrpGroupsProofs WITH Addrs <- Mem!DevAddrs, bound <- DOMAIN poly_map,
                                    Bases <- {b \in Bases : Len(b) > 1}

-----------------------------------------------------------------------------
(* Session states. *)

SessionFields ==
  {"poly_map", "reg", "input_addrs", "addr_modulus", "mrp_in", "shadow_data", "err"}
BoundIn(st) == DOMAIN st.poly_map
AllModuli == Moduli \cup {CopyModulus} \cup UNION {T!Range(b) : b \in Bases}
Recordings == [val : Poly, mod : AllModuli]

Typed(st) ==
  /\ DOMAIN st = SessionFields /\ st.err \in AP!Errors
  /\ BoundIn(st) \subseteq Mem!DevAddrs
  /\ \A a \in BoundIn(st) : st.poly_map[a] \in Recordings
  /\ \A a \in DOMAIN st.addr_modulus : st.addr_modulus[a] \in AllModuli
  /\ DOMAIN st.mrp_in = {"names", "counter", "tagged"}

(* All the epoch keeps of an address, it keeps of a bound one; which is live, if a       *)
(* destination has to be.                                                               *)
Rooted(st) ==
  /\ st.input_addrs \subseteq BoundIn(st) /\ DOMAIN st.addr_modulus \subseteq BoundIn(st)
  /\ DOMAIN st.mrp_in.names \subseteq BoundIn(st)
  /\ DOMAIN st.reg.mrp_out_names \subseteq BoundIn(st)
  /\ ~AnyDst => BoundIn(st) \subseteq alloc_set

(* The output bookkeeping r is in order and resolves to addresses of S.                  *)
Booked(r, S) ==
  /\ GP!Good(r) /\ DOMAIN r.pending_outputs \subseteq S
  /\ r.pending_mrp_groups \subseteq GP!GroupNames(r)
  /\ \A g \in GP!GroupNames(r) : GP!Members(r, g) \subseteq S

(* A result carries the modulus recorded for its address.                               *)
Moduled(st) ==
  \A a \in BoundIn(st) \ st.input_addrs : recorded_modulus(st, a) = st.poly_map[a].mod

Sound(st) == Typed(st) /\ Rooted(st) /\ Booked(st.reg, BoundIn(st)) /\ Moduled(st)

(* What an address was last given, tr, is what it is bound to, and what its shadow holds *)
(* unless a result is still to be brought back, to a bound address then.                *)
Current(st, tr, un) ==
  \A a \in DOMAIN tr :
    /\ a \in BoundIn(st) => st.poly_map[a].val = tr[a]
    /\ a \in DOMAIN st.shadow_data \ un => st.shadow_data[a] = tr[a]
    /\ a \in un => a \in BoundIn(st)

(* A method that writes nothing the program can see.                                    *)
Carries(st, q) == \A tr, un : Current(st, tr, un) => Current(q, tr, un)

LEMMA CarriesOn ==
  ASSUME NEW st, NEW mid, NEW q, Carries(st, mid), Carries(mid, q)
  PROVE  Carries(st, q)
  BY DEF Carries

(* Within a session shadows are only taken, and, until it fails, bound instead.         *)
IsTable(f) == f = [a \in DOMAIN f |-> f[a]]

Within(st) ==
  /\ IsTable(st.shadow_data)
  /\ DOMAIN st.shadow_data \subseteq DOMAIN shadow_data
  /\ \A a \in DOMAIN st.shadow_data : st.shadow_data[a] = shadow_data[a]
  /\ st.err = "Ok" => DOMAIN shadow_data \subseteq DOMAIN st.shadow_data \cup BoundIn(st)

(* What sessions are given: shadows are polynomials of live addresses.                  *)
Shadows ==
  /\ DOMAIN shadow_data \subseteq alloc_set /\ alloc_set \subseteq Mem!DevAddrs
  /\ \A a \in DOMAIN shadow_data : shadow_data[a] \in Poly

LEMMA OneIs ==
  ASSUME NEW a, NEW v
  PROVE  DOMAIN one(a, v) = {a} /\ one(a, v)[a] = v
  BY DEF one

LEMMA Least ==
  ASSUME NEW S, S \subseteq Nat, S # {}
  PROVE  \E x \in S : \A y \in S : x <= y
  <1> DEFINE intervals == {0..n : n \in S}
             inside == StrictSubsetOrdering(Nat)
  <1>1. IsWellFoundedOn(inside, FiniteSubsetsOf(Nat))
    BY FS_StrictSubsetOrderingWellFounded
  <1>2. intervals \subseteq FiniteSubsetsOf(Nat) /\ intervals # {}
    <2>1. \A n \in S : IsFiniteSet(0..n) /\ 0..n \in SUBSET Nat
      BY FS_Interval
    <2>2. QED BY <2>1 DEF FiniteSubsetsOf
  <1>3. \E x \in intervals : \A y \in intervals : ~ (<<y, x>> \in inside)
    <2> HIDE DEF inside, intervals
    <2>1. QED BY <1>1, <1>2, WFMin
  <1>4. PICK x \in intervals : \A y \in intervals : ~ (<<y, x>> \in inside)
    BY <1>3
  <1>5. PICK m \in S : x = 0..m
    BY <1>4
  <1>6. ASSUME NEW y \in S, y < m PROVE FALSE
    <2>1. 0..y \in intervals /\ 0..y \subseteq x /\ 0..y # x
      BY <1>5, <1>6
    <2>2. <<0..y, x>> \in inside
      BY <1>5, <2>1 DEF StrictSubsetOrdering
    <2>3. QED BY <1>4, <2>1, <2>2
  <1>7. QED BY <1>6

-----------------------------------------------------------------------------
(* Sources. *)

LEMMA ComponentsErrors ==
  \A a, n : /\ Mem!ComponentsError(a, n) \in AP!Errors
            /\ Mem!ComponentsError(a, n) = "Ok" => a \in alloc_set /\ a \in DOMAIN shadow_data
  BY DEF Mem!ComponentsError, AP!Errors

(* The look-up of s in order ends with all bound, or at the first that cannot be.        *)
Looked(st, s, taken, found) ==
  /\ IsTable(found.shadow_data)
  /\ DOMAIN found = SessionFields
  /\ found.poly_map = T!Put(st.poly_map, [a \in taken |-> [val |-> shadow_data[a], mod |-> CopyModulus]])
  /\ found.input_addrs = st.input_addrs \cup taken
  /\ found.reg = st.reg /\ found.addr_modulus = st.addr_modulus /\ found.mrp_in = st.mrp_in
  /\ DOMAIN found.shadow_data \subseteq DOMAIN st.shadow_data
  /\ \A a \in DOMAIN found.shadow_data : found.shadow_data[a] = st.shadow_data[a]
  /\ found.err \in AP!Errors
  /\ found.err = "Ok" => /\ DOMAIN found.shadow_data = DOMAIN st.shadow_data \ taken
                         /\ \A i \in DOMAIN s : s[i] \in BoundIn(st) \cup taken

LEMMA LookupEffect ==
  ASSUME NEW st, DOMAIN st = SessionFields, st.err = "Ok", NEW n, NEW s, DOMAIN s \subseteq Nat,
         NEW found, found = lookup_or_create(st, s, n)
  PROVE  \E taken : /\ taken \subseteq {s[i] : i \in DOMAIN s} \ BoundIn(st)
                    /\ taken \subseteq alloc_set \cap DOMAIN shadow_data
                    /\ Looked(st, s, taken, found)
  <1> DEFINE error(i) == IF s[i] \in DOMAIN st.poly_map THEN "Ok" ELSE Mem!ComponentsError(s[i], n)
             failing == {i \in DOMAIN s : error(i) # "Ok"}
             first == CHOOSE i \in failing : \A j \in failing : i <= j
             taken == {s[i] : i \in {j \in DOMAIN s : \A k \in failing : j < k}} \ DOMAIN st.poly_map
             inputs == [a \in taken |-> [val |-> shadow_data[a], mod |-> CopyModulus]]
             ok == [st EXCEPT !.poly_map = T!Put(@, inputs),
                              !.input_addrs = @ \cup taken,
                              !.shadow_data = T!Drop(@, taken)]
             e == error(first)
  <1>1. found = IF failing = {} THEN ok
                ELSE [ok EXCEPT !.err = IF e = "NoData" THEN "SourceUnavailable" ELSE e,
                                !.shadow_data = IF Mem!Evicts(e) THEN T!Drop(@, {s[first]}) ELSE @]
    BY DEF lookup_or_create
  <1>2. \A j \in DOMAIN s : (\A k \in failing : j < k) => error(j) = "Ok"
    <2>1. SUFFICES ASSUME NEW j \in DOMAIN s, j \in failing PROVE ~(j < j)
      OBVIOUS
    <2>2. QED BY <2>1
  <1>3. /\ taken \subseteq {s[i] : i \in DOMAIN s} \ BoundIn(st)
        /\ taken \subseteq alloc_set \cap DOMAIN shadow_data
    BY <1>2, ComponentsErrors DEF BoundIn
  <1>4. /\ DOMAIN ok = SessionFields /\ ok.err = "Ok"
        /\ ok.poly_map = T!Put(st.poly_map, inputs) /\ ok.input_addrs = st.input_addrs \cup taken
        /\ ok.shadow_data = T!Drop(st.shadow_data, taken)
        /\ ok.reg = st.reg /\ ok.addr_modulus = st.addr_modulus /\ ok.mrp_in = st.mrp_in
    BY DEF SessionFields
  <1>5. failing = {} => \A i \in DOMAIN s : s[i] \in BoundIn(st) \cup taken
    BY DEF BoundIn
  <1>6. failing # {} => e \in AP!Errors \ {"Ok"}
    <2>1. failing # {} => first \in failing
      <3>1. failing \subseteq Nat
        OBVIOUS
      <3> HIDE DEF failing
      <3>2. QED BY <3>1, Least
    <2>2. QED BY <2>1, ComponentsErrors DEF AP!Errors
  <1> HIDE DEF failing, first, taken, e, ok
  <1>0. /\ IsTable(ok.shadow_data) /\ DOMAIN ok.shadow_data = DOMAIN st.shadow_data \ taken
        /\ \A a \in DOMAIN ok.shadow_data : ok.shadow_data[a] = st.shadow_data[a]
    <2>1. ok.shadow_data = [a \in DOMAIN st.shadow_data \ taken |-> st.shadow_data[a]]
      BY <1>4 DEF T!Drop, T!Restrict
    <2>2. \A x : x = [a \in DOMAIN st.shadow_data \ taken |-> st.shadow_data[a]] =>
            /\ IsTable(x) /\ DOMAIN x = DOMAIN st.shadow_data \ taken
            /\ \A a \in DOMAIN x : x[a] = st.shadow_data[a]
      BY DEF IsTable
    <2>3. QED BY ONLY <2>1, <2>2
  <1>7. CASE failing = {}
    BY <1>0, <1>1, <1>3, <1>4, <1>5, <1>7 DEF Looked, AP!Errors
  <1>8. CASE failing # {}
    <2> DEFINE f == IF e = "NoData" THEN "SourceUnavailable" ELSE e
               left == IF Mem!Evicts(e) THEN T!Drop(ok.shadow_data, {s[first]}) ELSE ok.shadow_data
    <2>1. /\ DOMAIN found = SessionFields /\ found.err = f
          /\ found.poly_map = ok.poly_map /\ found.input_addrs = ok.input_addrs
          /\ found.shadow_data = left
          /\ found.reg = ok.reg /\ found.addr_modulus = ok.addr_modulus /\ found.mrp_in = ok.mrp_in
      BY <1>1, <1>4, <1>8 DEF SessionFields
    <2>2. f \in AP!Errors \ {"Ok"}
      BY <1>6, <1>8 DEF AP!Errors
    <2>3. /\ IsTable(left) /\ DOMAIN left \subseteq DOMAIN st.shadow_data
          /\ \A a \in DOMAIN left : left[a] = st.shadow_data[a]
      <3>0. IsTable(T!Drop(ok.shadow_data, {s[first]}))
        BY DEF IsTable, T!Drop, T!Restrict
      <3>1. /\ DOMAIN T!Drop(ok.shadow_data, {s[first]}) = DOMAIN ok.shadow_data \ {s[first]}
            /\ \A a \in DOMAIN ok.shadow_data \ {s[first]} :
                 T!Drop(ok.shadow_data, {s[first]})[a] = ok.shadow_data[a]
        BY DEF T!Drop, T!Restrict
      <3>2. QED BY <1>0, <3>0, <3>1
    <2> HIDE DEF f, left
    <2>4. QED BY <1>3, <1>4, <2>1, <2>2, <2>3 DEF Looked
  <1>9. QED BY <1>7, <1>8

(* A look-up binds what it takes, as inputs, to what the shadows held.                  *)
LEMMA LookupStep ==
  ASSUME Shadows, NEW st, Sound(st), Within(st), NEW n, NEW s, DOMAIN s \subseteq Nat,
         NEW found, found = lookup_or_create(st, s, n)
  PROVE  /\ Sound(found) /\ Within(found)
         /\ Carries(st, found)
         /\ BoundIn(st) \subseteq BoundIn(found)
         /\ \A a \in BoundIn(st) : found.poly_map[a] = st.poly_map[a]
         /\ found.reg = st.reg
         /\ found.err = "Ok" => st.err = "Ok" /\ \A i \in DOMAIN s : s[i] \in BoundIn(found)
  <1>1. CASE st.err # "Ok"
    <2>1. found = st
      BY <1>1 DEF lookup_or_create
    <2>2. QED BY <1>1, <2>1 DEF Carries
  <1>2. CASE st.err = "Ok"
    <2>1. PICK taken : /\ taken \subseteq {s[i] : i \in DOMAIN s} \ BoundIn(st)
                       /\ taken \subseteq alloc_set \cap DOMAIN shadow_data
                       /\ Looked(st, s, taken, found)
      BY <1>2, LookupEffect DEF Sound, Typed
    <2> DEFINE inputs == [a \in taken |-> [val |-> shadow_data[a], mod |-> CopyModulus]]
    <2>2. /\ BoundIn(found) = BoundIn(st) \cup taken
          /\ \A a \in taken : found.poly_map[a] = [val |-> shadow_data[a], mod |-> CopyModulus]
          /\ \A a \in BoundIn(st) : found.poly_map[a] = st.poly_map[a]
      <3>1. /\ found.poly_map = T!Put(st.poly_map, inputs) /\ DOMAIN inputs = taken
            /\ \A a \in taken : inputs[a] = [val |-> shadow_data[a], mod |-> CopyModulus]
        BY <2>1 DEF Looked
      <3> HIDE DEF inputs
      <3>2. QED BY <2>1, <3>1 DEF BoundIn, T!Put
    <2>3. \A a \in taken : shadow_data[a] \in Poly /\ found.poly_map[a] \in Recordings
      <3>1. \A a \in taken : shadow_data[a] \in Poly
        BY <2>1 DEF Shadows
      <3>2. CopyModulus \in AllModuli
        BY DEF AllModuli
      <3>3. QED
        <4>1. SUFFICES ASSUME NEW a \in taken PROVE found.poly_map[a] \in Recordings
          BY <3>1
        <4>2. [val |-> shadow_data[a], mod |-> CopyModulus] \in Recordings
          BY <3>1, <3>2 DEF Recordings
        <4>3. QED BY <2>2, <4>2
    <2>4. Typed(found)
      BY <2>1, <2>2, <2>3 DEF Sound, Typed, Looked, Shadows
    <2>5. Rooted(found) /\ Booked(found.reg, BoundIn(found))
      BY <2>1, <2>2 DEF Sound, Rooted, Booked, Looked
    <2>6. Moduled(found)
      BY <2>1, <2>2 DEF Sound, Moduled, Looked, recorded_modulus
    <2>7. Within(found)
      BY <1>2, <2>1, <2>2 DEF Within, Looked
    <2>8. ASSUME NEW tr, NEW un, Current(st, tr, un) PROVE Current(found, tr, un)
      <3>1. \A a \in taken : a \in DOMAIN st.shadow_data /\ st.shadow_data[a] = shadow_data[a]
        BY <1>2, <2>1 DEF Within
      <3>2. \A a \in DOMAIN tr : a \in taken => found.poly_map[a].val = tr[a]
        <4>1. SUFFICES ASSUME NEW a \in DOMAIN tr, a \in taken PROVE shadow_data[a] = tr[a]
          <5>1. SUFFICES ASSUME NEW a \in taken PROVE found.poly_map[a].val = shadow_data[a]
            OBVIOUS
          <5>2. found.poly_map[a] = [val |-> shadow_data[a], mod |-> CopyModulus]
            BY <2>2
          <5>3. QED BY <5>2
        <4>2. a \notin un /\ a \in DOMAIN st.shadow_data \ un
          BY <2>1, <2>8, <3>1, <4>1 DEF Current
        <4>3. QED BY <2>8, <3>1, <4>1, <4>2 DEF Current
      <3>3. QED BY <2>1, <2>2, <2>8, <3>2 DEF Current, Looked
    <2>9. QED BY <1>2, <2>1, <2>2, <2>4, <2>5, <2>6, <2>7, <2>8 DEF Sound, Looked, Carries
  <1>3. QED BY <1>1, <1>2

(* Naming an input changes nothing else.                                                *)
LEMMA NameInputStep ==
  ASSUME NEW st, Sound(st), Within(st), NEW s, NEW named, named = tag_mrp_input(st, s)
  PROVE  /\ Sound(named) /\ Within(named)
         /\ Carries(st, named)
         /\ named.poly_map = st.poly_map /\ named.reg = st.reg /\ named.err = st.err
  <1>1. CASE named = st
    BY <1>1 DEF Carries
  <1>2. CASE named # st
    <2> DEFINE name == IF s[1] \in DOMAIN st.mrp_in.names THEN st.mrp_in.names[s[1]] ELSE st.mrp_in.counter
               names == T!Put(st.mrp_in.names, one(s[1], name))
    <2>1. s[1] \in st.input_addrs /\ \E counter, tagged :
            named = [st EXCEPT !.mrp_in = [names |-> names, counter |-> counter, tagged |-> tagged]]
      BY <1>2 DEF tag_mrp_input
    <2> HIDE DEF name
    <2>2. /\ DOMAIN named = SessionFields
          /\ named.poly_map = st.poly_map /\ named.reg = st.reg /\ named.input_addrs = st.input_addrs
          /\ named.addr_modulus = st.addr_modulus /\ named.shadow_data = st.shadow_data
          /\ named.err = st.err
          /\ DOMAIN named.mrp_in = {"names", "counter", "tagged"} /\ named.mrp_in.names = names
      BY <2>1 DEF Sound, Typed, SessionFields
    <2>3. DOMAIN names = DOMAIN st.mrp_in.names \cup {s[1]}
      <3>1. DOMAIN one(s[1], name) = {s[1]}
        BY OneIs
      <3>2. QED BY <3>1 DEF T!Put
    <2> HIDE DEF names
    <2>4. Typed(named)
      BY <2>2 DEF Sound, Typed, BoundIn
    <2>5. Rooted(named)
      BY <2>1, <2>2, <2>3 DEF Sound, Rooted, BoundIn
    <2>6. Booked(named.reg, BoundIn(named)) /\ Moduled(named) /\ Within(named)
      BY <2>2 DEF Sound, Booked, Moduled, recorded_modulus, Within, BoundIn
    <2>7. Carries(st, named)
      BY <2>2 DEF Carries, Current, BoundIn
    <2>8. QED BY <2>2, <2>4, <2>5, <2>6, <2>7 DEF Sound
  <1>3. QED BY <1>1, <1>2

LEMMA BuildStep ==
  ASSUME Shadows, NEW st, Sound(st), Within(st), NEW n, NEW s, DOMAIN s \subseteq Nat,
         NEW built, built = build_mrp(st, s, n)
  PROVE  /\ Sound(built) /\ Within(built)
         /\ Carries(st, built)
         /\ BoundIn(st) \subseteq BoundIn(built)
         /\ \A a \in BoundIn(st) : built.poly_map[a] = st.poly_map[a]
         /\ built.reg = st.reg
         /\ built.err = "Ok" => st.err = "Ok" /\ \A i \in DOMAIN s : s[i] \in BoundIn(built)
  <1> DEFINE found == lookup_or_create(st, s, n)
  <1>1. built = tag_mrp_input(found, s)
    BY DEF build_mrp
  <1> HIDE DEF found
  <1>2. found = lookup_or_create(st, s, n)
    BY DEF found
  <1>3. /\ Sound(found) /\ Within(found)
        /\ Carries(st, found)
        /\ BoundIn(st) \subseteq BoundIn(found)
        /\ \A a \in BoundIn(st) : found.poly_map[a] = st.poly_map[a]
        /\ found.reg = st.reg
        /\ found.err = "Ok" => st.err = "Ok" /\ \A i \in DOMAIN s : s[i] \in BoundIn(found)
    BY <1>2, LookupStep
  <1>4. /\ Sound(built) /\ Within(built)
        /\ Carries(found, built)
        /\ built.poly_map = found.poly_map /\ built.reg = found.reg /\ built.err = found.err
    BY <1>1, <1>3, NameInputStep
  <1>5. QED BY <1>3, <1>4, CarriesOn DEF BoundIn

-----------------------------------------------------------------------------
(* Results. *)

Places(d) == {d[i] : i \in DOMAIN d}

(* What a program that stored g at some of the addresses of S then holds. *)
Given(tr, S, g) == T!Put(T!Drop(tr, S), g)

(* A method that stores the recordings of f, or v at d, or vals at the addresses of d:   *)
(* g is what the program knows of it.                                                   *)
Gives(st, q, f) ==
  \A tr, un, g : /\ Current(st, tr, un)
                 /\ DOMAIN g \subseteq DOMAIN f /\ \A a \in DOMAIN g : g[a] = f[a].val
                 => Current(q, Given(tr, DOMAIN f, g), un \cup DOMAIN f)
GivesOne(st, q, d, v) ==
  \A tr, un, g : /\ Current(st, tr, un)
                 /\ DOMAIN g \subseteq {d} /\ (d \in DOMAIN g => g[d] = v)
                 => Current(q, Given(tr, {d}, g), un \cup {d})
GivesEach(st, q, d, vals) ==
  \A tr, un, g : /\ Current(st, tr, un)
                 /\ DOMAIN g \subseteq Places(d) /\ \A i \in DOMAIN d : d[i] \in DOMAIN g => g[d[i]] = vals[i]
                 => Current(q, Given(tr, Places(d), g), un \cup Places(d))

(* What an operation may store: recordings, at live addresses where it has to.          *)
Storable(f) ==
  /\ DOMAIN f \subseteq Mem!DevAddrs /\ \A a \in DOMAIN f : f[a] \in Recordings
  /\ ~AnyDst => DOMAIN f \subseteq alloc_set

LEMMA StoreStep ==
  ASSUME NEW st, Sound(st), Within(st), st.err = "Ok", NEW f, Storable(f),
         NEW q, q = store_compute_result(st, f)
  PROVE  /\ Sound(q) /\ Within(q) /\ q.err = "Ok" /\ q.reg = st.reg
         /\ BoundIn(q) = BoundIn(st) \cup DOMAIN f
         /\ \A a \in DOMAIN f : q.poly_map[a] = f[a]
         /\ \A a \in BoundIn(st) \ DOMAIN f : q.poly_map[a] = st.poly_map[a]
         /\ Gives(st, q, f)
  <1> DEFINE D == DOMAIN f
             moduli == [a \in {b \in D : f[b].mod # CopyModulus} |-> f[a].mod]
             left == T!Drop(st.addr_modulus, D)
  <1>1. /\ DOMAIN q = SessionFields /\ q.poly_map = T!Put(st.poly_map, f)
        /\ q.input_addrs = st.input_addrs \ D /\ q.addr_modulus = T!Put(left, moduli)
        /\ q.reg = st.reg /\ q.mrp_in = st.mrp_in /\ q.shadow_data = st.shadow_data
        /\ q.err = "Ok"
    BY DEF store_compute_result, Sound, Typed, SessionFields
  <1>2. /\ BoundIn(q) = BoundIn(st) \cup D
        /\ \A a \in D : q.poly_map[a] = f[a]
        /\ \A a \in BoundIn(st) \ D : q.poly_map[a] = st.poly_map[a]
    BY <1>1 DEF BoundIn, T!Put
  <1>3. /\ DOMAIN left = DOMAIN st.addr_modulus \ D
        /\ \A a \in DOMAIN left : left[a] = st.addr_modulus[a]
    BY DEF T!Drop, T!Restrict
  <1>4. /\ DOMAIN moduli = {b \in D : f[b].mod # CopyModulus}
        /\ \A a \in DOMAIN moduli : moduli[a] = f[a].mod
    OBVIOUS
  <1> HIDE DEF moduli, left
  <1>5. /\ DOMAIN q.addr_modulus = (DOMAIN st.addr_modulus \ D) \cup {b \in D : f[b].mod # CopyModulus}
        /\ \A a \in {b \in D : f[b].mod # CopyModulus} : q.addr_modulus[a] = f[a].mod
        /\ \A a \in DOMAIN st.addr_modulus \ D : q.addr_modulus[a] = st.addr_modulus[a]
    BY <1>1, <1>3, <1>4 DEF T!Put
  <1>6. \A a \in D : f[a] \in Recordings /\ f[a].mod \in AllModuli
    BY DEF Storable, Recordings
  <1>7. Typed(q)
    <2>1. BoundIn(q) \subseteq Mem!DevAddrs /\ \A a \in BoundIn(q) : q.poly_map[a] \in Recordings
      BY <1>2, <1>6 DEF Sound, Typed, Storable
    <2>2. \A a \in DOMAIN q.addr_modulus : q.addr_modulus[a] \in AllModuli
      BY <1>5, <1>6 DEF Sound, Typed
    <2>3. QED BY <1>1, <2>1, <2>2 DEF Sound, Typed, AP!Errors
  <1>8. Rooted(q)
    BY <1>1, <1>2, <1>5 DEF Sound, Rooted, Storable
  <1>9. Booked(q.reg, BoundIn(q))
    BY <1>1, <1>2 DEF Sound, Booked
  <1>10. Moduled(q)
    <2>1. SUFFICES ASSUME NEW a \in BoundIn(q) \ q.input_addrs
                   PROVE  recorded_modulus(q, a) = q.poly_map[a].mod
      BY DEF Moduled
    <2>2. CASE a \in D
      BY <1>2, <1>5, <2>2 DEF recorded_modulus
    <2>3. CASE a \notin D
      <3>1. a \in BoundIn(st) \ st.input_addrs /\ q.poly_map[a] = st.poly_map[a]
        BY <1>1, <1>2, <2>1, <2>3
      <3>2. recorded_modulus(q, a) = recorded_modulus(st, a)
        BY <1>5, <2>3 DEF recorded_modulus
      <3>3. QED BY <3>1, <3>2 DEF Sound, Moduled
    <2>4. QED BY <2>2, <2>3
  <1>11. Within(q)
    BY <1>1, <1>2 DEF Within
  <1>12. ASSUME NEW tr, NEW un, NEW g, Current(st, tr, un), DOMAIN g \subseteq D,
                \A a \in DOMAIN g : g[a] = f[a].val
         PROVE  Current(q, Given(tr, D, g), un \cup D)
    <2> DEFINE new == Given(tr, D, g)
    <2>1. /\ DOMAIN new = (DOMAIN tr \ D) \cup DOMAIN g
          /\ \A a \in DOMAIN g : new[a] = g[a]
          /\ \A a \in DOMAIN tr \ D : new[a] = tr[a]
      BY <1>12 DEF Given, T!Put, T!Drop, T!Restrict
    <2> HIDE DEF new
    <2>2. SUFFICES ASSUME NEW a \in DOMAIN new
                   PROVE  /\ a \in BoundIn(q) => q.poly_map[a].val = new[a]
                          /\ a \in DOMAIN q.shadow_data \ (un \cup D) => q.shadow_data[a] = new[a]
                          /\ a \in un \cup D => a \in BoundIn(q)
      BY DEF Current, new
    <2>3. CASE a \in D
      BY <1>2, <1>12, <2>1, <2>2, <2>3
    <2>4. CASE a \notin D
      BY <1>1, <1>2, <1>12, <2>1, <2>2, <2>4 DEF Current
    <2>5. QED BY <2>3, <2>4
  <1>13. QED BY <1>1, <1>2, <1>7, <1>8, <1>9, <1>10, <1>11, <1>12 DEF Sound, Gives

(* Binding a modulus to an input, or to a result the one recorded for it.               *)
LEMMA BindStep ==
  ASSUME NEW st, Sound(st), Within(st), NEW s \in BoundIn(st), NEW m \in AllModuli,
         s \in st.input_addrs \/ m = CopyModulus \/ m = recorded_modulus(st, s),
         NEW q, q = bind_modulus(st, s, m)
  PROVE  /\ Sound(q) /\ Within(q) /\ q.err = st.err /\ BoundIn(q) = BoundIn(st)
         /\ q.addr_modulus = st.addr_modulus
         /\ \A a \in BoundIn(st) : q.poly_map[a].val = st.poly_map[a].val
         /\ Carries(st, q)
  <1>1. CASE m = CopyModulus
    BY <1>1 DEF bind_modulus, Carries
  <1>2. CASE m # CopyModulus
    <2>1. /\ DOMAIN q = SessionFields
          /\ q.poly_map = [st.poly_map EXCEPT ![s].mod = m]
          /\ q.reg = st.reg /\ q.input_addrs = st.input_addrs /\ q.addr_modulus = st.addr_modulus
          /\ q.mrp_in = st.mrp_in /\ q.shadow_data = st.shadow_data /\ q.err = st.err
      BY <1>2 DEF bind_modulus, Sound, Typed, SessionFields
    <2>2. /\ BoundIn(q) = BoundIn(st)
          /\ \A a \in BoundIn(st) \ {s} : q.poly_map[a] = st.poly_map[a]
          /\ q.poly_map[s] = [st.poly_map[s] EXCEPT !.mod = m]
      BY <2>1 DEF BoundIn
    <2>3. st.poly_map[s] \in Recordings
      BY DEF Sound, Typed
    <2>4. q.poly_map[s] \in Recordings /\ q.poly_map[s].val = st.poly_map[s].val /\ q.poly_map[s].mod = m
      BY <2>2, <2>3 DEF Recordings
    <2>5. \A a \in BoundIn(st) : q.poly_map[a].val = st.poly_map[a].val
      BY <2>2, <2>4
    <2>6. Typed(q)
      BY <2>1, <2>2, <2>4 DEF Sound, Typed
    <2>7. Rooted(q) /\ Booked(q.reg, BoundIn(q)) /\ Within(q)
      BY <2>1, <2>2 DEF Sound, Rooted, Booked, Within
    <2>8. Moduled(q)
      BY <1>2, <2>1, <2>2, <2>4 DEF Sound, Moduled, recorded_modulus
    <2>9. Carries(st, q)
      BY <2>1, <2>2, <2>5 DEF Carries, Current
    <2>10. QED BY <2>1, <2>2, <2>5, <2>6, <2>7, <2>8, <2>9 DEF Sound
  <1>3. QED BY <1>1, <1>2

-----------------------------------------------------------------------------
(* Groups. *)

LEMMA GroupBases ==
  \A m \in {b \in Bases : Len(b) > 1} : m \in Seq(GP!Range(m)) /\ Len(m) > 1
  BY BasesAssumption DEF T!Range, GP!Range

LEMMA SameNaming ==
  /\ \A r, s : Groups!name_outputs(r, s) = GP!name_outputs(r, s)
  /\ \A r, lead : /\ Groups!with_group_name(r, lead) = GP!with_group_name(r, lead)
                  /\ Groups!group_name(r, lead) = GP!group_name(r, lead)
  <1>1. ASSUME NEW S PROVE Groups!Cardinality(S) = GP!Cardinality(S)
    BY DEF Groups!Cardinality, GP!Cardinality
  <1>2. ASSUME NEW s, NEW S, NEW x PROVE Groups!Rank(s, S, x) = GP!Rank(s, S, x)
    <2>1. ASSUME NEW b PROVE Groups!FirstAt(s, b) = GP!FirstAt(s, b)
      BY Zenon DEF Groups!FirstAt, GP!FirstAt
    <2>2. {b \in S : Groups!FirstAt(s, b) < Groups!FirstAt(s, x)}
            = {b \in S : GP!FirstAt(s, b) < GP!FirstAt(s, x)}
      BY <2>1
    <2>3. QED BY <1>1, <2>2 DEF Groups!Rank, GP!Rank
  <1>3. \A f, g : Groups!Put(f, g) = GP!Put(f, g)
    BY DEF Groups!Put, GP!Put
  <1>4. ASSUME NEW r, NEW s PROVE Groups!name_outputs(r, s) = GP!name_outputs(r, s)
    <2> DEFINE new == GP!Range(s) \ DOMAIN r.pending_outputs
               ranked == [a \in new |-> r.output_counter + GP!Rank(s, new, a)]
    <2>1. Groups!Range(s) = GP!Range(s)
      BY DEF Groups!Range, GP!Range
    <2>2. [a \in new |-> r.output_counter + Groups!Rank(s, new, a)] = ranked
      BY <1>2
    <2>3. Groups!name_outputs(r, s) =
            [r EXCEPT !.pending_outputs = Groups!Put(@, [a \in new |-> r.output_counter + Groups!Rank(s, new, a)]),
                      !.output_counter = @ + GP!Cardinality(new)]
      BY <1>1, <2>1 DEF Groups!name_outputs
    <2>4. GP!name_outputs(r, s) =
            [r EXCEPT !.pending_outputs = GP!Put(@, ranked), !.output_counter = @ + GP!Cardinality(new)]
      BY DEF GP!name_outputs
    <2> HIDE DEF new, ranked
    <2>5. QED BY <1>3, <2>2, <2>3, <2>4
  <1>5. \A r, lead : /\ Groups!with_group_name(r, lead) = GP!with_group_name(r, lead)
                     /\ Groups!group_name(r, lead) = GP!group_name(r, lead)
    BY DEF Groups!with_group_name, GP!with_group_name, Groups!group_name, GP!group_name,
           Groups!Put, GP!Put
  <1>6. QED BY <1>4, <1>5

LEMMA SameEviction ==
  \A r, G : Groups!evict_mrp_groups(r, G) = GP!evict_mrp_groups(r, G)
  BY DEF Groups!evict_mrp_groups, GP!evict_mrp_groups, Groups!Scrub, GP!Scrub, Groups!Claims,
         GP!Claims, Groups!Members, GP!Members, Groups!Range, GP!Range, Groups!Drop, GP!Drop,
         Groups!Restrict, GP!Restrict

LEMMA SameReplacement ==
  \A r, name, s, m : Groups!replace_group(r, name, s, m) = GP!replace_group(r, name, s, m)
  <1>1. /\ \A r, G : Groups!Scrub(r, G) = GP!Scrub(r, G)
        /\ \A r, name, s : Groups!Conflicting(r, name, s) = GP!Conflicting(r, name, s)
        /\ \A s : Groups!Range(s) = GP!Range(s)
        /\ \A f, g : Groups!Put(f, g) = GP!Put(f, g)
    BY DEF Groups!Scrub, GP!Scrub, Groups!Claims, GP!Claims, Groups!Members, GP!Members,
           Groups!Range, GP!Range, Groups!Conflicting, GP!Conflicting, Groups!Put, GP!Put
  <1>2. SUFFICES ASSUME NEW r, NEW name, NEW s, NEW m
                 PROVE  Groups!replace_group(r, name, s, m) = GP!replace_group(r, name, s, m)
    OBVIOUS
  <1> DEFINE evicted == GP!evict_mrp_groups(r, GP!Conflicting(r, name, s))
             released == GP!Scrub(evicted, {name})
             group == [g \in {name} |-> [addrs |-> s, moduli |-> m]]
             claims == [a \in DOMAIN released \cup GP!Range(s) |->
                          (IF a \in DOMAIN released THEN released[a] ELSE {})
                             \cup (IF a \in GP!Range(s) THEN {name} ELSE {})]
             replaced == [evicted EXCEPT !.known_mrp_groups = GP!Put(@, group),
                                         !.addr_to_mrp_groups = claims]
  <1>3. GP!replace_group(r, name, s, m) = replaced
    BY DEF GP!replace_group
  <1>4. Groups!evict_mrp_groups(r, Groups!Conflicting(r, name, s)) = evicted
    BY <1>1, SameEviction
  <1>5. Groups!Scrub(evicted, {name}) = released
    BY <1>1
  <1>6. Groups!replace_group(r, name, s, m) =
          [evicted EXCEPT !.known_mrp_groups = Groups!Put(@, group), !.addr_to_mrp_groups = claims]
    <2> HIDE DEF evicted, released
    <2>1. QED BY <1>1, <1>4, <1>5 DEF Groups!replace_group
  <1>7. QED
    <2> HIDE DEF evicted, group, claims
    <2>1. QED BY <1>1, <1>3, <1>6

LEMMA SameRegistration ==
  \A r, s, m : Groups!register_mrp_output_group(r, s, m) = GP!register_mrp_output_group(r, s, m)
  <1>1. \A r, name, s, m : Groups!identical(r, name, s, m) = GP!identical(r, name, s, m)
    BY DEF Groups!identical, GP!identical
  <1>2. QED
    BY <1>1, SameNaming, SameReplacement
    DEF Groups!register_mrp_output_group, GP!register_mrp_output_group

(* The leading addresses that have a name: those that had one, and the one of this group. *)
LEMMA NamedLeads ==
  ASSUME NEW r, DOMAIN r = GP!Fields, NEW s, NEW m
  PROVE  DOMAIN GP!register_mrp_output_group(r, s, m).mrp_out_names \subseteq DOMAIN r.mrp_out_names \cup {s[1]}
  <1> DEFINE named == GP!with_group_name(r, s[1])
             name == GP!group_name(r, s[1])
             replaced == GP!replace_group(named, name, s, m)
             q == GP!register_mrp_output_group(r, s, m)
  <1>1. DOMAIN named = GP!Fields /\ DOMAIN named.mrp_out_names \subseteq DOMAIN r.mrp_out_names \cup {s[1]}
    BY DEF GP!with_group_name, GP!Put, GP!Fields
  <1> HIDE DEF named, name
  <1>2. DOMAIN replaced = GP!Fields /\ replaced.mrp_out_names = named.mrp_out_names
    BY <1>1 DEF GP!replace_group, GP!evict_mrp_groups, GP!Fields
  <1> HIDE DEF replaced
  <1>3. GP!name_outputs(replaced, s).mrp_out_names = replaced.mrp_out_names
    BY <1>2 DEF GP!name_outputs, GP!Fields
  <1>4. q \in {named, replaced, GP!name_outputs(replaced, s)}
    BY DEF GP!register_mrp_output_group, named, name, replaced
  <1>5. QED BY <1>1, <1>2, <1>3, <1>4

(* The addresses of a group call: as many as its base, no two the same.                 *)
Residues(d, base) == d \in [DOMAIN base -> Mem!DevAddrs] /\ T!IsInjective(d)

LEMMA ResidueFacts ==
  ASSUME NEW base \in Bases, NEW d, Residues(d, base)
  PROVE  /\ DOMAIN d = DOMAIN base /\ Len(d) = Len(base) /\ Len(d) \in Nat \ {0} /\ DOMAIN d = 1..Len(d)
         /\ \A i \in DOMAIN d : base[i] \in AllModuli
  <1>1. base \in Seq(T!Range(base)) /\ Len(base) > 0
    BY BasesAssumption
  <1>2. DOMAIN base = 1..Len(base) /\ Len(base) \in Nat
    BY <1>1
  <1>3. \A i \in DOMAIN d : base[i] \in AllModuli
    BY DEF AllModuli, T!Range, Residues
  <1>4. DOMAIN d = DOMAIN base /\ Len(d) = Len(base)
    BY <1>2 DEF Residues
  <1>5. QED BY <1>1, <1>2, <1>3, <1>4

(* What storing a group does to the bookkeeping.                                       *)
Regroups(st, q, d, base) ==
  GP!Stored(st.reg, d, base, q.reg) /\ GP!Restored(st.reg, d, base, q.reg)

LEMMA RegisterStep ==
  ASSUME NEW st, Sound(st), Within(st), NEW base \in Bases, Len(base) > 1, NEW d, Residues(d, base),
         \A i \in DOMAIN d : d[i] \in BoundIn(st),
         NEW q, q = [st EXCEPT !.reg = Groups!register_mrp_output_group(@, d, base)]
  PROVE  /\ Sound(q) /\ Within(q) /\ q.err = st.err
         /\ Carries(st, q)
         /\ q.poly_map = st.poly_map /\ Regroups(st, q, d, base)
  <1> DEFINE r == GP!register_mrp_output_group(st.reg, d, base)
  <1>1. /\ DOMAIN q = SessionFields /\ q.reg = r
        /\ q.poly_map = st.poly_map /\ q.input_addrs = st.input_addrs /\ q.addr_modulus = st.addr_modulus
        /\ q.mrp_in = st.mrp_in /\ q.shadow_data = st.shadow_data /\ q.err = st.err
    BY SameRegistration DEF Sound, Typed, SessionFields
  <1>2. d \in GP!Distinct(base) /\ base \in {b \in Bases : Len(b) > 1}
    BY DEF Residues, GP!Distinct, T!IsInjective, GP!IsInjective
  <1>3. GP!Good(st.reg) /\ st.reg.pending_mrp_groups \subseteq GP!GroupNames(st.reg)
    BY DEF Sound, Booked
  <1>4. GP!Good(r) /\ GP!Stored(st.reg, d, base, r) /\ GP!Restored(st.reg, d, base, r)
    BY <1>2, <1>3, GP!RegisterStep, GroupBases
  <1>5. DOMAIN r.mrp_out_names \subseteq DOMAIN st.reg.mrp_out_names \cup {d[1]}
    BY <1>3, NamedLeads DEF GP!Good, GP!Known
  <1>6. GP!Range(d) \subseteq BoundIn(st) /\ d[1] \in BoundIn(st)
    <2>1. 1 \in DOMAIN d
      BY ResidueFacts DEF Residues
    <2>2. QED BY <2>1 DEF GP!Range
  <1> HIDE DEF r
  <1>7. Booked(r, BoundIn(st))
    BY <1>4, <1>6 DEF Sound, Booked, GP!Stored
  <1>8. Booked(q.reg, BoundIn(q)) /\ Rooted(q)
    BY <1>1, <1>5, <1>6, <1>7 DEF Sound, Rooted, BoundIn
  <1>9. Typed(q) /\ Moduled(q) /\ Within(q)
    BY <1>1 DEF Sound, Typed, Moduled, recorded_modulus, Within, BoundIn
  <1>10. Carries(st, q)
    BY <1>1 DEF Carries, Current, BoundIn
  <1>11. QED BY <1>1, <1>4, <1>8, <1>9, <1>10 DEF Sound, Regroups

-----------------------------------------------------------------------------
(* Operations. *)

MayWrite(d) == ~AnyDst => Places(d) \subseteq alloc_set

LEMMA StoreGroupStep ==
  ASSUME NEW st, Sound(st), Within(st), st.err = "Ok", NEW base \in Bases, NEW d, Residues(d, base),
         MayWrite(d), NEW vals, \A i \in DOMAIN d : vals[i] \in Poly,
         NEW q, q = store_mrp(st, d, vals, base)
  PROVE  /\ Sound(q) /\ Within(q) /\ q.err = "Ok"
         /\ GivesEach(st, q, d, vals)
         /\ Len(base) > 1 => Regroups(st, q, d, base)
  <1> DEFINE at(a) == CHOOSE i \in DOMAIN d : d[i] = a
             f == [a \in T!Range(d) |-> [val |-> vals[at(a)], mod |-> base[at(a)]]]
             stored == store_compute_result(st, f)
  <1>1. q = IF Len(d) = 1 THEN stored
            ELSE [stored EXCEPT !.reg = Groups!register_mrp_output_group(@, d, base)]
    BY DEF store_mrp
  <1>2. DOMAIN f = Places(d)
    BY DEF T!Range, Places
  <1>3. \A i \in DOMAIN d : at(d[i]) = i
    BY DEF Residues, T!IsInjective
  <1>4. \A i \in DOMAIN d : f[d[i]] = [val |-> vals[i], mod |-> base[i]]
    BY <1>2, <1>3 DEF Places, T!Range
  <1> HIDE DEF f
  <1>5. \A i \in DOMAIN d : f[d[i]] \in Recordings /\ f[d[i]].val = vals[i]
    <2>1. SUFFICES ASSUME NEW i \in DOMAIN d PROVE f[d[i]] \in Recordings /\ f[d[i]].val = vals[i]
      OBVIOUS
    <2>2. f[d[i]] = [val |-> vals[i], mod |-> base[i]] /\ vals[i] \in Poly /\ base[i] \in AllModuli
      BY <1>4, ResidueFacts
    <2>3. QED BY <2>2 DEF Recordings
  <1>6. Storable(f)
    <2>1. Places(d) \subseteq Mem!DevAddrs
      BY DEF Residues, Places
    <2>2. QED BY <1>2, <1>5, <2>1 DEF Storable, MayWrite, Places
  <1>7. /\ Sound(stored) /\ Within(stored) /\ stored.err = "Ok" /\ stored.reg = st.reg
        /\ Places(d) \subseteq BoundIn(stored)
        /\ \A tr, un, g : /\ Current(st, tr, un) /\ DOMAIN g \subseteq Places(d)
                          /\ \A a \in DOMAIN g : g[a] = f[a].val
                          => Current(stored, Given(tr, Places(d), g), un \cup Places(d))
    BY <1>2, <1>6, StoreStep DEF Gives
  <1> HIDE DEF stored
  <1>8. ASSUME NEW tr, NEW un, NEW g, Current(st, tr, un), DOMAIN g \subseteq Places(d),
               \A i \in DOMAIN d : d[i] \in DOMAIN g => g[d[i]] = vals[i]
        PROVE  Current(stored, Given(tr, Places(d), g), un \cup Places(d))
    BY <1>5, <1>7, <1>8 DEF Places
  <1>9. CASE Len(d) = 1
    <2>1. Len(base) = 1
      BY <1>9, ResidueFacts
    <2>2. QED BY <1>1, <1>7, <1>8, <1>9, <2>1 DEF GivesEach
  <1>10. CASE Len(d) # 1
    <2>1. Len(base) > 1 /\ \A i \in DOMAIN d : d[i] \in BoundIn(stored)
      <3>1. Len(d) = Len(base) /\ Len(d) \in Nat \ {0}
        BY ResidueFacts
      <3>2. \A i \in DOMAIN d : d[i] \in Places(d)
        BY DEF Places
      <3>3. QED BY <1>7, <1>10, <3>1, <3>2
    <2>2. /\ Sound(q) /\ Within(q) /\ q.err = stored.err
          /\ Carries(stored, q) /\ Regroups(stored, q, d, base)
      BY <1>1, <1>7, <1>10, <2>1, RegisterStep
    <2>3. QED BY <1>7, <1>8, <2>2 DEF GivesEach, Carries, Regroups
  <1>11. QED BY <1>9, <1>10

LEMMA OutcomeIs ==
  ASSUME NEW d, T!IsInjective(d), NEW ops
  PROVE  /\ DOMAIN Outcome(d, ops) \subseteq Places(d)
         /\ \A i \in DOMAIN d : d[i] \in DOMAIN Outcome(d, ops) =>
              /\ \A k \in DOMAIN ops : ops[k][i] \in DOMAIN truth
              /\ Outcome(d, ops)[d[i]] = Eval([k \in DOMAIN ops |-> truth[ops[k][i]]])
  <1> DEFINE defined == {i \in DOMAIN d : \A k \in DOMAIN ops : ops[k][i] \in DOMAIN truth}
             at(a) == CHOOSE j \in DOMAIN d : d[j] = a
  <1>1. Outcome(d, ops) = [a \in {d[i] : i \in defined} |->
                             Eval([k \in DOMAIN ops |-> truth[ops[k][at(a)]]])]
    BY DEF Outcome
  <1>2. DOMAIN Outcome(d, ops) = {d[i] : i \in defined}
    BY <1>1
  <1>3. \A i \in DOMAIN d : at(d[i]) = i /\ (d[i] \in {d[j] : j \in defined} => i \in defined)
    BY DEF T!IsInjective
  <1>4. \A a \in {d[i] : i \in defined} :
          Outcome(d, ops)[a] = Eval([k \in DOMAIN ops |-> truth[ops[k][at(a)]]])
    BY <1>1
  <1> HIDE DEF at
  <1>5. ASSUME NEW i \in DOMAIN d, d[i] \in DOMAIN Outcome(d, ops)
        PROVE  /\ \A k \in DOMAIN ops : ops[k][i] \in DOMAIN truth
               /\ Outcome(d, ops)[d[i]] = Eval([k \in DOMAIN ops |-> truth[ops[k][i]]])
    <2>1. i \in defined /\ at(d[i]) = i
      BY <1>2, <1>3, <1>5
    <2>2. Outcome(d, ops)[d[i]] = Eval([k \in DOMAIN ops |-> truth[ops[k][at(d[i])]]])
      BY <1>4, <2>1
    <2>3. QED BY <2>1, <2>2
  <1>6. QED BY <1>2, <1>5 DEF Places

(* What the program holds at the operands of residue i.                                 *)
Operands(ops, i) == [k \in DOMAIN ops |-> truth[ops[k][i]]]

LEMMA SingleOutcome ==
  ASSUME NEW d, NEW ops
  PROVE  /\ DOMAIN Outcome(<<d>>, ops) \subseteq {d}
         /\ d \in DOMAIN Outcome(<<d>>, ops) =>
              /\ \A k \in DOMAIN ops : ops[k][1] \in DOMAIN truth
              /\ Outcome(<<d>>, ops)[d] = Eval(Operands(ops, 1))
  <1> DEFINE t == <<d>>
  <1>1. T!IsInjective(t) /\ Places(t) = {d} /\ 1 \in DOMAIN t /\ t[1] = d
    BY DEF T!IsInjective, Places
  <1> HIDE DEF t
  <1>2. /\ DOMAIN Outcome(t, ops) \subseteq {d}
        /\ d \in DOMAIN Outcome(t, ops) =>
             /\ \A k \in DOMAIN ops : ops[k][1] \in DOMAIN truth
             /\ Outcome(t, ops)[d] = Eval(Operands(ops, 1))
    BY <1>1, OutcomeIs DEF Operands
  <1>3. QED BY <1>2 DEF t

(* Operands that are bound to the truth give a true result.                             *)
LEMMA TrueResult ==
  ASSUME NEW st, NEW un, Current(st, truth, un), NEW args,
         \A k \in DOMAIN args : args[k] \in DOMAIN truth /\ args[k] \in BoundIn(st)
  PROVE  Eval([k \in DOMAIN args |-> truth[args[k]]]) = Eval([k \in DOMAIN args |-> st.poly_map[args[k]].val])
  <1>1. \A k \in DOMAIN args : truth[args[k]] = st.poly_map[args[k]].val
    BY DEF Current
  <1>2. [k \in DOMAIN args |-> truth[args[k]]] = [k \in DOMAIN args |-> st.poly_map[args[k]].val]
    BY <1>1
  <1>3. QED BY <1>2

LEMMA ResultIsPoly ==
  ASSUME NEW st, Sound(st), NEW n \in Arity, NEW args, DOMAIN args = 1..n,
         \A k \in 1..n : args[k] \in BoundIn(st)
  PROVE  Eval([k \in DOMAIN args |-> st.poly_map[args[k]].val]) \in Poly
  <1>1. \A k \in 1..n : st.poly_map[args[k]].val \in Poly
    BY DEF Sound, Typed, Recordings
  <1>2. n \in 1..2
    BY ArityAssumption
  <1>3. [k \in DOMAIN args |-> st.poly_map[args[k]].val] \in [1..n -> Poly]
    BY <1>1
  <1>4. QED BY <1>2, <1>3, EvalAssumption

(* What an operation gives at its destinations, or leaves if it fails.                  *)
After(q, d, g) == IF q.err = "Ok" THEN Given(truth, Places(d), g) ELSE truth
UnflushedAfter(q, d) == IF q.err = "Ok" THEN unflushed \cup Places(d) ELSE unflushed

LEMMA ComputeStep ==
  ASSUME Shadows, NEW st, Sound(st), Within(st), NEW base \in Bases, NEW d, Residues(d, base),
         MayWrite(d), NEW k \in Arity, NEW ops, DOMAIN ops = 1..k, Len(ops) = k,
         \A j \in 1..k : Residues(ops[j], base), NEW n, NEW q, q = compute(st, d, ops, base, n)
  PROVE  /\ Sound(q) /\ Within(q)
         /\ Current(st, truth, unflushed) =>
              Current(q, After(q, d, Outcome(d, ops)), UnflushedAfter(q, d))
  <1> DEFINE left == build_mrp(st, ops[1], n)
             built == IF Len(ops) = 1 THEN left ELSE build_mrp(left, ops[2], n)
             val(i) == Eval([j \in DOMAIN ops |-> built.poly_map[ops[j][i]].val])
             vals == [i \in DOMAIN d |-> val(i)]
  <1>0. k \in 1..2
    BY ArityAssumption
  <1>1. /\ 1 \in 1..k
        /\ k # 1 => k = 2 /\ 2 \in 1..k
        /\ \A j \in 1..k : DOMAIN ops[j] = DOMAIN d /\ DOMAIN ops[j] \subseteq Nat
    <2>1. \A j \in 1..k : DOMAIN ops[j] = DOMAIN base
      BY DEF Residues
    <2>2. DOMAIN base = DOMAIN d /\ DOMAIN d \subseteq Nat
      BY ResidueFacts
    <2>3. QED BY <1>0, <2>1, <2>2
  <1>2. q = IF built.err # "Ok" THEN built ELSE store_mrp(built, d, vals, base)
    BY DEF compute
  <1>3. /\ Sound(left) /\ Within(left)
        /\ Carries(st, left)
        /\ left.err = "Ok" => \A i \in DOMAIN d : ops[1][i] \in BoundIn(left)
    <2>1. left = build_mrp(st, ops[1], n) /\ DOMAIN ops[1] = DOMAIN d /\ DOMAIN ops[1] \subseteq Nat
      BY <1>1
    <2> HIDE DEF left
    <2>2. QED BY <2>1, BuildStep
  <1> HIDE DEF left
  <1>4. /\ Sound(built) /\ Within(built)
        /\ Carries(st, built)
        /\ built.err = "Ok" => \A j \in 1..k, i \in DOMAIN d : ops[j][i] \in BoundIn(built)
    <2>1. CASE k = 1
      BY <1>3, <2>1
    <2>2. CASE k # 1
      <3>1. built = build_mrp(left, ops[2], n) /\ k = 2 /\ DOMAIN ops[2] = DOMAIN d /\ DOMAIN ops[2] \subseteq Nat
        <4>1. built = build_mrp(left, ops[2], n)
          BY <2>2
        <4>2. QED BY <1>1, <2>2, <4>1
      <3> HIDE DEF built
      <3>2. /\ Sound(built) /\ Within(built)
            /\ Carries(left, built)
            /\ BoundIn(left) \subseteq BoundIn(built)
            /\ built.err = "Ok" => left.err = "Ok" /\ \A i \in DOMAIN d : ops[2][i] \in BoundIn(built)
        BY <1>3, <3>1, BuildStep
      <3>3. \A j \in 1..k : j = 1 \/ j = 2
        BY <1>0
      <3>4. QED BY <1>3, <3>2, <3>3, CarriesOn
    <2>3. QED BY <2>1, <2>2
  <1> HIDE DEF built
  <1>5. CASE built.err # "Ok"
    BY <1>2, <1>4, <1>5 DEF Carries, After, UnflushedAfter
  <1>6. CASE built.err = "Ok"
    <2>1. \A i \in DOMAIN d : vals[i] \in Poly /\ vals[i] = val(i)
      <3>1. SUFFICES ASSUME NEW i \in DOMAIN d PROVE val(i) \in Poly
        OBVIOUS
      <3> DEFINE args == [j \in DOMAIN ops |-> ops[j][i]]
      <3>2. DOMAIN args = 1..k /\ \A j \in 1..k : args[j] = ops[j][i] /\ args[j] \in BoundIn(built)
        BY <1>4, <1>6
      <3>3. [j \in DOMAIN args |-> built.poly_map[args[j]].val] = [j \in DOMAIN ops |-> built.poly_map[ops[j][i]].val]
        BY <3>2
      <3> HIDE DEF args
      <3>4. Eval([j \in DOMAIN args |-> built.poly_map[args[j]].val]) \in Poly
        BY <1>4, <3>2, ResultIsPoly
      <3>5. QED BY <3>3, <3>4
    <2> HIDE DEF vals
    <2>2. q = store_mrp(built, d, vals, base)
      BY <1>2, <1>6
    <2>3. /\ Sound(q) /\ Within(q) /\ q.err = "Ok"
          /\ GivesEach(built, q, d, vals)
      <3>1. \A i \in DOMAIN d : vals[i] \in Poly
        BY <2>1
      <3>2. QED BY <1>4, <1>6, <2>2, <3>1, StoreGroupStep
    <2>4. ASSUME Current(st, truth, unflushed)
          PROVE  Current(q, Given(truth, Places(d), Outcome(d, ops)), unflushed \cup Places(d))
      <3>1. T!IsInjective(d) /\ Current(built, truth, unflushed)
        BY <1>4, <2>4 DEF Residues, Carries
      <3>2. DOMAIN Outcome(d, ops) \subseteq Places(d)
        BY <3>1, OutcomeIs
      <3>3. ASSUME NEW i \in DOMAIN d, d[i] \in DOMAIN Outcome(d, ops)
            PROVE  Outcome(d, ops)[d[i]] = vals[i]
        <4> DEFINE args == [j \in DOMAIN ops |-> ops[j][i]]
        <4>1. /\ \A j \in DOMAIN ops : ops[j][i] \in DOMAIN truth
              /\ Outcome(d, ops)[d[i]] = Eval([j \in DOMAIN ops |-> truth[ops[j][i]]])
          BY <3>1, <3>3, OutcomeIs
        <4>2. /\ DOMAIN args = DOMAIN ops
              /\ \A j \in DOMAIN args : args[j] = ops[j][i] /\ args[j] \in DOMAIN truth /\ args[j] \in BoundIn(built)
          BY <1>4, <1>6, <4>1
        <4>3. /\ [j \in DOMAIN args |-> truth[args[j]]] = [j \in DOMAIN ops |-> truth[ops[j][i]]]
              /\ [j \in DOMAIN args |-> built.poly_map[args[j]].val] = [j \in DOMAIN ops |-> built.poly_map[ops[j][i]].val]
          BY <4>2
        <4> HIDE DEF args
        <4>4. Eval([j \in DOMAIN args |-> truth[args[j]]]) = Eval([j \in DOMAIN args |-> built.poly_map[args[j]].val])
          BY <3>1, <4>2, TrueResult
        <4>5. QED BY <2>1, <4>1, <4>3, <4>4
      <3>4. QED BY <2>3, <3>1, <3>2, <3>3 DEF GivesEach
    <2>5. QED BY <2>3, <2>4 DEF After, UnflushedAfter
  <1>7. QED BY <1>5, <1>6

LEMMA StoreOneStep ==
  ASSUME NEW st, Sound(st), Within(st), st.err = "Ok", NEW d \in Mem!DevAddrs, ~AnyDst => d \in alloc_set,
         NEW v \in Poly, NEW m \in AllModuli,
         NEW q, q = store_compute_result(st, one(d, [val |-> v, mod |-> m]))
  PROVE  /\ Sound(q) /\ Within(q) /\ q.err = "Ok" /\ BoundIn(q) = BoundIn(st) \cup {d}
         /\ GivesOne(st, q, d, v)
  <1> DEFINE f == one(d, [val |-> v, mod |-> m])
  <1>1. DOMAIN f = {d} /\ f[d] = [val |-> v, mod |-> m]
    BY OneIs
  <1> HIDE DEF f
  <1>2. f[d] \in Recordings /\ f[d].val = v
    BY <1>1 DEF Recordings
  <1>3. Storable(f)
    BY <1>1, <1>2 DEF Storable
  <1>4. /\ Sound(q) /\ Within(q) /\ q.err = "Ok" /\ BoundIn(q) = BoundIn(st) \cup DOMAIN f
        /\ Gives(st, q, f)
    <2>1. q = store_compute_result(st, f)
      BY DEF f
    <2>2. QED BY ONLY Sound(st), Within(st), st.err = "Ok", <1>3, <2>1, StoreStep
  <1>5. ASSUME NEW tr, NEW un, NEW g, Current(st, tr, un), DOMAIN g \subseteq {d},
               d \in DOMAIN g => g[d] = v
        PROVE  Current(q, Given(tr, {d}, g), un \cup {d})
    <2>1. \A a \in DOMAIN g : g[a] = f[a].val
      BY <1>2, <1>5
    <2>2. QED BY <1>1, <1>4, <1>5, <2>1 DEF Gives
  <1>6. QED BY <1>1, <1>4, <1>5 DEF GivesOne

(* hazeAdd and its like, once the modulus index is found.                               *)
LEMMA SingleStep ==
  ASSUME Shadows, NEW st, Sound(st), Within(st), NEW d \in Mem!DevAddrs, ~AnyDst => d \in alloc_set,
         NEW m \in AllModuli, NEW k \in Arity, NEW srcs, DOMAIN srcs = 1..k, NEW n,
         NEW found, found = lookup_or_create(st, srcs, n),
         NEW v, v = Eval([j \in DOMAIN srcs |-> found.poly_map[srcs[j]].val]),
         NEW q, q = IF found.err # "Ok" THEN found
                    ELSE store_compute_result(found, one(d, [val |-> v, mod |-> m])),
         NEW ops, ops = [j \in DOMAIN srcs |-> <<srcs[j]>>]
  PROVE  /\ Sound(q) /\ Within(q)
         /\ Current(st, truth, unflushed) =>
              Current(q, After(q, <<d>>, Outcome(<<d>>, ops)), UnflushedAfter(q, <<d>>))
  <1>1. /\ Sound(found) /\ Within(found)
        /\ Carries(st, found)
        /\ found.err = "Ok" => \A j \in 1..k : srcs[j] \in BoundIn(found)
    <2>1. DOMAIN srcs \subseteq Nat
      BY ArityAssumption
    <2>2. QED BY <2>1, LookupStep
  <1>2. CASE found.err # "Ok"
    BY <1>1, <1>2 DEF Carries, After, UnflushedAfter
  <1>3. CASE found.err = "Ok"
    <2>1. v \in Poly
      BY <1>1, <1>3, ResultIsPoly
    <2>2. q = store_compute_result(found, one(d, [val |-> v, mod |-> m]))
      BY <1>3
    <2>3. /\ Sound(q) /\ Within(q) /\ q.err = "Ok"
          /\ GivesOne(found, q, d, v)
      BY <1>1, <1>3, <2>1, <2>2, StoreOneStep
    <2>4. ASSUME Current(st, truth, unflushed)
          PROVE  Current(q, Given(truth, {d}, Outcome(<<d>>, ops)), unflushed \cup {d})
      <3> DEFINE g == Outcome(<<d>>, ops)
      <3>2. /\ DOMAIN g \subseteq {d}
            /\ d \in DOMAIN g => /\ \A j \in DOMAIN ops : ops[j][1] \in DOMAIN truth
                                 /\ g[d] = Eval(Operands(ops, 1))
        BY SingleOutcome
      <3>3. DOMAIN ops = DOMAIN srcs /\ \A j \in DOMAIN srcs : ops[j][1] = srcs[j]
        OBVIOUS
      <3>4. Operands(ops, 1) = [j \in DOMAIN srcs |-> truth[srcs[j]]]
        BY <3>3 DEF Operands
      <3> HIDE DEF g
      <3>5. Current(found, truth, unflushed)
        BY <1>1, <2>4 DEF Carries
      <3>6. ASSUME d \in DOMAIN g PROVE g[d] = v
        <4>1. \A j \in DOMAIN srcs : srcs[j] \in DOMAIN truth /\ srcs[j] \in BoundIn(found)
          BY <1>1, <1>3, <3>2, <3>3, <3>6
        <4>2. Eval([j \in DOMAIN srcs |-> truth[srcs[j]]]) = v
          BY <3>5, <4>1, TrueResult
        <4>3. QED BY <3>2, <3>4, <3>6, <4>2
      <3>7. Current(q, Given(truth, {d}, g), unflushed \cup {d})
        BY <2>3, <3>2, <3>5, <3>6 DEF GivesOne
      <3>8. QED BY <3>7 DEF g
    <2>5. Places(<<d>>) = {d}
      BY DEF Places
    <2>6. QED BY <2>3, <2>4, <2>5 DEF After, UnflushedAfter
  <1>4. QED BY <1>2, <1>3

LEMMA RecordedModulusIs ==
  ASSUME NEW st, Sound(st), NEW a
  PROVE  recorded_modulus(st, a) \in AllModuli
  BY DEF Sound, Typed, recorded_modulus, AllModuli

LEMMA AutomorphStep ==
  ASSUME Shadows, NEW st, Sound(st), Within(st), NEW d \in Mem!DevAddrs, ~AnyDst => d \in alloc_set,
         NEW s, NEW n, NEW q, q = automorph(st, d, s, n)
  PROVE  /\ Sound(q) /\ Within(q)
         /\ Current(st, truth, unflushed) =>
              Current(q, After(q, <<d>>, Outcome(<<d>>, <<<<s>>>>)), UnflushedAfter(q, <<d>>))
  <1> DEFINE found == lookup_or_create(st, <<s>>, n)
             m == recorded_modulus(found, s)
             bound == bind_modulus(found, s, m)
             v == Eval(<<found.poly_map[s].val>>)
  <1>1. q = IF found.err # "Ok" THEN found
            ELSE store_compute_result(bound, one(d, [val |-> v, mod |-> m]))
    BY DEF automorph
  <1>2. /\ Sound(found) /\ Within(found)
        /\ Carries(st, found)
        /\ found.err = "Ok" => s \in BoundIn(found)
    <2>1. DOMAIN <<s>> \subseteq Nat /\ 1 \in DOMAIN <<s>> /\ <<s>>[1] = s
      OBVIOUS
    <2> DEFINE look == lookup_or_create(st, <<s>>, n)
    <2>2. found = look
      OBVIOUS
    <2> HIDE DEF found
    <2>3. QED BY <2>1, <2>2, LookupStep
  <1> HIDE DEF found
  <1>3. CASE found.err # "Ok"
    BY <1>1, <1>2, <1>3 DEF Carries, After, UnflushedAfter
  <1>4. CASE found.err = "Ok"
    <2>1. m \in AllModuli /\ m = recorded_modulus(found, s)
      BY <1>2, RecordedModulusIs
    <2> HIDE DEF m
    <2>2. /\ Sound(bound) /\ Within(bound) /\ bound.err = "Ok"
          /\ Carries(found, bound)
      <3>1. bound = bind_modulus(found, s, m)
        OBVIOUS
      <3> HIDE DEF bound
      <3>2. QED BY <1>2, <1>4, <2>1, <3>1, BindStep
    <2>3. v \in Poly
      <3>1. found.poly_map[s].val \in Poly
        BY <1>2, <1>4 DEF Sound, Typed, Recordings
      <3>2. <<found.poly_map[s].val>> \in [1..1 -> Poly] /\ 1 \in 1..2
        BY <3>1
      <3>3. QED BY <3>2, EvalAssumption
    <2> HIDE DEF bound
    <2>4. ASSUME Current(st, truth, unflushed), d \in DOMAIN Outcome(<<d>>, <<<<s>>>>)
          PROVE  Outcome(<<d>>, <<<<s>>>>)[d] = v
      <3> DEFINE ops == <<<<s>>>>
      <3>1. DOMAIN ops = {1} /\ ops[1][1] = s
        OBVIOUS
      <3> HIDE DEF ops
      <3>2. /\ \A j \in DOMAIN ops : ops[j][1] \in DOMAIN truth
            /\ Outcome(<<d>>, ops)[d] = Eval(Operands(ops, 1))
        BY <2>4, SingleOutcome DEF ops
      <3>3. s \in DOMAIN truth /\ Operands(ops, 1) = [j \in {1} |-> truth[s]]
        BY <3>1, <3>2 DEF Operands
      <3>4. truth[s] = found.poly_map[s].val
        BY <1>2, <1>4, <2>4, <3>3 DEF Carries, Current
      <3>5. v = Eval([j \in {1} |-> truth[s]])
        <4>1. <<found.poly_map[s].val>> = [j \in {1} |-> truth[s]]
          BY <3>4
        <4>2. QED BY <4>1
      <3>6. QED BY <3>2, <3>3, <3>5 DEF ops
    <2>5. /\ DOMAIN Outcome(<<d>>, <<<<s>>>>) \subseteq {d}
          /\ Places(<<d>>) = {d}
      BY SingleOutcome DEF Places
    <2> HIDE DEF v
    <2>6. q = store_compute_result(bound, one(d, [val |-> v, mod |-> m]))
      BY <1>1, <1>4
    <2>7. /\ Sound(q) /\ Within(q) /\ q.err = "Ok"
          /\ GivesOne(bound, q, d, v)
      BY <2>1, <2>2, <2>3, <2>6, StoreOneStep
    <2>8. Current(st, truth, unflushed) =>
            Current(q, Given(truth, {d}, Outcome(<<d>>, <<<<s>>>>)), unflushed \cup {d})
      BY <1>2, <2>2, <2>4, <2>5, <2>7 DEF GivesOne, Carries
    <2>9. QED BY <2>5, <2>7, <2>8 DEF After, UnflushedAfter
  <1>5. QED BY <1>3, <1>4

-----------------------------------------------------------------------------
(* Copies. *)

LEMMA LookupOne ==
  ASSUME Shadows, NEW st, Sound(st), Within(st), NEW s, NEW n,
         NEW found, found = lookup_or_create(st, <<s>>, n)
  PROVE  /\ Sound(found) /\ Within(found)
         /\ Carries(st, found)
         /\ BoundIn(st) \subseteq BoundIn(found)
         /\ found.err = "Ok" => st.err = "Ok" /\ s \in BoundIn(found)
  <1> DEFINE t == <<s>>
  <1>1. DOMAIN t \subseteq Nat /\ 1 \in DOMAIN t /\ t[1] = s
    OBVIOUS
  <1>2. found = lookup_or_create(st, t, n)
    OBVIOUS
  <1> HIDE DEF t
  <1>3. QED BY <1>1, <1>2, LookupStep

(* A copy records the modulus it is made under for its source, too.                     *)
Rebound(st, s, m) == [bind_modulus(st, s, m) EXCEPT !.addr_modulus = T!Put(@, one(s, m))]

LEMMA RebindStep ==
  ASSUME NEW st, Sound(st), Within(st), NEW s \in BoundIn(st), NEW m \in AllModuli, m # CopyModulus,
         NEW q, q = Rebound(st, s, m)
  PROVE  /\ Sound(q) /\ Within(q) /\ q.err = st.err /\ BoundIn(q) = BoundIn(st)
         /\ Carries(st, q)
  <1> DEFINE moduli == T!Put(st.addr_modulus, one(s, m))
  <1>1. /\ DOMAIN q = SessionFields
        /\ q.poly_map = [st.poly_map EXCEPT ![s].mod = m] /\ q.addr_modulus = moduli
        /\ q.reg = st.reg /\ q.input_addrs = st.input_addrs /\ q.mrp_in = st.mrp_in
        /\ q.shadow_data = st.shadow_data /\ q.err = st.err
    BY DEF Rebound, bind_modulus, Sound, Typed, SessionFields
  <1>2. DOMAIN moduli = DOMAIN st.addr_modulus \cup {s} /\ moduli[s] = m
        /\ \A a \in DOMAIN st.addr_modulus \ {s} : moduli[a] = st.addr_modulus[a]
    BY OneIs DEF T!Put
  <1> HIDE DEF moduli
  <1>3. /\ BoundIn(q) = BoundIn(st)
        /\ \A a \in BoundIn(st) \ {s} : q.poly_map[a] = st.poly_map[a]
        /\ q.poly_map[s] = [st.poly_map[s] EXCEPT !.mod = m]
    BY <1>1 DEF BoundIn
  <1>4. st.poly_map[s] \in Recordings
    BY DEF Sound, Typed
  <1>5. q.poly_map[s] \in Recordings /\ q.poly_map[s].val = st.poly_map[s].val /\ q.poly_map[s].mod = m
    BY <1>3, <1>4 DEF Recordings
  <1>6. \A a \in BoundIn(st) : q.poly_map[a].val = st.poly_map[a].val
    BY <1>3, <1>5
  <1>7. Typed(q)
    BY <1>1, <1>2, <1>3, <1>5 DEF Sound, Typed
  <1>8. Rooted(q) /\ Booked(q.reg, BoundIn(q)) /\ Within(q)
    BY <1>1, <1>2, <1>3 DEF Sound, Rooted, Booked, Within
  <1>9. Moduled(q)
    <2>1. SUFFICES ASSUME NEW a \in BoundIn(q) \ q.input_addrs
                   PROVE  recorded_modulus(q, a) = q.poly_map[a].mod
      BY DEF Moduled
    <2>2. CASE a = s
      BY <1>1, <1>2, <1>5, <2>2 DEF recorded_modulus
    <2>3. CASE a # s
      <3>1. a \in BoundIn(st) \ st.input_addrs /\ q.poly_map[a] = st.poly_map[a]
        BY <1>1, <1>3, <2>1, <2>3
      <3>2. recorded_modulus(q, a) = recorded_modulus(st, a)
        BY <1>1, <1>2, <2>3 DEF recorded_modulus
      <3>3. QED BY <3>1, <3>2 DEF Sound, Moduled
    <2>4. QED BY <2>2, <2>3
  <1>10. Carries(st, q)
    BY <1>1, <1>3, <1>6 DEF Carries, Current
  <1>11. QED BY <1>1, <1>3, <1>7, <1>8, <1>9, <1>10 DEF Sound

(* After q copied s to d, d holds what s held, where that is known.                     *)
Copies(st, q, d, s) ==
  \A tr, un, g : /\ Current(st, tr, un)
                 /\ DOMAIN g \subseteq {d} /\ (d \in DOMAIN g => s \in DOMAIN tr /\ g[d] = tr[s])
                 => Current(q, Given(tr, {d}, g), un \cup {d})

LEMMA CopyStep ==
  ASSUME Shadows, NEW st, Sound(st), Within(st), NEW d \in Mem!DevAddrs, ~AnyDst => d \in alloc_set,
         NEW s, NEW m \in AllModuli, NEW n, NEW q, q = copy_result(st, d, s, m, n)
  PROVE  /\ Sound(q) /\ Within(q)
         /\ q.err # "Ok" => Carries(st, q)
         /\ q.err = "Ok" => /\ st.err = "Ok" /\ BoundIn(st) \cup {d} \subseteq BoundIn(q)
                            /\ Copies(st, q, d, s)
  <1> DEFINE found == lookup_or_create(st, <<s>>, n)
             r == IF m = CopyModulus THEN recorded_modulus(found, s) ELSE m
             bound == IF r = CopyModulus THEN found
                      ELSE [bind_modulus(found, s, r) EXCEPT !.addr_modulus = T!Put(@, one(s, r))]
             v == found.poly_map[s].val
  <1>1. q = IF found.err # "Ok" THEN found
            ELSE store_compute_result(bound, one(d, [val |-> v, mod |-> r]))
    BY DEF copy_result
  <1>2. /\ Sound(found) /\ Within(found)
        /\ Carries(st, found)
        /\ BoundIn(st) \subseteq BoundIn(found)
        /\ found.err = "Ok" => st.err = "Ok" /\ s \in BoundIn(found)
    BY LookupOne
  <1> HIDE DEF found
  <1>3. CASE found.err # "Ok"
    BY <1>1, <1>2, <1>3
  <1>4. CASE found.err = "Ok"
    <2>1. r \in AllModuli
      BY <1>2, RecordedModulusIs
    <2> HIDE DEF r
    <2>2. /\ Sound(bound) /\ Within(bound) /\ bound.err = "Ok" /\ BoundIn(bound) = BoundIn(found)
          /\ Carries(found, bound)
      <3>1. CASE r = CopyModulus
        BY <1>2, <1>4, <3>1 DEF Carries
      <3>2. CASE r # CopyModulus
        <4>1. bound = Rebound(found, s, r)
          BY <3>2 DEF Rebound
        <4> HIDE DEF bound
        <4>2. Sound(found) /\ Within(found) /\ s \in BoundIn(found) /\ found.err = "Ok"
          BY <1>2, <1>4
        <4>3. QED BY ONLY <2>1, <3>2, <4>1, <4>2, RebindStep
      <3>3. QED BY <3>1, <3>2
    <2> HIDE DEF bound
    <2>3. v \in Poly
      BY <1>2, <1>4 DEF Sound, Typed, Recordings
    <2> HIDE DEF v
    <2>4. q = store_compute_result(bound, one(d, [val |-> v, mod |-> r]))
      BY <1>1, <1>4
    <2>5. /\ Sound(q) /\ Within(q) /\ q.err = "Ok" /\ BoundIn(q) = BoundIn(bound) \cup {d}
          /\ GivesOne(bound, q, d, v)
      BY <2>1, <2>2, <2>3, <2>4, StoreOneStep
    <2>6. ASSUME NEW tr, NEW un, NEW g, Current(st, tr, un), DOMAIN g \subseteq {d},
                 d \in DOMAIN g => s \in DOMAIN tr /\ g[d] = tr[s]
          PROVE  Current(q, Given(tr, {d}, g), un \cup {d})
      <3>1. Current(found, tr, un) /\ Current(bound, tr, un)
        BY <1>2, <2>2, <2>6 DEF Carries
      <3>2. s \in DOMAIN tr => tr[s] = v
        BY <1>2, <1>4, <3>1 DEF Current, v
      <3>3. QED BY <2>5, <2>6, <3>1, <3>2 DEF GivesOne
    <2>7. Copies(st, q, d, s)
      BY <2>6 DEF Copies
    <2>8. QED BY <1>2, <1>4, <2>2, <2>5, <2>7
  <1>5. QED BY <1>3, <1>4

LEMMA CopyOfIs ==
  ASSUME NEW f, NEW d, NEW s
  PROVE  \A a \in DOMAIN CopyOf(f, d, s) :
           IF a = d THEN s \in DOMAIN f /\ CopyOf(f, d, s)[a] = f[s]
           ELSE a \in DOMAIN f /\ CopyOf(f, d, s)[a] = f[a]
  <1>1. CASE s \in DOMAIN f
    <2> DEFINE g == one(d, f[s])
    <2>1. CopyOf(f, d, s) = T!Put(f, g) /\ DOMAIN g = {d} /\ g[d] = f[s]
      BY <1>1, OneIs DEF CopyOf
    <2> HIDE DEF g
    <2>2. QED BY <1>1, <2>1 DEF T!Put
  <1>2. CASE s \notin DOMAIN f
    <2>1. CopyOf(f, d, s) = T!Drop(f, {d})
      BY <1>2 DEF CopyOf
    <2>2. QED BY <2>1 DEF T!Drop, T!Restrict
  <1>3. QED BY <1>1, <1>2

LEMMA CopyKeeps ==
  ASSUME NEW f, NEW d, NEW s, NEW a \in DOMAIN f, a # d
  PROVE  a \in DOMAIN CopyOf(f, d, s) /\ CopyOf(f, d, s)[a] = f[a]
  <1>1. CASE s \in DOMAIN f
    <2> DEFINE g == one(d, f[s])
    <2>1. CopyOf(f, d, s) = T!Put(f, g) /\ DOMAIN g = {d}
      BY <1>1, OneIs DEF CopyOf
    <2> HIDE DEF g
    <2>2. QED BY <2>1 DEF T!Put
  <1>2. CASE s \notin DOMAIN f
    <2>1. CopyOf(f, d, s) = T!Drop(f, {d})
      BY <1>2 DEF CopyOf
    <2>2. QED BY <2>1 DEF T!Drop, T!Restrict
  <1>3. QED BY <1>1, <1>2

(* The truth of a copy, as the truths after each copy of a group are made.               *)
LEMMA CopiedCurrent ==
  ASSUME NEW st, NEW q, NEW d, NEW s, Copies(st, q, d, s), NEW tr, NEW un, Current(st, tr, un)
  PROVE  Current(q, CopyOf(tr, d, s), un \cup {d})
  <1> DEFINE new == CopyOf(tr, d, s)
             g == [a \in DOMAIN new \cap {d} |-> new[a]]
             given == Given(tr, {d}, g)
  <1>1. /\ DOMAIN given = (DOMAIN tr \ {d}) \cup DOMAIN g
        /\ \A a \in DOMAIN g : given[a] = g[a]
        /\ \A a \in (DOMAIN tr \ {d}) \ DOMAIN g : given[a] = tr[a]
    BY DEF Given, T!Put, T!Drop, T!Restrict
  <1>2. \A a \in DOMAIN new : IF a = d THEN s \in DOMAIN tr /\ new[a] = tr[s]
                              ELSE a \in DOMAIN tr /\ new[a] = tr[a]
    BY CopyOfIs
  <1> HIDE DEF new
  <1>3. DOMAIN g = DOMAIN new \cap {d} /\ \A a \in DOMAIN g : g[a] = new[a]
    OBVIOUS
  <1> HIDE DEF g
  <1>4. Current(q, given, un \cup {d})
    BY <1>2, <1>3 DEF Copies
  <1> HIDE DEF given
  <1>5. \A a \in DOMAIN new : a \in DOMAIN given /\ given[a] = new[a]
    BY <1>1, <1>2, <1>3
  <1>6. Current(q, new, un \cup {d})
    BY <1>4, <1>5 DEF Current
  <1>7. QED BY <1>6 DEF new

(* The copies of a group one by one: the sessions, and the truths, after each of them.   *)
LEMMA CopiesAre ==
  ASSUME NEW st, NEW d, NEW s, NEW base, NEW n, Len(d) \in Nat
  PROVE  /\ copies(st, d, s, base, n)[0] = st
         /\ \A i \in 1..Len(d) : copies(st, d, s, base, n)[i] =
              copy_result(copies(st, d, s, base, n)[i - 1], d[i], s[i], base[i], n)
  <1> DEFINE Is(f, k) == f = [i \in 0..k |-> IF i = 0 THEN st ELSE copy_result(f[i - 1], d[i], s[i], base[i], n)]
             short == {k \in 0..Len(d) : ~ \E f : Is(f, k)}
  <1>1. short = {}
    <2>1. SUFFICES ASSUME short # {} PROVE FALSE
      OBVIOUS
    <2>2. short \subseteq Nat
      OBVIOUS
    <2>3. \E x \in short : \A y \in short : x <= y
      <3> HIDE DEF short
      <3>1. QED BY <2>1, <2>2, Least
    <2>4. PICK k \in short : \A y \in short : k <= y
      BY <2>3
    <2>5. k \in 0..Len(d) /\ ~ \E f : Is(f, k)
      OBVIOUS
    <2>6. CASE k = 0
      <3>1. Is([i \in 0..0 |-> st], 0)
        OBVIOUS
      <3>2. QED BY <2>5, <2>6, <3>1
    <2>7. CASE k # 0
      <3>1. k - 1 \in 0..Len(d) /\ ~(k <= k - 1)
        BY <2>5, <2>7
      <3>2. PICK f : Is(f, k - 1)
        BY <2>4, <3>1
      <3> DEFINE g == [i \in 0..k |-> IF i = k THEN copy_result(f[k - 1], d[k], s[k], base[k], n) ELSE f[i]]
      <3>3. DOMAIN f = 0..(k - 1) /\ f[0] = st
            /\ \A i \in 1..(k - 1) : f[i] = copy_result(f[i - 1], d[i], s[i], base[i], n)
        BY <2>5, <2>7, <3>2
      <3>4. \A i \in 0..k : g[i] = IF i = 0 THEN st ELSE copy_result(g[i - 1], d[i], s[i], base[i], n)
        <4>1. SUFFICES ASSUME NEW i \in 0..k
                       PROVE  g[i] = IF i = 0 THEN st ELSE copy_result(g[i - 1], d[i], s[i], base[i], n)
          OBVIOUS
        <4>2. CASE i = 0
          BY <2>5, <2>7, <3>3, <4>2
        <4>3. CASE i = k
          <5>1. g[k - 1] = f[k - 1]
            BY <2>5, <2>7
          <5>2. QED BY <2>7, <4>3, <5>1
        <4>4. CASE i # 0 /\ i # k
          <5>1. i \in 1..(k - 1) /\ g[i] = f[i] /\ g[i - 1] = f[i - 1]
            BY <2>5, <4>1, <4>4
          <5>2. QED BY <3>3, <4>4, <5>1
        <4>5. QED BY <4>2, <4>3, <4>4
      <3>5. Is(g, k)
        <4>1. g = [i \in 0..k |-> g[i]]
          OBVIOUS
        <4> HIDE DEF g
        <4>2. QED BY <3>4, <4>1
      <3>6. QED BY <2>5, <3>5
    <2>8. QED BY <2>6, <2>7
  <1>2. \E f : Is(f, Len(d))
    BY <1>1
  <1>3. Is(copies(st, d, s, base, n), Len(d))
    BY <1>2 DEF copies
  <1>4. QED BY <1>3

LEMMA TruthsAre ==
  ASSUME NEW d, NEW s, Len(d) \in Nat
  PROVE  /\ CopiedTruth(d, s)[0] = truth
         /\ \A i \in 1..Len(d) : CopiedTruth(d, s)[i] = CopyOf(CopiedTruth(d, s)[i - 1], d[i], s[i])
  <1> DEFINE Is(f, k) == f = [i \in 0..k |-> IF i = 0 THEN truth ELSE CopyOf(f[i - 1], d[i], s[i])]
             short == {k \in 0..Len(d) : ~ \E f : Is(f, k)}
  <1>1. short = {}
    <2>1. SUFFICES ASSUME short # {} PROVE FALSE
      OBVIOUS
    <2>2. short \subseteq Nat
      OBVIOUS
    <2>3. \E x \in short : \A y \in short : x <= y
      <3> HIDE DEF short
      <3>1. QED BY <2>1, <2>2, Least
    <2>4. PICK k \in short : \A y \in short : k <= y
      BY <2>3
    <2>5. k \in 0..Len(d) /\ ~ \E f : Is(f, k)
      OBVIOUS
    <2>6. CASE k = 0
      <3>1. Is([i \in 0..0 |-> truth], 0)
        OBVIOUS
      <3>2. QED BY <2>5, <2>6, <3>1
    <2>7. CASE k # 0
      <3>1. k - 1 \in 0..Len(d) /\ ~(k <= k - 1)
        BY <2>5, <2>7
      <3>2. PICK f : Is(f, k - 1)
        BY <2>4, <3>1
      <3> DEFINE g == [i \in 0..k |-> IF i = k THEN CopyOf(f[k - 1], d[k], s[k]) ELSE f[i]]
      <3>3. DOMAIN f = 0..(k - 1) /\ f[0] = truth
            /\ \A i \in 1..(k - 1) : f[i] = CopyOf(f[i - 1], d[i], s[i])
        BY <2>5, <2>7, <3>2
      <3>4. \A i \in 0..k : g[i] = IF i = 0 THEN truth ELSE CopyOf(g[i - 1], d[i], s[i])
        <4>1. SUFFICES ASSUME NEW i \in 0..k
                       PROVE  g[i] = IF i = 0 THEN truth ELSE CopyOf(g[i - 1], d[i], s[i])
          OBVIOUS
        <4>2. CASE i = 0
          BY <2>5, <2>7, <3>3, <4>2
        <4>3. CASE i = k
          <5>1. g[k - 1] = f[k - 1]
            BY <2>5, <2>7
          <5>2. QED BY <2>7, <4>3, <5>1
        <4>4. CASE i # 0 /\ i # k
          <5>1. i \in 1..(k - 1) /\ g[i] = f[i] /\ g[i - 1] = f[i - 1]
            BY <2>5, <4>1, <4>4
          <5>2. QED BY <3>3, <4>4, <5>1
        <4>5. QED BY <4>2, <4>3, <4>4
      <3>5. Is(g, k)
        <4>1. g = [i \in 0..k |-> g[i]]
          OBVIOUS
        <4> HIDE DEF g
        <4>2. QED BY <3>4, <4>1
      <3>6. QED BY <2>5, <3>5
    <2>8. QED BY <2>6, <2>7
  <1>2. \E f : Is(f, Len(d))
    BY <1>1
  <1>3. Is(CopiedTruth(d, s), Len(d))
    BY <1>2 DEF CopiedTruth
  <1>4. QED BY <1>3

(* What a group copy makes of the truth: a group that fails half-way is not defined.     *)
AfterCopies(q, d, s) ==
  IF q.err = "Ok" THEN CopiedTruth(d, s)[Len(d)] ELSE T!Drop(truth, Places(d))

LEMMA CopiesStep ==
  ASSUME Shadows, NEW st, Sound(st), Within(st), NEW base \in Bases, NEW d, Residues(d, base),
         MayWrite(d), NEW s, NEW n, NEW q, q = copies(st, d, s, base, n)[Len(d)]
  PROVE  /\ Sound(q) /\ Within(q)
         /\ q.err = "Ok" => \A i \in DOMAIN d : d[i] \in BoundIn(q)
         /\ Current(st, truth, unflushed) => Current(q, AfterCopies(q, d, s), unflushed \cup Places(d))
  <1> DEFINE N == Len(d)
             c == copies(st, d, s, base, n)
             t == CopiedTruth(d, s)
             D(i) == {d[j] : j \in 1..i}
             gone == T!Drop(truth, Places(d))
             K(i) ==
               /\ Sound(c[i]) /\ Within(c[i])
               /\ c[i].err = "Ok" => \A j \in 1..i : d[j] \in BoundIn(c[i])
               /\ \A a \in DOMAIN truth \ Places(d) : a \in DOMAIN t[i] /\ t[i][a] = truth[a]
               /\ Current(st, truth, unflushed) =>
                    IF c[i].err = "Ok" THEN Current(c[i], t[i], unflushed \cup D(i))
                    ELSE Current(c[i], gone, unflushed \cup Places(d))
             bad == {i \in 0..N : ~K(i)}
  <1>1. /\ N \in Nat \ {0} /\ DOMAIN d = 1..N
        /\ \A i \in 1..N : d[i] \in Mem!DevAddrs /\ (~AnyDst => d[i] \in alloc_set) /\ d[i] \in Places(d)
        /\ \A i \in 1..N : base[i] \in AllModuli
    <2>1. N \in Nat \ {0} /\ DOMAIN d = 1..N /\ DOMAIN d = DOMAIN base /\ \A i \in DOMAIN d : base[i] \in AllModuli
      BY ResidueFacts
    <2>2. \A i \in DOMAIN d : d[i] \in Mem!DevAddrs /\ d[i] \in Places(d)
      BY <2>1 DEF Residues, Places
    <2>3. QED BY <2>1, <2>2 DEF MayWrite
  <1>2. c[0] = st /\ \A i \in 1..N : c[i] = copy_result(c[i - 1], d[i], s[i], base[i], n)
    BY <1>1, CopiesAre
  <1>3. t[0] = truth /\ \A i \in 1..N : t[i] = CopyOf(t[i - 1], d[i], s[i])
    BY <1>1, TruthsAre
  <1>4. \A a \in DOMAIN gone : a \in DOMAIN truth \ Places(d) /\ gone[a] = truth[a]
    BY DEF T!Drop, T!Restrict
  <1> HIDE DEF c, t, gone
  <1>5. K(0)
    <2>1. D(0) = {}
      OBVIOUS
    <2>2. Current(st, truth, unflushed) /\ c[0].err # "Ok" => Current(c[0], gone, unflushed \cup Places(d))
      BY <1>2, <1>4 DEF Current
    <2>3. QED BY <1>2, <1>3, <2>1, <2>2
  <1>6. ASSUME NEW i \in 1..N, K(i - 1) PROVE K(i)
    <2>1. /\ Sound(c[i - 1]) /\ Within(c[i - 1]) /\ c[i] = copy_result(c[i - 1], d[i], s[i], base[i], n)
          /\ d[i] \in Mem!DevAddrs /\ (~AnyDst => d[i] \in alloc_set) /\ base[i] \in AllModuli
      BY <1>1, <1>2, <1>6
    <2>2. /\ Sound(c[i]) /\ Within(c[i])
          /\ c[i].err # "Ok" => Carries(c[i - 1], c[i])
          /\ c[i].err = "Ok" => /\ c[i - 1].err = "Ok" /\ BoundIn(c[i - 1]) \cup {d[i]} \subseteq BoundIn(c[i])
                                /\ Copies(c[i - 1], c[i], d[i], s[i])
      BY <2>1, CopyStep
    <2>3. c[i].err = "Ok" => \A j \in 1..i : d[j] \in BoundIn(c[i])
      <3>1. \A j \in 1..i : j \in 1..(i - 1) \/ j = i
        OBVIOUS
      <3>2. QED BY <1>6, <2>2, <3>1
    <2>4. \A a \in DOMAIN truth \ Places(d) : a \in DOMAIN t[i] /\ t[i][a] = truth[a]
      <3>1. t[i] = CopyOf(t[i - 1], d[i], s[i])
        BY <1>3
      <3>2. SUFFICES ASSUME NEW a \in DOMAIN truth \ Places(d)
                     PROVE  a \in DOMAIN t[i] /\ t[i][a] = truth[a]
        OBVIOUS
      <3>3. a \in DOMAIN t[i - 1] /\ t[i - 1][a] = truth[a] /\ a # d[i]
        BY <1>1, <1>6
      <3>4. QED BY <3>1, <3>3, CopyKeeps
    <2>5. ASSUME Current(st, truth, unflushed), c[i].err = "Ok"
          PROVE  Current(c[i], t[i], unflushed \cup D(i))
      <3>1. Current(c[i - 1], t[i - 1], unflushed \cup D(i - 1))
        BY <1>6, <2>2, <2>5
      <3>2. Current(c[i], CopyOf(t[i - 1], d[i], s[i]), (unflushed \cup D(i - 1)) \cup {d[i]})
        BY <2>2, <2>5, <3>1, CopiedCurrent
      <3>3. (unflushed \cup D(i - 1)) \cup {d[i]} = unflushed \cup D(i)
        <4>1. 1..i = 1..(i - 1) \cup {i}
          OBVIOUS
        <4>2. D(i) = D(i - 1) \cup {d[i]}
          BY <4>1
        <4>3. QED BY <4>2
      <3>4. QED BY <1>3, <3>2, <3>3
    <2>6. ASSUME Current(st, truth, unflushed), c[i].err # "Ok"
          PROVE  Current(c[i], gone, unflushed \cup Places(d))
      <3>1. CASE c[i - 1].err = "Ok"
        <4>1. Current(c[i], t[i - 1], unflushed \cup D(i - 1))
          BY <1>6, <2>2, <2>6, <3>1 DEF Carries
        <4>2. \A a \in DOMAIN gone : a \in DOMAIN t[i - 1] \ Places(d) /\ gone[a] = t[i - 1][a]
          BY <1>4, <1>6
        <4>3. D(i - 1) \subseteq Places(d)
          BY <1>1
        <4>4. QED BY <4>1, <4>2, <4>3 DEF Current
      <3>2. CASE c[i - 1].err # "Ok"
        BY <1>6, <2>2, <2>6, <3>2 DEF Carries
      <3>3. QED BY <3>1, <3>2
    <2>7. QED BY <2>2, <2>3, <2>4, <2>5, <2>6
  <1> HIDE DEF K
  <1>7. bad = {}
    <2>1. SUFFICES ASSUME bad # {} PROVE FALSE
      OBVIOUS
    <2>2. bad \subseteq Nat
      OBVIOUS
    <2>3. \E x \in bad : \A y \in bad : x <= y
      <3> HIDE DEF bad
      <3>1. QED BY <2>1, <2>2, Least
    <2>4. PICK k \in bad : \A y \in bad : k <= y
      BY <2>3
    <2>5. k \in 0..N /\ ~K(k) /\ k # 0
      BY <1>5
    <2>6. k \in 1..N /\ k - 1 \in 0..N /\ ~(k <= k - 1)
      BY <1>1, <2>5
    <2>7. K(k - 1)
      BY <2>4, <2>6
    <2>8. QED BY <1>6, <2>5, <2>6, <2>7
  <1>8. K(N)
    BY <1>1, <1>7
  <1>9. q = c[N] /\ D(N) = Places(d)
    BY <1>1 DEF c, Places
  <1>10. QED BY <1>1, <1>8, <1>9 DEF K, AfterCopies, t, gone

LEMMA CopyGroupStep ==
  ASSUME Shadows, NEW st, Sound(st), Within(st), NEW base \in Bases, NEW d, Residues(d, base),
         MayWrite(d), NEW s, NEW n, NEW q, q = copy_mrp(st, d, s, base, n)
  PROVE  /\ Sound(q) /\ Within(q)
         /\ Current(st, truth, unflushed) => Current(q, AfterCopies(q, d, s), unflushed \cup Places(d))
  <1> DEFINE copied == copies(st, d, s, base, n)[Len(d)]
  <1>1. q = IF copied.err # "Ok" \/ Len(d) = 1 THEN copied
            ELSE [copied EXCEPT !.reg = Groups!register_mrp_output_group(@, d, base)]
    BY DEF copy_mrp
  <1>2. /\ Sound(copied) /\ Within(copied)
        /\ copied.err = "Ok" => \A i \in DOMAIN d : d[i] \in BoundIn(copied)
        /\ Current(st, truth, unflushed) => Current(copied, AfterCopies(copied, d, s), unflushed \cup Places(d))
    BY CopiesStep
  <1> HIDE DEF copied
  <1>3. CASE copied.err # "Ok" \/ Len(d) = 1
    BY <1>1, <1>2, <1>3
  <1>4. CASE copied.err = "Ok" /\ Len(d) # 1
    <2>1. Len(base) > 1
      <3>1. Len(d) = Len(base) /\ Len(d) \in Nat \ {0}
        BY ResidueFacts
      <3>2. QED BY <1>4, <3>1
    <2>2. q = [copied EXCEPT !.reg = Groups!register_mrp_output_group(@, d, base)]
      BY <1>1, <1>4
    <2>3. Sound(q) /\ Within(q) /\ q.err = copied.err /\ Carries(copied, q)
      BY <1>2, <1>4, <2>1, <2>2, RegisterStep
    <2>4. AfterCopies(q, d, s) = AfterCopies(copied, d, s)
      BY <2>3 DEF AfterCopies
    <2>5. QED BY <1>2, <2>3, <2>4 DEF Carries
  <1>5. QED BY <1>3, <1>4

-----------------------------------------------------------------------------
(* Uploads, tags, invalidation, the end of an epoch. *)

(* A method that binds the addresses of d to their shadows.  Of some of them the shadow *)
(* is what the program has there.                                                       *)
Rebinds(st, q, d) ==
  \A tr, un, g : /\ Current(st, T!Drop(tr, Places(d)), un)
                 /\ DOMAIN g \subseteq Places(d) /\ \A a \in DOMAIN g : g[a] = st.shadow_data[a]
    => Current(q, Given(tr, Places(d), g), un \ Places(d))

LEMMA UploadStep ==
  ASSUME NEW st, Sound(st), st.err = "Ok", NEW d, Places(d) \subseteq Mem!DevAddrs,
         ~AnyDst => Places(d) \subseteq alloc_set, NEW n, n # 0,
         \A a \in Places(d) : st.shadow_data[a] \in Poly /\ Len(st.shadow_data[a]) = n,
         NEW q, q = tag_h2d_input(st, d, n)
  PROVE  Sound(q) /\ q.err = "Ok" /\ q.shadow_data = st.shadow_data /\ Rebinds(st, q, d)
  <1> DEFINE P == Places(d)
             failing == {i \in DOMAIN d : Len(st.shadow_data[d[i]]) # n}
             tagged == {d[i] : i \in {j \in DOMAIN d : \A k \in failing : j < k}}
             inputs == [a \in P |-> [val |-> st.shadow_data[a], mod |-> CopyModulus]]
             r == GP!untag(st.reg, P)
  <1>1. failing = {} /\ tagged = P
    BY DEF Places
  <1>2. q = [st EXCEPT !.poly_map = T!Put(@, [a \in tagged |-> [val |-> st.shadow_data[a], mod |-> CopyModulus]]),
                       !.reg = Groups!untag(@, tagged),
                       !.input_addrs = @ \cup tagged,
                       !.err = IF failing = {} THEN "Ok" ELSE "ShadowSizeMismatch"]
    BY DEF tag_h2d_input
  <1> HIDE DEF failing, tagged
  <1>3. \A s, S : Groups!untag(s, S) = GP!untag(s, S)
    BY DEF Groups!untag, GP!untag, Groups!Drop, GP!Drop, Groups!Restrict, GP!Restrict
  <1>4. /\ DOMAIN q = SessionFields /\ q.poly_map = T!Put(st.poly_map, inputs) /\ q.reg = r
        /\ q.input_addrs = st.input_addrs \cup P /\ q.addr_modulus = st.addr_modulus
        /\ q.mrp_in = st.mrp_in /\ q.shadow_data = st.shadow_data /\ q.err = "Ok"
    BY <1>1, <1>2, <1>3 DEF Sound, Typed, SessionFields
  <1>5. GP!Good(st.reg)
    BY DEF Sound, Booked
  <1>6. /\ GP!Good(r) /\ r.known_mrp_groups = st.reg.known_mrp_groups
        /\ r.pending_mrp_groups = st.reg.pending_mrp_groups
        /\ r.pending_outputs = GP!Drop(st.reg.pending_outputs, P)
    BY <1>5, GP!UntagStep, GroupBases
  <1>7. r.mrp_out_names = st.reg.mrp_out_names
    BY <1>5 DEF GP!untag, GP!Good, GP!Known, GP!Fields
  <1>8. DOMAIN r.pending_outputs \subseteq DOMAIN st.reg.pending_outputs
    BY <1>6 DEF GP!Drop, GP!Restrict
  <1>9. DOMAIN inputs = P /\ \A a \in P : inputs[a] = [val |-> st.shadow_data[a], mod |-> CopyModulus]
    OBVIOUS
  <1> HIDE DEF r, inputs
  <1>10. /\ BoundIn(q) = BoundIn(st) \cup P
         /\ \A a \in P : q.poly_map[a] = [val |-> st.shadow_data[a], mod |-> CopyModulus]
         /\ \A a \in BoundIn(st) \ P : q.poly_map[a] = st.poly_map[a]
    BY <1>4, <1>9 DEF BoundIn, T!Put
  <1>11. \A a \in P : q.poly_map[a] \in Recordings /\ q.poly_map[a].val = st.shadow_data[a]
    <2>1. SUFFICES ASSUME NEW a \in P
                   PROVE  q.poly_map[a] \in Recordings /\ q.poly_map[a].val = st.shadow_data[a]
      OBVIOUS
    <2>2. q.poly_map[a] = [val |-> st.shadow_data[a], mod |-> CopyModulus]
      BY <1>10
    <2>3. CopyModulus \in AllModuli /\ st.shadow_data[a] \in Poly
      BY DEF AllModuli
    <2>4. QED BY <2>2, <2>3 DEF Recordings
  <1>12. Typed(q)
    BY <1>4, <1>10, <1>11 DEF Sound, Typed, AP!Errors
  <1>13. Rooted(q)
    BY <1>4, <1>7, <1>10 DEF Sound, Rooted
  <1>14. Booked(q.reg, BoundIn(q))
    BY <1>4, <1>6, <1>8, <1>10 DEF Sound, Booked, GP!GroupNames, GP!Members
  <1>15. Moduled(q)
    BY <1>4, <1>10 DEF Sound, Moduled, recorded_modulus
  <1>16. ASSUME NEW tr, NEW un, NEW g, Current(st, T!Drop(tr, P), un),
                DOMAIN g \subseteq P, \A a \in DOMAIN g : g[a] = st.shadow_data[a]
         PROVE  Current(q, Given(tr, P, g), un \ P)
    <2> DEFINE new == Given(tr, P, g)
               old == T!Drop(tr, P)
    <2>1. DOMAIN g \subseteq P /\ \A a \in DOMAIN g : g[a] = st.shadow_data[a]
      BY <1>16
    <2>2. DOMAIN old = DOMAIN tr \ P /\ \A a \in DOMAIN old : old[a] = tr[a]
      BY DEF T!Drop, T!Restrict
    <2>3. new = T!Put(old, g)
      BY DEF Given
    <2>4. Current(st, old, un)
      BY <1>16
    <2> HIDE DEF old, new
    <2>5. /\ DOMAIN new = DOMAIN old \cup DOMAIN g
          /\ \A a \in DOMAIN g : new[a] = st.shadow_data[a]
          /\ \A a \in DOMAIN old : new[a] = old[a]
      BY <2>1, <2>2, <2>3 DEF T!Put
    <2>6. SUFFICES ASSUME NEW a \in DOMAIN new
                   PROVE  /\ a \in BoundIn(q) => q.poly_map[a].val = new[a]
                          /\ a \in DOMAIN q.shadow_data \ (un \ P) => q.shadow_data[a] = new[a]
                          /\ a \in un \ P => a \in BoundIn(q)
      BY DEF Current, new
    <2>7. CASE a \in P
      BY <1>4, <1>11, <2>1, <2>2, <2>5, <2>7
    <2>8. CASE a \notin P
      BY <1>4, <1>10, <2>1, <2>2, <2>4, <2>5, <2>6, <2>8 DEF Current
    <2>9. QED BY <2>7, <2>8
  <1>17. Rebinds(st, q, d)
    BY <1>16 DEF Rebinds
  <1>18. QED BY <1>4, <1>12, <1>13, <1>14, <1>15, <1>17 DEF Sound

LEMMA TagStep ==
  ASSUME NEW st, Sound(st), NEW a \in Mem!DevAddrs, NEW q, q = tag_output(st, a)
  PROVE  Sound(q) /\ Carries(st, q) /\ q.shadow_data = st.shadow_data
  <1>1. CASE a \notin DOMAIN st.poly_map
    <2>1. /\ DOMAIN q = SessionFields /\ q.poly_map = st.poly_map /\ q.reg = st.reg
          /\ q.input_addrs = st.input_addrs /\ q.addr_modulus = st.addr_modulus
          /\ q.mrp_in = st.mrp_in /\ q.shadow_data = st.shadow_data /\ q.err = "SourceUnavailable"
      BY <1>1 DEF tag_output, Sound, Typed, SessionFields
    <2>2. Sound(q)
      BY <2>1 DEF Sound, Typed, Rooted, Moduled, recorded_modulus, BoundIn, AP!Errors
    <2>3. QED BY <2>1, <2>2 DEF Carries, Current, BoundIn
  <1>2. CASE a \in DOMAIN st.poly_map
    <2> DEFINE r == GP!tag_output(st.reg, a)
    <2>1. GP!Good(st.reg) /\ st.reg.pending_mrp_groups \subseteq GP!GroupNames(st.reg)
      BY DEF Sound, Booked
    <2>2. /\ GP!Good(r) /\ r.known_mrp_groups = st.reg.known_mrp_groups
          /\ r.pending_mrp_groups \subseteq GP!GroupNames(st.reg)
          /\ \A x \in DOMAIN r.pending_outputs :
               x \in DOMAIN st.reg.pending_outputs \/ x = a
               \/ \E g \in GP!GroupNames(st.reg) : x \in GP!Members(st.reg, g)
      BY <2>1, GP!TagStep, GroupBases
    <2>3. r.mrp_out_names = st.reg.mrp_out_names
      BY <2>1 DEF GP!tag_output, GP!name_outputs, GP!Good, GP!Known, GP!Fields
    <2>4. Groups!tag_output(st.reg, a) = r
      BY SameNaming DEF Groups!tag_output, GP!tag_output, Groups!Claims, GP!Claims
    <2> HIDE DEF r
    <2>5. /\ DOMAIN q = SessionFields /\ q.poly_map = st.poly_map /\ q.reg = r
          /\ q.input_addrs = st.input_addrs /\ q.addr_modulus = st.addr_modulus
          /\ q.mrp_in = st.mrp_in /\ q.shadow_data = st.shadow_data /\ q.err = st.err
      BY <1>2, <2>4 DEF tag_output, Sound, Typed, SessionFields
    <2>6. Booked(q.reg, BoundIn(q))
      BY <1>2, <2>2, <2>5 DEF Sound, Booked, BoundIn, GP!GroupNames, GP!Members
    <2>7. Typed(q) /\ Rooted(q) /\ Moduled(q)
      BY <2>3, <2>5 DEF Sound, Typed, Rooted, Moduled, recorded_modulus, BoundIn
    <2>8. QED BY <2>5, <2>6, <2>7 DEF Sound, Carries, Current, BoundIn
  <1>3. QED BY <1>1, <1>2

LEMMA SameInvalidation ==
  \A r, S : Groups!invalidate(r, S) = GP!invalidate(r, S)
  <1>1. \A r, a : Groups!Claims(r, a) = GP!Claims(r, a)
    BY DEF Groups!Claims, GP!Claims
  <1>2. \A f, S : Groups!Drop(f, S) = GP!Drop(f, S)
    BY DEF Groups!Drop, GP!Drop, Groups!Restrict, GP!Restrict
  <1>3. SUFFICES ASSUME NEW r, NEW S PROVE Groups!invalidate(r, S) = GP!invalidate(r, S)
    OBVIOUS
  <1>4. UNION {Groups!Claims(r, a) : a \in S} = UNION {GP!Claims(r, a) : a \in S}
    BY <1>1
  <1>5. QED
    BY <1>2, <1>4, SameEviction DEF Groups!invalidate, GP!invalidate

(* Nothing of an invalidated address is left. *)
LEMMA ForgetStep ==
  ASSUME NEW st, Sound(st), NEW S, S \subseteq Mem!DevAddrs, NEW q, q = invalidate(st, S)
  PROVE  /\ Sound(q) /\ BoundIn(q) = BoundIn(st) \ S
         /\ \A a \in BoundIn(q) : q.poly_map[a] = st.poly_map[a]
         /\ q.shadow_data = st.shadow_data /\ q.err = st.err
  <1> DEFINE r == GP!invalidate(st.reg, S)
  <1>1. /\ DOMAIN q = SessionFields /\ q.poly_map = T!Drop(st.poly_map, S) /\ q.reg = r
        /\ q.input_addrs = st.input_addrs \ S /\ q.addr_modulus = T!Drop(st.addr_modulus, S)
        /\ q.mrp_in = [st.mrp_in EXCEPT !.names = T!Drop(@, S)]
        /\ q.shadow_data = st.shadow_data /\ q.err = st.err
    BY SameInvalidation DEF invalidate, Sound, Typed, SessionFields
  <1>2. GP!Good(st.reg)
    BY DEF Sound, Booked
  <1>3. /\ GP!Good(r)
        /\ GP!GroupNames(r) = GP!GroupNames(st.reg) \ GP!ClaimsOf(st.reg, S)
        /\ \A g \in GP!GroupNames(r) : GP!Members(r, g) = GP!Members(st.reg, g) /\ GP!Members(r, g) \cap S = {}
        /\ r.pending_mrp_groups = st.reg.pending_mrp_groups \ GP!ClaimsOf(st.reg, S)
        /\ r.pending_outputs = GP!Drop(st.reg.pending_outputs, S)
        /\ r.mrp_out_names = GP!Drop(st.reg.mrp_out_names, S)
    BY <1>2, GP!InvalidateStep, GroupBases
  <1> HIDE DEF r
  <1>4. /\ DOMAIN r.pending_outputs = DOMAIN st.reg.pending_outputs \ S
        /\ DOMAIN r.mrp_out_names = DOMAIN st.reg.mrp_out_names \ S
    BY <1>3 DEF GP!Drop, GP!Restrict
  <1>5. /\ BoundIn(q) = BoundIn(st) \ S /\ \A a \in BoundIn(q) : q.poly_map[a] = st.poly_map[a]
        /\ DOMAIN q.addr_modulus = DOMAIN st.addr_modulus \ S
        /\ \A a \in DOMAIN q.addr_modulus : q.addr_modulus[a] = st.addr_modulus[a]
    BY <1>1 DEF BoundIn, T!Drop, T!Restrict
  <1>6. /\ DOMAIN q.mrp_in = {"names", "counter", "tagged"}
        /\ DOMAIN q.mrp_in.names = DOMAIN st.mrp_in.names \ S
    BY <1>1 DEF Sound, Typed, T!Drop, T!Restrict
  <1>7. Booked(q.reg, BoundIn(q))
    BY <1>1, <1>3, <1>4, <1>5 DEF Sound, Booked
  <1>8. Typed(q)
    BY <1>1, <1>5, <1>6 DEF Sound, Typed
  <1>9. Rooted(q)
    BY <1>1, <1>4, <1>5, <1>6 DEF Sound, Rooted
  <1>10. Moduled(q)
    BY <1>1, <1>5 DEF Sound, Moduled, recorded_modulus
  <1>11. QED BY <1>1, <1>5, <1>7, <1>8, <1>9, <1>10 DEF Sound

(* An epoch that is over has bound nothing. *)
LEMMA ClearStep ==
  ASSUME NEW st, Typed(st), NEW q, q = clear_state(st)
  PROVE  Sound(q) /\ BoundIn(q) = {} /\ q.shadow_data = st.shadow_data /\ q.err = st.err
  <1>1. /\ DOMAIN q = SessionFields /\ q.poly_map = T!Empty /\ q.reg = Groups!NewRegistry
        /\ q.input_addrs = {} /\ q.addr_modulus = T!Empty /\ q.mrp_in = NoMrpInputs
        /\ q.shadow_data = st.shadow_data /\ q.err = st.err
    BY DEF clear_state, Typed, SessionFields
  <1>2. DOMAIN T!Empty = {}
    BY DEF T!Empty
  <1>3. Groups!NewRegistry = GP!NewRegistry
    BY DEF Groups!NewRegistry, GP!NewRegistry, Groups!Empty, GP!Empty
  <1>4. DOMAIN NoMrpInputs = {"names", "counter", "tagged"} /\ NoMrpInputs.names = T!Empty
    BY DEF NoMrpInputs
  <1>5. Booked(GP!NewRegistry, {})
    BY GP!NewRegistryGood, GroupBases DEF Booked, GP!GroupNames
  <1>6. DOMAIN GP!NewRegistry.mrp_out_names = {}
    BY DEF GP!NewRegistry, GP!Empty
  <1>7. BoundIn(q) = {}
    BY <1>1, <1>2 DEF BoundIn
  <1>8. QED BY <1>1, <1>2, <1>3, <1>4, <1>5, <1>6, <1>7 DEF Sound, Typed, Rooted, Moduled, BoundIn

-----------------------------------------------------------------------------
(* The allocator. *)

LEMMA SameSizing ==
  \A n : Mem!set_polynomial_size(n) <=> AP!set_polynomial_size(n)
  BY DEF Mem!set_polynomial_size, AP!set_polynomial_size, Mem!DrainsPool, AP!DrainsPool,
         Mem!Range, AP!Range, Mem!Drop, AP!Drop, Mem!Restrict, AP!Restrict

LEMMA SameReservation ==
  /\ \A n : Mem!allocate(n) <=> AP!allocate(n)
  /\ \A k, n : Mem!allocate_many(k, n) <=> AP!allocate_many(k, n)
  <1>1. \A n : Mem!reserve(n) <=> AP!reserve(n)
    BY DEF Mem!reserve, AP!reserve, Mem!Recycled, AP!Recycled, Mem!Reserved, AP!Reserved,
           Mem!Desynced, AP!Desynced, Mem!RecycledAddr, AP!RecycledAddr, Mem!FreshAddr, AP!FreshAddr,
           Mem!Released, AP!Released, Mem!Range, AP!Range, Mem!Drop, AP!Drop, Mem!Restrict, AP!Restrict
  <1>2. QED
    BY <1>1 DEF Mem!allocate, AP!allocate, Mem!allocate_many, AP!allocate_many,
                Mem!validate_poly_size, AP!validate_poly_size, Mem!fail, AP!fail, Mem!ok, AP!ok,
                Mem!allocVars, AP!allocVars

LEMMA SameRelease ==
  /\ \A a : Mem!free(a) <=> AP!free(a)
  /\ \A addrs : Mem!free_many(addrs) <=> AP!free_many(addrs)
  <1>1. \A S : Mem!Released(S) = AP!Released(S)
    BY DEF Mem!Released, AP!Released, Mem!Drop, AP!Drop, Mem!Restrict, AP!Restrict
  <1>2. \A a : Mem!free(a) <=> AP!free(a)
    BY <1>1 DEF Mem!free, AP!free, Mem!ok, AP!ok, Mem!fail, AP!fail, Mem!allocVars, AP!allocVars,
                Mem!Null, AP!Null
  <1>3. \A addrs : Mem!free_many(addrs) <=> AP!free_many(addrs)
    <2>1. \A s, a : Mem!FirstAt(s, a) = AP!FirstAt(s, a)
      BY Zenon DEF Mem!FirstAt, AP!FirstAt
    <2>2. \A S : Mem!Cardinality(S) = AP!Cardinality(S)
      BY DEF Mem!Cardinality, AP!Cardinality
    <2>3. \A S, U : Mem!Bijection(S, U) = AP!Bijection(S, U)
      BY DEF Mem!Bijection, AP!Bijection, Mem!Injection, AP!Injection, Mem!Surjection, AP!Surjection,
             Mem!IsInjective, AP!IsInjective
    <2>4. \A s : Mem!Range(s) = AP!Range(s)
      BY DEF Mem!Range, AP!Range
    <2>5. QED
      BY <1>1, <2>1, <2>2, <2>3, <2>4 DEF Mem!free_many, AP!free_many, Mem!Null, AP!Null
  <1>4. QED BY <1>2, <1>3

LEMMA SameWrites ==
  \A a, w, n : Mem!memset(a, w, n) <=> AP!memset(a, w, n)
  BY DEF Mem!memset, AP!memset, Mem!WriteError, AP!WriteError, Mem!set_shadow, AP!set_shadow,
         Mem!fail, AP!fail, Mem!allocVars, AP!allocVars, Mem!Written, AP!Written, Mem!Overlay,
         AP!Overlay, Mem!Staged, AP!Staged, Mem!Zeros, AP!Zeros, Mem!Fill, AP!Fill, Mem!Put, AP!Put

LEMMA SameOthers ==
  /\ \A a, n : Mem!copy_to_host(a, n) <=> AP!copy_to_host(a, n)
  /\ \A p : Mem!register_host_pointer(p) <=> AP!register_host_pointer(p)
  /\ \A p : Mem!unregister_host_pointer(p) <=> AP!unregister_host_pointer(p)
  BY DEF Mem!copy_to_host, AP!copy_to_host, Mem!copy_to_host_error, AP!copy_to_host_error,
         Mem!WriteError, AP!WriteError, Mem!allocVars, AP!allocVars,
         Mem!register_host_pointer, AP!register_host_pointer,
         Mem!unregister_host_pointer, AP!unregister_host_pointer

(* The allocator is in order, and gives out device addresses only. *)
MemInv == AP!Inv /\ (next_addr <= MaxAddr + 1 \/ next_addr = HbmBase)

LEMMA MemFacts ==
  ASSUME MemInv
  PROVE  /\ DOMAIN shadow_data \subseteq alloc_set /\ alloc_set \subseteq Mem!DevAddrs
         /\ \A a \in DOMAIN shadow_data : shadow_data[a] \in Seq(Words)
         /\ shadow_data = [a \in DOMAIN shadow_data |-> shadow_data[a]]
         /\ poly_bytes \in PolySizes \cup {0} /\ poly_bytes \in Nat /\ next_addr \in Nat
         /\ host_set \subseteq Hosts /\ err \in AP!Errors
  <1>1. AP!TypeOK /\ AP!BelowNext
    BY DEF MemInv, AP!Inv, AP!NoAlias
  <1>2. alloc_set \subseteq Mem!DevAddrs
    BY <1>1, AddrAssumption DEF MemInv, AP!TypeOK, AP!BelowNext, Mem!DevAddrs
  <1>3. QED BY <1>1, <1>2, PolySizesAssumption DEF AP!TypeOK

LEMMA SizeEffect ==
  ASSUME MemInv, NEW n \in PolySizes, Mem!set_polynomial_size(n)
  PROVE  /\ MemInv' /\ poly_bytes' = n /\ UNCHANGED <<alloc_set, shadow_data>> /\ err' = "Ok"
  <1>1. AP!set_polynomial_size(n)
    BY SameSizing
  <1>2. AP!Inv'
    BY <1>1, AP!SizeStep, WordsAssumption, PolySizesAssumption, AddrAssumption, MaxGroupAssumption
    DEF MemInv
  <1>3. UNCHANGED <<alloc_set, shadow_data>>
    BY <1>1, AP!SizeKeepsLive, WordsAssumption, PolySizesAssumption, AddrAssumption,
       MaxGroupAssumption DEF MemInv
  <1>4. poly_bytes' = n /\ err' = "Ok" /\ next_addr' = next_addr
    BY DEF Mem!set_polynomial_size
  <1>5. QED BY <1>2, <1>3, <1>4 DEF MemInv

LEMMA AllocateEffect ==
  ASSUME MemInv, NEW k \in Nat, NEW n, Mem!allocate(n) \/ Mem!allocate_many(k, n)
  PROVE  /\ MemInv' /\ alloc_set \subseteq alloc_set' /\ UNCHANGED <<shadow_data, poly_bytes>>
         /\ alloc_set' # alloc_set => poly_bytes # 0
  <1>1. AP!allocate(n) \/ AP!allocate_many(k, n)
    BY SameReservation
  <1>2. AP!Inv'
    BY <1>1, AP!AllocateStep, WordsAssumption, PolySizesAssumption, AddrAssumption,
       MaxGroupAssumption DEF MemInv
  <1>3. \/ UNCHANGED <<alloc_set, shadow_data, poly_bytes, next_addr>>
        \/ poly_bytes # 0 /\ \E m \in Nat : AP!reserve(m)
    BY <1>1 DEF AP!allocate, AP!allocate_many, AP!ok, AP!fail, AP!allocVars, AP!validate_poly_size
  <1>4. ASSUME NEW m \in Nat, AP!reserve(m)
        PROVE  /\ alloc_set \subseteq alloc_set' /\ UNCHANGED <<shadow_data, poly_bytes>>
               /\ next_addr' <= MaxAddr + 1
    <2>1. AP!Desynced(m) = {}
      BY AP!NoDesync, WordsAssumption, PolySizesAssumption, AddrAssumption, MaxGroupAssumption
      DEF MemInv
    <2>2. QED BY <1>4, <2>1 DEF AP!reserve
  <1>5. QED BY <1>2, <1>3, <1>4 DEF MemInv

(* The addresses of S are free now, and their bytes are gone. *)
Frees(S) ==
  /\ alloc_set' = alloc_set \ S /\ poly_bytes' = poly_bytes
  /\ DOMAIN shadow_data' = DOMAIN shadow_data \ S
  /\ \A x \in DOMAIN shadow_data' : shadow_data'[x] = shadow_data[x]

LEMMA ReleaseEffect ==
  ASSUME MemInv, NEW a \in Mem!DevAddrs \cup {Mem!Null}, Mem!free(a)
  PROVE  MemInv' /\ Frees({a})
  <1>1. AP!free(a)
    BY SameRelease
  <1>2. AP!Inv'
    BY <1>1, AP!FreeStep, WordsAssumption, PolySizesAssumption, AddrAssumption, MaxGroupAssumption
    DEF MemInv
  <1>3. AP!Null \notin alloc_set
    BY MemFacts, AddrAssumption DEF Mem!DevAddrs, AP!Null
  <1>4. next_addr' = next_addr
    BY <1>1 DEF AP!free, AP!ok, AP!fail, AP!allocVars
  <1>5. CASE a \notin alloc_set
    <2>1. UNCHANGED <<alloc_set, shadow_data, poly_bytes>>
      BY <1>1, <1>5 DEF AP!free, AP!ok, AP!fail, AP!allocVars
    <2>2. QED BY <1>2, <1>4, <1>5, <2>1, MemFacts DEF MemInv, Frees
  <1>6. CASE a \in alloc_set
    <2>1. /\ alloc_set' = alloc_set \ {a} /\ shadow_data' = AP!Drop(shadow_data, {a})
          /\ poly_bytes' = poly_bytes
      BY <1>1, <1>3, <1>6 DEF AP!free, AP!Released
    <2>2. QED BY <1>2, <1>4, <2>1 DEF MemInv, Frees, AP!Drop, AP!Restrict
  <1>7. QED BY <1>5, <1>6

LEMMA ReleaseManyEffect ==
  ASSUME MemInv, NEW addrs \in Mem!Groups, Mem!free_many(addrs)
  PROVE  MemInv' /\ Frees(T!Range(addrs))
  <1>1. AP!free_many(addrs) /\ addrs \in AP!Groups
    BY SameRelease DEF Mem!Groups, AP!Groups, Mem!DevAddrs, AP!DevAddrs, Mem!Null, AP!Null
  <1>2. AP!Inv'
    BY <1>1, AP!FreeManyStep, WordsAssumption, PolySizesAssumption, AddrAssumption,
       MaxGroupAssumption DEF MemInv
  <1> DEFINE freed == AP!Range(addrs) \cap alloc_set
  <1>3. /\ alloc_set' = alloc_set \ freed /\ shadow_data' = AP!Drop(shadow_data, freed)
        /\ poly_bytes' = poly_bytes /\ next_addr' = next_addr
    BY <1>1 DEF AP!free_many, AP!Released
  <1>4. freed = T!Range(addrs) \cap alloc_set
    BY DEF AP!Range, T!Range
  <1> HIDE DEF freed
  <1>5. DOMAIN shadow_data \ freed = DOMAIN shadow_data \ T!Range(addrs)
    BY <1>4, MemFacts
  <1>6. QED BY <1>2, <1>3, <1>4, <1>5 DEF MemInv, Frees, AP!Drop, AP!Restrict

(* A polynomial of the current size, whatever was there. *)
LEMMA OverlayIsPoly ==
  ASSUME MemInv, poly_bytes # 0, NEW a, NEW v \in Seq(Words)
  PROVE  Mem!Overlay(Mem!Staged(a), v) \in Poly /\ Len(Mem!Overlay(Mem!Staged(a), v)) = poly_bytes
  <1> DEFINE old == Mem!Staged(a)
  <1>1. poly_bytes \in Nat /\ poly_bytes \in PolySizes /\ Len(v) \in Nat /\ \A i \in 1..Len(v) : v[i] \in Words
    BY MemFacts, LenProperties, ElementOfSeq
  <1>2. old \in [1..poly_bytes -> Words]
    <2>1. Mem!Zeros(poly_bytes) \in [1..poly_bytes -> Words]
      BY WordsAssumption DEF Mem!Zeros
    <2>2. CASE a \in DOMAIN shadow_data /\ Len(shadow_data[a]) = poly_bytes
      <3>1. shadow_data[a] \in Seq(Words) /\ Len(shadow_data[a]) = poly_bytes
        BY <2>2, MemFacts
      <3>2. shadow_data[a] \in [1..poly_bytes -> Words]
        BY <3>1
      <3>3. QED BY <2>2, <3>2 DEF Mem!Staged
    <2>3. QED BY <2>1, <2>2 DEF Mem!Staged
  <1>3. Len(old) = poly_bytes
    BY <1>1, <1>2
  <1> HIDE DEF old
  <1>4. \A i \in 1..poly_bytes : (IF i <= Len(v) THEN v[i] ELSE old[i]) \in Words
    BY <1>1, <1>2
  <1>5. Mem!Overlay(old, v) \in [1..poly_bytes -> Words]
    BY <1>3, <1>4 DEF Mem!Overlay
  <1>6. Len(Mem!Overlay(old, v)) = poly_bytes
    BY <1>1, <1>5
  <1>7. QED BY <1>1, <1>5, <1>6 DEF Poly, old

LEMMA MemsetEffect ==
  ASSUME MemInv, alloc_set # {} => poly_bytes # 0, NEW a, NEW w \in Words, NEW n \in Nat,
         Mem!memset(a, w, n)
  PROVE  /\ MemInv' /\ UNCHANGED <<alloc_set, poly_bytes>>
         /\ IF err' = "Ok"
            THEN /\ a \in alloc_set /\ DOMAIN shadow_data' = DOMAIN shadow_data \cup {a}
                 /\ shadow_data'[a] \in Poly
                 /\ \A x \in DOMAIN shadow_data \ {a} : shadow_data'[x] = shadow_data[x]
            ELSE shadow_data' = shadow_data
  <1>1. AP!Inv'
    BY SameWrites, AP!MemsetStep, WordsAssumption, PolySizesAssumption, AddrAssumption,
       MaxGroupAssumption DEF MemInv
  <1>2. CASE Mem!WriteError(a, n) # "Ok"
    BY <1>1, <1>2 DEF Mem!memset, Mem!fail, Mem!allocVars, MemInv
  <1>3. CASE Mem!WriteError(a, n) = "Ok"
    <2> DEFINE new == Mem!Overlay(Mem!Staged(a), Mem!Fill(w, n))
    <2>1. a \in alloc_set
      BY <1>3 DEF Mem!WriteError
    <2>2. new \in Poly
      <3>1. Mem!Fill(w, n) \in Seq(Words)
        <4>1. Mem!Fill(w, n) \in [1..n -> Words]
          BY DEF Mem!Fill
        <4>2. QED BY <4>1, SeqDef
      <3>2. QED BY <2>1, <3>1, OverlayIsPoly
    <2>3. shadow_data' = Mem!Put(shadow_data, [x \in {a} |-> new]) /\ err' = "Ok"
          /\ UNCHANGED <<alloc_set, poly_bytes, next_addr>>
      BY <1>3 DEF Mem!memset, Mem!set_shadow, Mem!Written
    <2> HIDE DEF new
    <2>4. /\ DOMAIN shadow_data' = DOMAIN shadow_data \cup {a} /\ shadow_data'[a] = new
          /\ \A x \in DOMAIN shadow_data \ {a} : shadow_data'[x] = shadow_data[x]
      BY <2>3 DEF Mem!Put
    <2>5. QED BY <1>1, <2>1, <2>2, <2>3, <2>4 DEF MemInv
  <1>4. QED BY <1>2, <1>3

LEMMA OtherEffect ==
  ASSUME MemInv, NEW a, NEW n,
         \/ Mem!copy_to_host(a, n)
         \/ \E p \in Hosts : Mem!register_host_pointer(p) \/ Mem!unregister_host_pointer(p)
  PROVE  MemInv' /\ UNCHANGED <<alloc_set, shadow_data, poly_bytes>>
  <1>1. AP!copy_to_host(a, n) \/ \E p \in Hosts : AP!register_host_pointer(p) \/ AP!unregister_host_pointer(p)
    BY SameOthers
  <1>2. AP!Inv'
    BY <1>1, AP!CopyToHostStep, AP!HostStep, WordsAssumption, PolySizesAssumption, AddrAssumption,
       MaxGroupAssumption DEF MemInv
  <1>3. UNCHANGED <<alloc_set, shadow_data, poly_bytes, next_addr>>
    BY <1>1 DEF AP!copy_to_host, AP!allocVars, AP!register_host_pointer, AP!unregister_host_pointer
  <1>4. QED BY <1>2, <1>3 DEF MemInv

(* Proper shadows and an error are all the epoch hands back to the allocator.           *)
LEMMA HandedBack ==
  ASSUME MemInv, KeepsAllocations, err' \in AP!Errors, DOMAIN shadow_data' \subseteq alloc_set,
         IsTable(shadow_data'),
         \A a \in DOMAIN shadow_data' : shadow_data'[a] \in Seq(Words)
  PROVE  MemInv'
  <1>1. AP!AddressesStay /\ poly_bytes' = poly_bytes /\ host_set' \subseteq Hosts
    BY MemFacts DEF AP!AddressesStay, KeepsAllocations
  <1>2. shadow_data' \in [DOMAIN shadow_data' -> Seq(Words)]
    BY DEF IsTable
  <1>3. AP!Shadows(shadow_data', alloc_set)
    BY <1>2 DEF AP!Shadows
  <1>4. AP!Inv'
    BY <1>1, <1>3, AP!SameAddresses, WordsAssumption, PolySizesAssumption, AddrAssumption,
       MaxGroupAssumption DEF MemInv
  <1>5. QED BY <1>4 DEF MemInv, KeepsAllocations

-----------------------------------------------------------------------------
(* The invariant: the allocator is in order, shadows are polynomials, the session state  *)
(* is sound, and the allocator's size is the configured ring dimension.                 *)

Configs == [ring_dim : PolySizes \cup {0}, moduli : Seq(Moduli), configured : BOOLEAN,
            target : Targets \cup {"local"}, montgomery : Toggles \cup {FALSE},
            bit_reversal : Toggles \cup {FALSE}]

Values == /\ \A a \in DOMAIN shadow_data : shadow_data[a] \in Poly
          /\ alloc_set # {} => poly_bytes # 0

Inv == /\ MemInv /\ Values /\ Sound(Here)
       /\ conf \in Configs /\ conf.ring_dim = poly_bytes
       /\ initialized \in BOOLEAN /\ recording \in BOOLEAN

AllCurrent == Current(Here, truth, unflushed)

LEMMA PolyIsSeq == Poly \subseteq Seq(Words)
  BY PolySizesAssumption, SeqDef DEF Poly

LEMMA ShadowsHere ==
  ASSUME Inv
  PROVE  Shadows /\ Within(Here) /\ Here.err = "Ok" /\ BoundIn(Here) = Bound
  <1>1. IsTable(shadow_data)
    BY MemFacts DEF Inv, IsTable
  <1>2. QED BY <1>1, MemFacts DEF Inv, Values, Shadows, Within, Here, BoundIn, Bound

(* q is what the epoch keeps after the step. *)
Leaves(q) == /\ poly_map' = q.poly_map /\ reg' = q.reg /\ input_addrs' = q.input_addrs
             /\ addr_modulus' = q.addr_modulus /\ mrp_in' = q.mrp_in

LEMMA HereNext ==
  ASSUME NEW q, Sound(q), Leaves(q), ~AnyDst => BoundIn(q) \subseteq alloc_set'
  PROVE  Sound(Here)' /\ BoundIn(Here)' = BoundIn(q)
  <1>1. /\ DOMAIN Here' = SessionFields /\ Here'.poly_map = q.poly_map /\ Here'.reg = q.reg
        /\ Here'.input_addrs = q.input_addrs /\ Here'.addr_modulus = q.addr_modulus
        /\ Here'.mrp_in = q.mrp_in /\ Here'.err = "Ok"
    BY DEF Here, Leaves, SessionFields
  <1>2. Typed(Here)'
    BY <1>1 DEF Sound, Typed, BoundIn, AP!Errors, Mem!DevAddrs
  <1>3. Rooted(Here)'
    BY <1>1 DEF Sound, Rooted, BoundIn
  <1>4. Booked(Here.reg, BoundIn(Here))'
    BY <1>1 DEF Sound, Booked, BoundIn
  <1>5. Moduled(Here)'
    BY <1>1 DEF Sound, Moduled, recorded_modulus, BoundIn
  <1>6. QED BY <1>1, <1>2, <1>3, <1>4, <1>5 DEF Sound, BoundIn

(* One critical section of the epoch. *)
LEMMA SessionEffect ==
  ASSUME Inv, NEW q, Sound(q), Within(q), Recorded(q)
  PROVE  /\ Inv' /\ err' = q.err
         /\ Current(q, truth', unflushed') => AllCurrent'
  <1>1. /\ Leaves(q) /\ shadow_data' = q.shadow_data /\ err' = q.err
        /\ KeepsAllocations /\ UNCHANGED conf /\ Session
    BY DEF Recorded, Become, Leaves
  <1>2. DOMAIN q.shadow_data \subseteq DOMAIN shadow_data
        /\ \A a \in DOMAIN q.shadow_data : q.shadow_data[a] = shadow_data[a]
    BY DEF Within
  <1>3. Sound(Here)'
    BY <1>1, HereNext DEF Sound, Rooted, KeepsAllocations
  <1>4. /\ DOMAIN shadow_data' \subseteq alloc_set /\ IsTable(shadow_data')
        /\ \A a \in DOMAIN shadow_data' : shadow_data'[a] \in Poly
    BY <1>1, <1>2, ShadowsHere DEF Shadows, Within
  <1>5. MemInv'
    BY <1>1, <1>4, HandedBack, PolyIsSeq DEF Inv, Sound, Typed
  <1>6. Values' /\ conf' \in Configs /\ conf'.ring_dim = poly_bytes'
    BY <1>1, <1>4 DEF Inv, Values, KeepsAllocations
  <1>7. initialized' \in BOOLEAN /\ recording' \in BOOLEAN
    BY <1>1, Zenon DEF Session, ensure_initialized, Inv
  <1>8. Current(q, truth', unflushed') => AllCurrent'
    BY <1>1 DEF AllCurrent, Current, Here, BoundIn, Leaves
  <1>9. QED BY <1>1, <1>3, <1>5, <1>6, <1>7, <1>8 DEF Inv, Configs

-----------------------------------------------------------------------------
(* Recorded operations. *)

LEMMA ErrorStep ==
  ASSUME Inv, NEW e \in AP!Errors, NEW q, q = [Here EXCEPT !.err = e]
  PROVE  /\ Sound(q) /\ Within(q) /\ Carries(Here, q) /\ (Leaves(q) <=> Leaves(Here))
         /\ q.err = e /\ q.shadow_data = shadow_data
  <1>1. Sound(Here) /\ Within(Here) /\ Here.err = "Ok"
    BY ShadowsHere DEF Inv
  <1>2. /\ DOMAIN q = SessionFields /\ q.poly_map = Here.poly_map /\ q.reg = Here.reg
        /\ q.input_addrs = Here.input_addrs /\ q.addr_modulus = Here.addr_modulus
        /\ q.mrp_in = Here.mrp_in /\ q.shadow_data = Here.shadow_data /\ q.err = e
        /\ Here.shadow_data = shadow_data
    BY DEF Here, SessionFields
  <1>3. Sound(q) /\ Within(q)
    BY <1>1, <1>2 DEF Sound, Typed, Rooted, Moduled, recorded_modulus, BoundIn, Within
  <1>4. QED BY <1>2, <1>3 DEF Carries, Current, BoundIn, Leaves

LEMMA WritesEffect ==
  ASSUME NEW d, NEW f, NEW q, Writes(f, Places(d)), err' = q.err
  PROVE  truth' = After(q, d, f) /\ unflushed' = UnflushedAfter(q, d)
  BY DEF Writes, After, UnflushedAfter, Given, KeepsGhosts

LEMMA Writable ==
  ASSUME Inv
  PROVE  \A a \in Dst : a \in Mem!DevAddrs /\ (~AnyDst => a \in alloc_set)
  BY MemFacts DEF Inv, Dst

LEMMA SrpOpStep ==
  ASSUME Inv, NEW d \in Dst, NEW n \in Arity, NEW srcs \in [1..n -> Mem!DevAddrs], NEW i,
         SrpOp(d, srcs, i)
  PROVE  Inv' /\ (AllCurrent => AllCurrent')
  <1> DEFINE ops == [k \in DOMAIN srcs |-> <<srcs[k]>>]
             found == lookup_or_create(Here, srcs, conf.ring_dim)
             val == Eval([k \in DOMAIN srcs |-> found.poly_map[srcs[k]].val])
             q == IF found.err # "Ok" THEN found
                  ELSE store_compute_result(found, one(d, [val |-> val, mod |-> conf.moduli[i]]))
  <1>1. Shadows /\ Sound(Here) /\ Within(Here) /\ d \in Mem!DevAddrs /\ (~AnyDst => d \in alloc_set)
    BY ShadowsHere, Writable DEF Inv
  <1>2. CASE i \notin DOMAIN conf.moduli
    <2> DEFINE refused == [Here EXCEPT !.err = "InvalidArgument"]
    <2>1. Recorded(refused) /\ KeepsGhosts
      BY <1>2 DEF SrpOp
    <2>2. "InvalidArgument" \in AP!Errors /\ refused = [Here EXCEPT !.err = "InvalidArgument"]
      BY DEF AP!Errors
    <2> HIDE DEF refused
    <2>3. Sound(refused) /\ Within(refused) /\ Carries(Here, refused)
      BY <2>2, ErrorStep
    <2>4. Inv' /\ (Current(refused, truth', unflushed') => AllCurrent')
      BY <2>1, <2>3, SessionEffect
    <2>5. QED BY <2>1, <2>3, <2>4 DEF KeepsGhosts, AllCurrent, Carries
  <1>3. CASE i \in DOMAIN conf.moduli
    <2>1. Recorded(q) /\ Writes(Outcome(<<d>>, ops), {d})
      BY <1>3 DEF SrpOp
    <2>2. conf.moduli[i] \in AllModuli
      <3>1. conf.moduli \in Seq(Moduli)
        BY DEF Inv, Configs
      <3>2. conf.moduli[i] \in Moduli
        BY <1>3, <3>1
      <3>3. QED BY <3>2 DEF AllModuli
    <2>3. DOMAIN srcs = 1..n
      OBVIOUS
    <2> HIDE DEF found
    <2>4. found = lookup_or_create(Here, srcs, conf.ring_dim)
      BY DEF found
    <2>5. val = Eval([k \in DOMAIN srcs |-> found.poly_map[srcs[k]].val])
      OBVIOUS
    <2> HIDE DEF val
    <2>6. q = IF found.err # "Ok" THEN found
              ELSE store_compute_result(found, one(d, [val |-> val, mod |-> conf.moduli[i]]))
      OBVIOUS
    <2>7. ops = [k \in DOMAIN srcs |-> <<srcs[k]>>]
      OBVIOUS
    <2> HIDE DEF q, ops
    <2>8. /\ Sound(q) /\ Within(q)
          /\ Current(Here, truth, unflushed) =>
               Current(q, After(q, <<d>>, Outcome(<<d>>, ops)), UnflushedAfter(q, <<d>>))
      BY <1>1, <2>2, <2>3, <2>4, <2>5, <2>6, <2>7, SingleStep
    <2>9. Inv' /\ err' = q.err /\ (Current(q, truth', unflushed') => AllCurrent')
      BY <2>1, <2>8, SessionEffect
    <2>10. Places(<<d>>) = {d}
      BY DEF Places
    <2>11. truth' = After(q, <<d>>, Outcome(<<d>>, ops)) /\ unflushed' = UnflushedAfter(q, <<d>>)
      BY <2>1, <2>9, <2>10, WritesEffect
    <2>12. QED BY <2>8, <2>9, <2>11 DEF AllCurrent
  <1>4. QED BY <1>2, <1>3

LEMMA AutomorphOpStep ==
  ASSUME Inv, NEW d \in Dst, NEW s \in Mem!DevAddrs, hazeAutomorph(d, s)
  PROVE  Inv' /\ (AllCurrent => AllCurrent')
  <1> DEFINE q == automorph(Here, d, s, conf.ring_dim)
             f == Outcome(<<d>>, <<<<s>>>>)
  <1>1. Shadows /\ Sound(Here) /\ Within(Here) /\ d \in Mem!DevAddrs /\ (~AnyDst => d \in alloc_set)
    BY ShadowsHere, Writable DEF Inv
  <1>2. Recorded(q) /\ Writes(f, {d})
    BY DEF hazeAutomorph
  <1>3. q = automorph(Here, d, s, conf.ring_dim)
    OBVIOUS
  <1> HIDE DEF q
  <1>4. /\ Sound(q) /\ Within(q)
        /\ Current(Here, truth, unflushed) => Current(q, After(q, <<d>>, f), UnflushedAfter(q, <<d>>))
    BY <1>1, <1>3, AutomorphStep
  <1>5. Inv' /\ err' = q.err /\ (Current(q, truth', unflushed') => AllCurrent')
    BY <1>2, <1>4, SessionEffect
  <1>6. Places(<<d>>) = {d}
    BY DEF Places
  <1> HIDE DEF f
  <1>7. truth' = After(q, <<d>>, f) /\ unflushed' = UnflushedAfter(q, <<d>>)
    BY <1>2, <1>5, <1>6, WritesEffect
  <1>8. QED BY <1>4, <1>5, <1>7 DEF AllCurrent

LEMMA CopyOpStep ==
  ASSUME Inv, NEW d \in Dst, NEW s \in Mem!DevAddrs, hazeMemcpyD2D(d, s)
  PROVE  Inv' /\ (AllCurrent => AllCurrent')
  <1> DEFINE q == copy_result(Here, d, s, CopyModulus, conf.ring_dim)
             f == [a \in {d} \cap (IF s \in DOMAIN truth THEN {d} ELSE {}) |-> truth[s]]
  <1>1. Shadows /\ Sound(Here) /\ Within(Here) /\ d \in Mem!DevAddrs /\ (~AnyDst => d \in alloc_set)
    BY ShadowsHere, Writable DEF Inv
  <1>2. Recorded(q) /\ Writes(f, {d})
    BY DEF hazeMemcpyD2D
  <1>3. q = copy_result(Here, d, s, CopyModulus, conf.ring_dim) /\ CopyModulus \in AllModuli
    BY DEF AllModuli
  <1>4. DOMAIN f \subseteq {d} /\ (d \in DOMAIN f => s \in DOMAIN truth /\ f[d] = truth[s])
    OBVIOUS
  <1> HIDE DEF q, f
  <1>5. /\ Sound(q) /\ Within(q)
        /\ q.err # "Ok" => Carries(Here, q)
        /\ q.err = "Ok" => Copies(Here, q, d, s)
    BY <1>1, <1>3, CopyStep
  <1>6. Inv' /\ err' = q.err /\ (Current(q, truth', unflushed') => AllCurrent')
    BY <1>2, <1>5, SessionEffect
  <1>7. CASE q.err = "Ok"
    <2>1. truth' = Given(truth, {d}, f) /\ unflushed' = unflushed \cup {d}
      BY <1>2, <1>6, <1>7 DEF Writes, Given
    <2>2. AllCurrent => Current(q, Given(truth, {d}, f), unflushed \cup {d})
      BY <1>4, <1>5, <1>7 DEF Copies, AllCurrent
    <2>3. QED BY <1>6, <2>1, <2>2
  <1>8. CASE q.err # "Ok"
    <2>1. truth' = truth /\ unflushed' = unflushed
      BY <1>2, <1>6, <1>8 DEF Writes, KeepsGhosts
    <2>2. QED BY <1>5, <1>6, <1>8, <2>1 DEF Carries, AllCurrent
  <1>9. QED BY <1>7, <1>8

LEMMA DistinctAre ==
  ASSUME Inv, NEW base \in Bases
  PROVE  /\ \A d \in Distinct(Dst, base) : Residues(d, base) /\ MayWrite(d)
         /\ \A s \in Distinct(Mem!DevAddrs, base) : Residues(s, base)
  <1>1. \A d \in Distinct(Dst, base) : Residues(d, base)
    BY Writable DEF Distinct, Residues
  <1>2. \A d \in Distinct(Dst, base) : MayWrite(d)
    BY Writable DEF Distinct, MayWrite, Places
  <1>3. QED BY <1>1, <1>2 DEF Distinct, Residues

LEMMA MrpOpStep ==
  ASSUME Inv, NEW base \in Bases, NEW n \in Arity, NEW d \in Distinct(Dst, base),
         NEW ops \in [1..n -> Distinct(Mem!DevAddrs, base)], MrpOp(d, ops, base)
  PROVE  Inv' /\ (AllCurrent => AllCurrent')
  <1> DEFINE q == compute(Here, d, ops, base, conf.ring_dim)
             f == Outcome(d, ops)
  <1>1. Shadows /\ Sound(Here) /\ Within(Here)
    BY ShadowsHere DEF Inv
  <1>2. Recorded(q) /\ Writes(f, Places(d))
    BY DEF MrpOp, Places
  <1>3. q = compute(Here, d, ops, base, conf.ring_dim)
    OBVIOUS
  <1>4. /\ Residues(d, base) /\ MayWrite(d) /\ DOMAIN ops = 1..n /\ Len(ops) = n
        /\ \A j \in 1..n : Residues(ops[j], base)
    BY DistinctAre, ArityAssumption
  <1> HIDE DEF q
  <1>5. /\ Sound(q) /\ Within(q)
        /\ Current(Here, truth, unflushed) => Current(q, After(q, d, f), UnflushedAfter(q, d))
    BY <1>1, <1>3, <1>4, ComputeStep
  <1>6. Inv' /\ err' = q.err /\ (Current(q, truth', unflushed') => AllCurrent')
    BY <1>2, <1>5, SessionEffect
  <1> HIDE DEF f
  <1>7. truth' = After(q, d, f) /\ unflushed' = UnflushedAfter(q, d)
    BY <1>2, <1>6, WritesEffect
  <1>8. QED BY <1>5, <1>6, <1>7 DEF AllCurrent

LEMMA MrpCopyStep ==
  ASSUME Inv, NEW base \in Bases, NEW d \in Distinct(Dst, base),
         NEW s \in Distinct(Mem!DevAddrs, base), hazeMemcpyMrpD2D(d, s, base)
  PROVE  Inv' /\ (AllCurrent => AllCurrent')
  <1> DEFINE q == copy_mrp(Here, d, s, base, conf.ring_dim)
  <1>1. Shadows /\ Sound(Here) /\ Within(Here) /\ Residues(d, base) /\ MayWrite(d)
    BY ShadowsHere, DistinctAre DEF Inv
  <1>2. /\ Recorded(q) /\ unflushed' = unflushed \cup Places(d)
        /\ truth' = IF err' = "Ok" THEN CopiedTruth(d, s)[Len(d)] ELSE T!Drop(truth, Places(d))
    BY DEF hazeMemcpyMrpD2D, Places
  <1>3. q = copy_mrp(Here, d, s, base, conf.ring_dim)
    OBVIOUS
  <1> HIDE DEF q
  <1>4. /\ Sound(q) /\ Within(q)
        /\ Current(Here, truth, unflushed) => Current(q, AfterCopies(q, d, s), unflushed \cup Places(d))
    BY <1>1, <1>3, CopyGroupStep
  <1>5. Inv' /\ err' = q.err /\ (Current(q, truth', unflushed') => AllCurrent')
    BY <1>2, <1>4, SessionEffect
  <1>6. truth' = AfterCopies(q, d, s)
    BY <1>2, <1>5 DEF AfterCopies
  <1>7. QED BY <1>2, <1>4, <1>5, <1>6 DEF AllCurrent

-----------------------------------------------------------------------------
(* Calls that record nothing. *)

(* The epoch is left as it is. *)
LEMMA EpochStays ==
  ASSUME Inv, Leaves(Here), alloc_set \subseteq alloc_set'
  PROVE  Sound(Here)' /\ Bound' = Bound
  <1>1. BoundIn(Here) = Bound /\ (~AnyDst => BoundIn(Here) \subseteq alloc_set')
    BY ShadowsHere DEF Inv, Sound, Rooted
  <1>2. Sound(Here)' /\ BoundIn(Here)' = BoundIn(Here)
    BY <1>1, HereNext DEF Inv
  <1>3. BoundIn(Here)' = Bound'
    BY DEF BoundIn, Here, Bound
  <1>4. QED BY <1>1, <1>2, <1>3

LEMMA KeptHere ==
  ASSUME KeepsEpoch
  PROVE  Leaves(Here) /\ UNCHANGED <<initialized, recording>>
  BY DEF KeepsEpoch, Leaves, Here

LEMMA SettingStep ==
  ASSUME Inv, NEW c \in Configs, c.ring_dim = conf.ring_dim, NEW e \in AP!Errors, Setting(c, e)
  PROVE  Inv' /\ (AllCurrent => AllCurrent')
  <1>1. /\ conf' = c /\ err' = e /\ KeepsAllocations /\ shadow_data' = shadow_data
        /\ KeepsEpoch /\ KeepsGhosts
    BY DEF Setting
  <1>2. Leaves(Here) /\ UNCHANGED <<initialized, recording>>
    BY <1>1, KeptHere
  <1>3. Sound(Here)'
    BY <1>1, <1>2, EpochStays DEF KeepsAllocations
  <1>4. MemInv'
    BY <1>1, HandedBack, MemFacts DEF Inv, IsTable, KeepsAllocations
  <1>5. Values'
    BY <1>1 DEF Inv, Values, KeepsAllocations
  <1>6. conf' \in Configs /\ conf'.ring_dim = poly_bytes'
    BY <1>1 DEF Inv, Configs, KeepsAllocations
  <1>7. AllCurrent => AllCurrent'
    BY <1>1, <1>2 DEF AllCurrent, Current, Here, BoundIn, KeepsGhosts, KeepsEpoch
  <1>8. QED BY <1>2, <1>3, <1>4, <1>5, <1>6, <1>7 DEF Inv

LEMMA ConfigFacts ==
  ASSUME Inv
  PROVE  /\ \A n \in PolySizes : [conf EXCEPT !.ring_dim = n] \in Configs
         /\ \A m \in Seq(Moduli) : [conf EXCEPT !.moduli = m] \in Configs
         /\ [conf EXCEPT !.configured = TRUE] \in Configs
         /\ \A t \in Targets : [conf EXCEPT !.target = t] \in Configs
         /\ \A b \in Toggles : /\ [conf EXCEPT !.montgomery = b] \in Configs
                               /\ [conf EXCEPT !.bit_reversal = b] \in Configs
  BY DEF Inv, Configs

LEMMA NothingHeld == DOMAIN T!Empty = {}
  BY DEF T!Empty

LEMMA RingDimensionStep ==
  ASSUME Inv, NEW n \in Sizes, hazeSetRingDimension(n)
  PROVE  Inv' /\ (AllCurrent => AllCurrent')
  <1>1. CASE n \notin PolySizes \/ (conf.configured /\ conf.ring_dim # n)
    BY <1>1, SettingStep DEF hazeSetRingDimension, Inv, AP!Errors
  <1>2. CASE n \in PolySizes /\ ~(conf.configured /\ conf.ring_dim # n)
    <2>1. /\ conf' = [conf EXCEPT !.ring_dim = n] /\ Mem!set_polynomial_size(n)
          /\ KeepsEpoch /\ truth' \in {truth, T!Empty} /\ UNCHANGED unflushed /\ n \in PolySizes
      BY <1>2 DEF hazeSetRingDimension
    <2>2. MemInv' /\ poly_bytes' = n /\ UNCHANGED <<alloc_set, shadow_data>>
      BY <2>1, SizeEffect DEF Inv
    <2>3. Leaves(Here) /\ UNCHANGED <<initialized, recording>>
      BY <2>1, KeptHere
    <2>4. Sound(Here)'
      BY <2>2, <2>3, EpochStays
    <2>5. conf' \in Configs /\ conf'.ring_dim = n
      BY <2>1, ConfigFacts DEF Inv, Configs
    <2>6. Values'
      BY <2>1, <2>2, PolySizesAssumption DEF Inv, Values
    <2>7. AllCurrent => AllCurrent'
      <3>1. CASE UNCHANGED truth
        BY <2>1, <2>2, <2>3, <3>1 DEF AllCurrent, Current, Here, BoundIn, KeepsEpoch
      <3>2. CASE truth' = T!Empty
        BY <3>2, NothingHeld DEF AllCurrent, Current
      <3>3. QED BY <2>1, <3>1, <3>2
    <2>8. QED BY <2>2, <2>3, <2>4, <2>5, <2>6, <2>7 DEF Inv
  <1>3. QED BY <1>1, <1>2

LEMMA ModulusStep ==
  ASSUME Inv, NEW i \in 1..MaxModuli, NEW q \in Moduli, hazeSetCiphertextModulus(i, q)
  PROVE  Inv' /\ (AllCurrent => AllCurrent')
  <1> DEFINE m == IF i \in DOMAIN conf.moduli THEN [conf.moduli EXCEPT ![i] = q]
                  ELSE Append(conf.moduli, q)
  <1>1. conf.moduli \in Seq(Moduli) /\ conf \in Configs
    BY DEF Inv, Configs
  <1>2. m \in Seq(Moduli)
    BY <1>1
  <1> HIDE DEF m
  <1>3. [conf EXCEPT !.moduli = m] \in Configs /\ [conf EXCEPT !.moduli = m].ring_dim = conf.ring_dim
    BY <1>1, <1>2, ConfigFacts DEF Configs
  <1>4. /\ "Ok" \in AP!Errors /\ "NotConfigured" \in AP!Errors /\ "InvalidArgument" \in AP!Errors
    BY DEF AP!Errors
  <1>5. \/ \E e \in AP!Errors : Setting(conf, e)
        \/ Setting([conf EXCEPT !.moduli = m], "Ok")
    BY <1>4 DEF hazeSetCiphertextModulus, m
  <1>6. QED BY <1>1, <1>3, <1>4, <1>5, SettingStep

LEMMA ConfigureStep ==
  ASSUME Inv, Configure
  PROVE  Inv' /\ (AllCurrent => AllCurrent')
  <1>1. "Ok" \in AP!Errors /\ "NotConfigured" \in AP!Errors /\ conf \in Configs
    BY DEF AP!Errors, Inv
  <1>2. CASE hazeConfigureDevice
    <2>1. \/ Setting(conf, "NotConfigured")
          \/ Setting([conf EXCEPT !.configured = TRUE], "Ok")
      BY <1>2 DEF hazeConfigureDevice
    <2>2. [conf EXCEPT !.configured = TRUE].ring_dim = conf.ring_dim
      BY <1>1 DEF Configs
    <2>3. QED BY <1>1, <2>1, <2>2, ConfigFacts, SettingStep
  <1>3. ASSUME NEW t \in Targets, hazeSetTarget(t) PROVE Inv' /\ (AllCurrent => AllCurrent')
    <2>1. [conf EXCEPT !.target = t].ring_dim = conf.ring_dim
      BY <1>1 DEF Configs
    <2>2. QED BY <1>1, <1>3, <2>1, ConfigFacts, SettingStep DEF hazeSetTarget
  <1>4. ASSUME NEW b \in Toggles, hazeSetMontgomery(b) \/ hazeSetBitReversal(b)
        PROVE  Inv' /\ (AllCurrent => AllCurrent')
    <2>1. /\ [conf EXCEPT !.montgomery = b].ring_dim = conf.ring_dim
          /\ [conf EXCEPT !.bit_reversal = b].ring_dim = conf.ring_dim
      BY <1>1 DEF Configs
    <2>2. QED BY <1>1, <1>4, <2>1, ConfigFacts, SettingStep DEF hazeSetMontgomery, hazeSetBitReversal
  <1>5. QED BY <1>2, <1>3, <1>4, RingDimensionStep, ModulusStep DEF Configure

(* The addresses of S hold what f says, or nothing that is known; the others are as they *)
(* were.                                                                                *)
Untouched(a) ==
  /\ a \in Bound' <=> a \in Bound
  /\ a \in Bound => poly_map'[a].val = poly_map[a].val
  /\ a \in DOMAIN shadow_data' => a \in DOMAIN shadow_data /\ shadow_data'[a] = shadow_data[a]

(* Bindings and shadows of the addresses of f have what f gives them. *)
Follows(f) ==
  \A a \in DOMAIN f : /\ a \in Bound' => poly_map'[a].val = f[a]
                      /\ a \in DOMAIN shadow_data' => shadow_data'[a] = f[a]

LEMMA NothingFollows == Follows(T!Empty)
  BY NothingHeld DEF Follows

LEMMA HoldsStep ==
  ASSUME NEW S, NEW f, DOMAIN f \subseteq S, Holds(S, f), Follows(f),
         \A a \in DOMAIN truth \ S : Untouched(a), AllCurrent
  PROVE  AllCurrent'
  <1>1. /\ DOMAIN truth' = (DOMAIN truth \ S) \cup DOMAIN f
        /\ \A a \in DOMAIN f : truth'[a] = f[a]
        /\ \A a \in DOMAIN truth \ S : truth'[a] = truth[a]
        /\ unflushed' = unflushed \ S
    <2>1. /\ DOMAIN T!Drop(truth, S) = DOMAIN truth \ S
          /\ \A a \in DOMAIN truth \ S : T!Drop(truth, S)[a] = truth[a]
      BY DEF T!Drop, T!Restrict
    <2>2. truth' = T!Put(T!Drop(truth, S), f) /\ unflushed' = unflushed \ S
      BY DEF Holds
    <2>3. QED BY <2>1, <2>2 DEF T!Put
  <1>2. ASSUME NEW a \in DOMAIN truth'
        PROVE  /\ a \in Bound' => poly_map'[a].val = truth'[a]
               /\ a \in DOMAIN shadow_data' \ unflushed' => shadow_data'[a] = truth'[a]
               /\ a \in unflushed' => a \in Bound'
    <2>1. CASE a \in DOMAIN f
      BY <1>1, <2>1 DEF Follows
    <2>2. CASE a \in DOMAIN truth \ S
      <3>1. /\ a \in Bound => poly_map[a].val = truth[a]
            /\ a \in DOMAIN shadow_data \ unflushed => shadow_data[a] = truth[a]
            /\ a \in unflushed => a \in Bound
        BY <2>2 DEF AllCurrent, Current, Here, BoundIn, Bound
      <3>2. QED BY <1>1, <2>2, <3>1 DEF Untouched
    <2>3. QED BY <1>1, <2>1, <2>2
  <1>3. QED BY <1>2 DEF AllCurrent, Current, Here, BoundIn, Bound

LEMMA MallocStep ==
  ASSUME Inv, NEW k \in Nat, NEW n, hazeMalloc(n) \/ hazeMallocMrp(k, n)
  PROVE  Inv' /\ (AllCurrent => AllCurrent')
  <1>1. /\ Mem!allocate(n) \/ Mem!allocate_many(k, n)
        /\ KeepsEpoch /\ UNCHANGED conf /\ Holds(Fresh, T!Empty)
    BY DEF hazeMalloc, hazeMallocMrp
  <1>2. /\ MemInv' /\ alloc_set \subseteq alloc_set' /\ UNCHANGED <<shadow_data, poly_bytes>>
        /\ alloc_set' # alloc_set => poly_bytes # 0
    BY <1>1, AllocateEffect DEF Inv
  <1>3. Leaves(Here) /\ UNCHANGED <<initialized, recording>>
    BY <1>1, KeptHere
  <1>4. Sound(Here)' /\ Bound' = Bound
    BY <1>2, <1>3, EpochStays
  <1>5. Values' /\ conf' \in Configs /\ conf'.ring_dim = poly_bytes'
    BY <1>1, <1>2 DEF Inv, Values, Configs
  <1>6. \A a \in DOMAIN truth \ Fresh : Untouched(a)
    BY <1>1, <1>2, <1>4 DEF Untouched, KeepsEpoch
  <1>7. AllCurrent => AllCurrent'
    BY <1>1, <1>6, NothingHeld, NothingFollows, HoldsStep
  <1>8. QED BY <1>2, <1>3, <1>4, <1>5, <1>7 DEF Inv

(* The epoch has let go of the addresses of S. *)
LEMMA InvalidatedEffect ==
  ASSUME Inv, NEW s, Invalidated(s), NEW S, S = T!Range(s) \ {Mem!Null}, S \subseteq Mem!DevAddrs,
         ~AnyDst /\ Bound \ S \subseteq alloc_set => Bound \ S \subseteq alloc_set'
  PROVE  /\ Sound(Here)' /\ Bound' = Bound \ S /\ UNCHANGED <<recording, initialized, conf>>
         /\ \A a \in Bound' : poly_map'[a] = poly_map[a]
  <1> DEFINE q == invalidate(Here, S)
  <1>1. Leaves(q) /\ UNCHANGED <<recording, initialized, conf>>
    BY DEF Invalidated, Leaves
  <1>2. q = invalidate(Here, S)
    OBVIOUS
  <1> HIDE DEF q
  <1>3. Sound(q) /\ BoundIn(q) = Bound \ S /\ \A a \in BoundIn(q) : q.poly_map[a] = poly_map[a]
    BY <1>2, ForgetStep, ShadowsHere DEF Inv, Here
  <1>4. ~AnyDst => BoundIn(q) \subseteq alloc_set'
    BY <1>3, ShadowsHere DEF Inv, Sound, Rooted
  <1>5. Sound(Here)' /\ BoundIn(Here)' = BoundIn(q)
    BY <1>1, <1>3, <1>4, HereNext
  <1>6. BoundIn(Here)' = Bound'
    BY DEF BoundIn, Here, Bound
  <1>7. QED BY <1>1, <1>3, <1>5, <1>6 DEF Leaves

LEMMA FreeStep ==
  ASSUME Inv, NEW a \in Mem!DevAddrs \cup {Mem!Null}, hazeFree(a)
  PROVE  Inv' /\ (AllCurrent => AllCurrent')
  <1> DEFINE S == T!Range(<<a>>) \ {Mem!Null}
  <1>1. Invalidated(<<a>>) /\ Mem!free(a) /\ Holds({a}, T!Empty)
    BY DEF hazeFree
  <1>2. MemInv' /\ Frees({a})
    BY <1>1, ReleaseEffect DEF Inv
  <1>3. S = {a} \ {Mem!Null} /\ Mem!Null \notin Mem!DevAddrs
    BY AddrAssumption DEF T!Range, Mem!DevAddrs, Mem!Null
  <1>4. S = T!Range(<<a>>) \ {Mem!Null} /\ S \subseteq Mem!DevAddrs
    BY <1>3
  <1> HIDE DEF S
  <1>5. Bound \ S \subseteq alloc_set => Bound \ S \subseteq alloc_set'
    BY <1>2, <1>3, MemFacts DEF Frees, Inv
  <1>6. /\ Sound(Here)' /\ Bound' = Bound \ S /\ UNCHANGED <<recording, initialized, conf>>
        /\ \A x \in Bound' : poly_map'[x] = poly_map[x]
    BY <1>1, <1>4, <1>5, InvalidatedEffect
  <1>7. Values' /\ conf' \in Configs /\ conf'.ring_dim = poly_bytes'
    BY <1>2, <1>6 DEF Inv, Values, Configs, Frees
  <1>8. \A x \in DOMAIN truth \ {a} : Untouched(x)
    BY <1>2, <1>3, <1>6 DEF Untouched, Frees
  <1>9. AllCurrent => AllCurrent'
    BY <1>1, <1>8, NothingHeld, NothingFollows, HoldsStep
  <1>10. QED BY <1>2, <1>6, <1>7, <1>9 DEF Inv

LEMMA FreeMrpStep ==
  ASSUME Inv, NEW addrs \in Mem!Groups, hazeFreeMrp(addrs)
  PROVE  Inv' /\ (AllCurrent => AllCurrent')
  <1> DEFINE S == T!Range(addrs) \ {Mem!Null}
             all == T!Range(addrs)
  <1>1. Invalidated(addrs) /\ Mem!free_many(addrs) /\ Holds({addrs[i] : i \in DOMAIN addrs}, T!Empty)
    BY DEF hazeFreeMrp
  <1>2. all = {addrs[i] : i \in DOMAIN addrs}
    BY DEF T!Range
  <1>3. MemInv' /\ Frees(all)
    BY <1>1, ReleaseManyEffect DEF Inv
  <1>4. all \subseteq Mem!DevAddrs \cup {Mem!Null}
    BY <1>2 DEF Mem!Groups
  <1>5. S = T!Range(addrs) \ {Mem!Null} /\ S = all \ {Mem!Null} /\ S \subseteq Mem!DevAddrs
    BY <1>4
  <1>6. Mem!Null \notin Mem!DevAddrs
    BY AddrAssumption DEF Mem!DevAddrs, Mem!Null
  <1> HIDE DEF S, all
  <1>7. Bound \ S \subseteq alloc_set => Bound \ S \subseteq alloc_set'
    BY <1>3, <1>5, <1>6, MemFacts DEF Frees, Inv
  <1>8. /\ Sound(Here)' /\ Bound' = Bound \ S /\ UNCHANGED <<recording, initialized, conf>>
        /\ \A x \in Bound' : poly_map'[x] = poly_map[x]
    BY <1>1, <1>5, <1>7, InvalidatedEffect
  <1>9. Values' /\ conf' \in Configs /\ conf'.ring_dim = poly_bytes'
    BY <1>3, <1>8 DEF Inv, Values, Configs, Frees
  <1>10. \A x \in DOMAIN truth \ all : Untouched(x)
    BY <1>3, <1>5, <1>8 DEF Untouched, Frees
  <1>11. AllCurrent => AllCurrent'
    BY <1>1, <1>2, <1>10, NothingHeld, NothingFollows, HoldsStep
  <1>12. QED BY <1>3, <1>8, <1>9, <1>11 DEF Inv

(* What the program has at an address written over is what its shadow has.               *)
LEMMA OverwrittenIs ==
  ASSUME Inv, AllCurrent, NEW f, \A a \in DOMAIN f : f[a] \in Seq(Words)
  PROVE  /\ DOMAIN Overwritten(f) \subseteq DOMAIN f
         /\ \A a \in DOMAIN Overwritten(f) : Mem!Written(f)[a] = Overwritten(f)[a]
  <1> DEFINE known == {a \in (DOMAIN truth \cap DOMAIN shadow_data) \ unflushed : Len(truth[a]) = poly_bytes}
             whole == {a \in DOMAIN f : Len(f[a]) = poly_bytes}
  <1>1. /\ DOMAIN Overwritten(f) = whole \cup (DOMAIN f \cap known)
        /\ \A a \in whole : Overwritten(f)[a] = f[a]
        /\ \A a \in (DOMAIN f \cap known) \ whole : Overwritten(f)[a] = Mem!Overlay(truth[a], f[a])
    BY DEF Overwritten
  <1>2. \A a \in DOMAIN f : Mem!Written(f)[a] = Mem!Overlay(Mem!Staged(a), f[a])
    BY DEF Mem!Written, Mem!Put
  <1>3. ASSUME NEW a \in whole PROVE Mem!Overlay(Mem!Staged(a), f[a]) = f[a]
    <2>1. poly_bytes \in Nat /\ Len(Mem!Staged(a)) = poly_bytes
      BY PolySizesAssumption DEF Mem!Staged, Mem!Zeros, Inv, Configs
    <2>2. f[a] \in Seq(Words) /\ Len(f[a]) = poly_bytes
      OBVIOUS
    <2>3. f[a] = [i \in 1..poly_bytes |-> f[a][i]]
      BY <2>1, <2>2
    <2>4. Mem!Overlay(Mem!Staged(a), f[a]) = [i \in 1..poly_bytes |-> f[a][i]]
      BY <2>1, <2>2 DEF Mem!Overlay
    <2>5. QED BY <2>3, <2>4
  <1>4. ASSUME NEW a \in known PROVE Mem!Staged(a) = truth[a]
    BY DEF Mem!Staged, AllCurrent, Current, Here
  <1>5. QED BY <1>1, <1>2, <1>3, <1>4

LEMMA MemsetStep ==
  ASSUME Inv, NEW a \in Mem!DevAddrs, NEW w \in Words, NEW n \in Sizes, hazeMemset(a, w, n)
  PROVE  Inv' /\ (AllCurrent => AllCurrent')
  <1>0. n \in Nat
    BY PolySizesAssumption DEF Sizes, Mem!Sizes
  <1>1. Mem!memset(a, w, n)
    BY DEF hazeMemset
  <1>2. /\ MemInv' /\ UNCHANGED <<alloc_set, poly_bytes>>
        /\ IF err' = "Ok"
           THEN /\ a \in alloc_set /\ DOMAIN shadow_data' = DOMAIN shadow_data \cup {a}
                /\ shadow_data'[a] \in Poly
                /\ \A x \in DOMAIN shadow_data \ {a} : shadow_data'[x] = shadow_data[x]
           ELSE shadow_data' = shadow_data
    BY <1>0, <1>1, MemsetEffect DEF Inv, Values
  <1>3. Values'
    <2>1. \A x \in DOMAIN shadow_data' : shadow_data'[x] \in Poly
      BY <1>2 DEF Inv, Values
    <2>2. QED BY <1>2, <2>1 DEF Inv, Values
  <1>4. CASE err' = "Ok"
    <2> DEFINE S == T!Range(<<a>>) \ {Mem!Null}
             f == one(a, Mem!Fill(w, n))
    <2>1. Invalidated(<<a>>) /\ Holds({a}, Overwritten(f))
      BY <1>4 DEF hazeMemset
    <2>2. S = {a} /\ S = T!Range(<<a>>) \ {Mem!Null}
      BY AddrAssumption DEF T!Range, Mem!DevAddrs, Mem!Null
    <2> HIDE DEF S
    <2>3. /\ Sound(Here)' /\ Bound' = Bound \ S /\ UNCHANGED <<recording, initialized, conf>>
          /\ \A x \in Bound' : poly_map'[x] = poly_map[x]
      BY <1>2, <2>1, <2>2, InvalidatedEffect
    <2>4. \A x \in DOMAIN truth \ {a} : Untouched(x)
      BY <1>2, <1>4, <2>2, <2>3 DEF Untouched
    <2>5. DOMAIN f = {a} /\ f[a] \in Seq(Words) /\ shadow_data' = Mem!Written(f)
      <3>1. DOMAIN f = {a} /\ f[a] = Mem!Fill(w, n)
        BY OneIs
      <3>2. Mem!Fill(w, n) \in Seq(Words)
        BY <1>0 DEF Mem!Fill
      <3>3. shadow_data' = Mem!Written(f)
        <4>1. Mem!WriteError(a, n) = "Ok"
          BY <1>1, <1>4 DEF Mem!memset, Mem!fail
        <4>2. QED BY <1>1, <4>1 DEF Mem!memset, Mem!set_shadow, one
      <3>4. QED BY <3>1, <3>2, <3>3
    <2> HIDE DEF f
    <2>6. ASSUME AllCurrent PROVE AllCurrent'
      <3>1. /\ DOMAIN Overwritten(f) \subseteq {a}
            /\ \A x \in DOMAIN Overwritten(f) : shadow_data'[x] = Overwritten(f)[x]
        BY <2>5, <2>6, OverwrittenIs
      <3>2. a \notin Bound'
        BY <2>2, <2>3
      <3> PICK g : g = Overwritten(f)
        OBVIOUS
      <3>3. DOMAIN g \subseteq {a} /\ Holds({a}, g) /\ \A x \in DOMAIN g : shadow_data'[x] = g[x]
        BY <2>1, <3>1
      <3>4. Follows(g)
        BY <3>2, <3>3 DEF Follows
      <3>5. QED BY <2>4, <2>6, <3>3, <3>4, HoldsStep
    <2>7. QED BY <1>2, <1>3, <2>3, <2>6 DEF Inv, Configs
  <1>5. CASE err' # "Ok"
    <2>1. KeepsEpoch /\ UNCHANGED conf /\ KeepsGhosts
      BY <1>5 DEF hazeMemset
    <2>2. Leaves(Here) /\ UNCHANGED <<initialized, recording>>
      BY <2>1, KeptHere
    <2>3. Sound(Here)'
      BY <1>2, <2>2, EpochStays
    <2>4. AllCurrent => AllCurrent'
      BY <1>2, <1>5, <2>1 DEF AllCurrent, Current, Here, BoundIn, KeepsGhosts, KeepsEpoch
    <2>5. QED BY <1>2, <1>3, <2>1, <2>2, <2>3, <2>4 DEF Inv, Configs
  <1>6. QED BY <1>4, <1>5

LEMMA OtherStep ==
  ASSUME Inv, NEW a, NEW n,
         hazeMemcpyD2H(a, n) \/ \E p \in Hosts : hazeHostAlloc(p) \/ hazeFreeHost(p)
  PROVE  Inv' /\ (AllCurrent => AllCurrent')
  <1>1. /\ KeepsEpoch /\ UNCHANGED conf /\ KeepsGhosts
        /\ \/ Mem!copy_to_host(a, n)
           \/ \E p \in Hosts : Mem!register_host_pointer(p) \/ Mem!unregister_host_pointer(p)
    BY DEF hazeMemcpyD2H, hazeHostAlloc, hazeFreeHost
  <1>2. MemInv' /\ UNCHANGED <<alloc_set, shadow_data, poly_bytes>>
    BY <1>1, OtherEffect DEF Inv
  <1>3. Leaves(Here) /\ UNCHANGED <<initialized, recording>>
    BY <1>1, KeptHere
  <1>4. Sound(Here)'
    BY <1>2, <1>3, EpochStays
  <1>5. AllCurrent => AllCurrent'
    BY <1>1, <1>2 DEF AllCurrent, Current, Here, BoundIn, KeepsGhosts, KeepsEpoch
  <1>6. QED BY <1>1, <1>2, <1>3, <1>4, <1>5 DEF Inv, Values, Configs

-----------------------------------------------------------------------------
(* Uploads. *)

(* The shadows s are those there were, but for a polynomial of the current size at each  *)
(* address of S.                                                                        *)
Overlaid(s, S) ==
  /\ IsTable(s) /\ DOMAIN s = DOMAIN shadow_data \cup S
  /\ \A a \in S : s[a] \in Poly /\ Len(s[a]) = poly_bytes
  /\ \A a \in DOMAIN shadow_data \ S : s[a] = shadow_data[a]
  /\ DOMAIN s \subseteq alloc_set /\ \A a \in DOMAIN s : s[a] \in Poly

LEMMA WrittenIs ==
  ASSUME Inv, NEW f, DOMAIN f \subseteq alloc_set, \A a \in DOMAIN f : f[a] \in Seq(Words),
         NEW s, s = Mem!Written(f)
  PROVE  Overlaid(s, DOMAIN f)
  <1> DEFINE new == [a \in DOMAIN f |-> Mem!Overlay(Mem!Staged(a), f[a])]
  <1>1. s = Mem!Put(shadow_data, new) /\ DOMAIN new = DOMAIN f
    BY DEF Mem!Written
  <1>2. \A a \in DOMAIN f : new[a] \in Poly /\ Len(new[a]) = poly_bytes
    <2>1. DOMAIN f # {} => poly_bytes # 0
      BY DEF Inv, Values
    <2>2. QED BY <2>1, OverlayIsPoly DEF Inv
  <1> HIDE DEF new
  <1>3. IsTable(s)
    BY <1>1 DEF IsTable, Mem!Put
  <1>4. /\ DOMAIN s = DOMAIN shadow_data \cup DOMAIN f
        /\ \A a \in DOMAIN f : s[a] = new[a]
        /\ \A a \in DOMAIN shadow_data \ DOMAIN f : s[a] = shadow_data[a]
    BY <1>1 DEF Mem!Put
  <1>5. DOMAIN shadow_data \subseteq alloc_set /\ \A a \in DOMAIN shadow_data : shadow_data[a] \in Poly
    BY ShadowsHere DEF Shadows
  <1>6. QED BY <1>2, <1>3, <1>4, <1>5 DEF Overlaid

(* The residues that are refused, those written before the first of them, and what is    *)
(* written at which address.                                                            *)
Refused(d, vals) == {i \in DOMAIN d : Mem!WriteError(d[i], Len(vals[i])) # "Ok"}
FirstOf(S) == CHOOSE i \in S : \A j \in S : i <= j
Accepted(d, vals) ==
  IF Refused(d, vals) = {} THEN DOMAIN d ELSE 1..(FirstOf(Refused(d, vals)) - 1)
Payloads(d, vals) ==
  [a \in {d[i] : i \in Accepted(d, vals)} |-> vals[CHOOSE i \in DOMAIN d : d[i] = a]]

(* The addresses written are live, and what is written there was uploaded.              *)
LEMMA UploadFacts ==
  ASSUME Inv, NEW m \in Nat, NEW d, DOMAIN d = 1..m, NEW vals, \A i \in DOMAIN d : vals[i] \in Uploads
  PROVE  /\ DOMAIN Payloads(d, vals) = {d[i] : i \in Accepted(d, vals)}
         /\ DOMAIN Payloads(d, vals) \subseteq alloc_set
         /\ \A a \in DOMAIN Payloads(d, vals) : Payloads(d, vals)[a] \in Seq(Words)
  <1> DEFINE refused == Refused(d, vals)
             first == FirstOf(refused)
             written == Accepted(d, vals)
             f == Payloads(d, vals)
  <1>1. refused # {} => first \in refused /\ \A j \in refused : first <= j
    <2>1. refused \subseteq Nat
      BY DEF Refused
    <2> HIDE DEF refused
    <2>2. QED BY <2>1, Least DEF FirstOf
  <1>2. written \subseteq DOMAIN d /\ \A i \in written : i \notin refused
    <2>1. refused \subseteq 1..m
      BY DEF Refused
    <2>2. written = IF refused = {} THEN DOMAIN d ELSE 1..(first - 1)
      BY DEF Accepted
    <2> HIDE DEF refused, first, written
    <2>3. CASE refused = {}
      BY <2>2, <2>3
    <2>4. CASE refused # {}
      <3>1. first \in 1..m /\ written = 1..(first - 1)
        BY <1>1, <2>1, <2>2, <2>4
      <3>2. ASSUME NEW i \in written PROVE i \in 1..m /\ i < first
        BY <3>1
      <3>3. ASSUME NEW i \in written, i \in refused PROVE FALSE
        <4>1. first <= i /\ i < first /\ i \in Nat /\ first \in Nat
          BY <1>1, <2>4, <3>1, <3>2, <3>3
        <4>2. QED BY <4>1
      <3>4. QED BY <3>2, <3>3
    <2>5. QED BY <2>3, <2>4
  <1>3. \A i \in written : d[i] \in alloc_set
    BY <1>2 DEF Mem!WriteError, Refused
  <1>4. ASSUME NEW a \in {d[i] : i \in written}
        PROVE  vals[CHOOSE i \in DOMAIN d : d[i] = a] \in Seq(Words)
    <2>1. (CHOOSE i \in DOMAIN d : d[i] = a) \in DOMAIN d
      BY <1>2
    <2>2. QED BY <2>1, UploadsAssumption
  <1>5. /\ DOMAIN f = {d[i] : i \in written}
        /\ \A a \in {d[i] : i \in written} : f[a] = vals[CHOOSE i \in DOMAIN d : d[i] = a]
    BY DEF Payloads
  <1>6. DOMAIN f \subseteq alloc_set
    BY <1>3, <1>5
  <1>7. \A a \in DOMAIN f : f[a] \in Seq(Words)
    BY <1>4, <1>5
  <1>8. QED BY <1>5, <1>6, <1>7

LEMMA UploadOpStep ==
  ASSUME Inv, NEW m \in Nat \ {0}, NEW d, DOMAIN d = 1..m, Places(d) \subseteq Mem!DevAddrs,
         NEW vals, \A i \in DOMAIN d : vals[i] \in Uploads, Upload(d, vals)
  PROVE  Inv' /\ (AllCurrent => AllCurrent')
  <1> DEFINE refused == Refused(d, vals)
             first == FirstOf(refused)
             f == Payloads(d, vals)
             s == Mem!Written(f)
             W == {d[i] : i \in Accepted(d, vals)}
             st == [Here EXCEPT !.shadow_data = s]
             q == tag_h2d_input(st, d, conf.ring_dim)
  <1>1. IF refused # {}
        THEN /\ shadow_data' = s /\ err' = Mem!WriteError(d[first], Len(vals[first]))
             /\ KeepsEpoch /\ KeepsAllocations /\ UNCHANGED conf /\ Holds(W, T!Empty)
        ELSE Recorded(q) /\ Holds(W, Overwritten(f))
    BY DEF Upload, Refused, FirstOf, Accepted, Payloads
  <1>2. refused = {} => Accepted(d, vals) = DOMAIN d
    BY DEF Accepted
  <1>3. DOMAIN f = W /\ DOMAIN f \subseteq alloc_set /\ \A a \in DOMAIN f : f[a] \in Seq(Words)
    BY UploadFacts
  <1>4. Mem!WriteError(d[first], Len(vals[first])) \in AP!Errors
    BY DEF Mem!WriteError, AP!Errors
  <1>5. s = Mem!Written(f) /\ st = [Here EXCEPT !.shadow_data = s]
        /\ q = tag_h2d_input(st, d, conf.ring_dim)
    OBVIOUS
  <1>6. refused = {} => W = Places(d)
    BY <1>2 DEF Places
  <1> HIDE DEF refused, first, W, f, s, st, q
  <1>7. Overlaid(s, DOMAIN f)
    BY <1>3, <1>5, WrittenIs
  <1>8. /\ IsTable(s) /\ DOMAIN s = DOMAIN shadow_data \cup W
        /\ \A a \in W : s[a] \in Poly /\ Len(s[a]) = poly_bytes
        /\ \A a \in DOMAIN shadow_data \ W : s[a] = shadow_data[a]
        /\ DOMAIN s \subseteq alloc_set /\ \A a \in DOMAIN s : s[a] \in Poly
    BY <1>3, <1>7 DEF Overlaid
  <1>9. W \subseteq alloc_set /\ (refused = {} => W = Places(d))
    BY <1>3, <1>6
  <1>10. ASSUME shadow_data' = s, err' \in AP!Errors, KeepsAllocations
        PROVE  MemInv' /\ Values'
    <2>1. MemInv'
      BY <1>8, <1>10, HandedBack, PolyIsSeq DEF Inv
    <2>2. QED BY <1>8, <1>10, <2>1 DEF Inv, Values, KeepsAllocations
  <1>11. CASE refused # {}
    <2>1. /\ shadow_data' = s /\ err' \in AP!Errors /\ KeepsEpoch /\ KeepsAllocations
          /\ UNCHANGED conf /\ Holds(W, T!Empty)
      BY <1>1, <1>4, <1>11
    <2>2. Leaves(Here) /\ UNCHANGED <<initialized, recording>>
      BY <2>1, KeptHere
    <2>3. Sound(Here)' /\ Bound' = Bound
      BY <2>1, <2>2, EpochStays DEF KeepsAllocations
    <2>4. \A a \in DOMAIN truth \ W : Untouched(a)
      BY <1>8, <2>1, <2>3 DEF Untouched, KeepsEpoch
    <2>5. AllCurrent => AllCurrent'
      BY <2>1, <2>4, NothingHeld, NothingFollows, HoldsStep
    <2>6. QED BY <1>10, <2>1, <2>2, <2>3, <2>5 DEF Inv, Configs, KeepsAllocations
  <1>12. CASE refused = {}
    <2>1. Recorded(q) /\ Holds(W, Overwritten(f)) /\ W = Places(d)
      BY <1>1, <1>9, <1>12
    <2>2. /\ DOMAIN st = SessionFields /\ st.poly_map = poly_map /\ st.reg = reg
          /\ st.input_addrs = input_addrs /\ st.addr_modulus = addr_modulus
          /\ st.mrp_in = mrp_in /\ st.shadow_data = s /\ st.err = "Ok"
      BY <1>5 DEF Here, SessionFields
    <2>3. Sound(Here) /\ Here.poly_map = poly_map /\ Here.reg = reg
          /\ Here.input_addrs = input_addrs /\ Here.addr_modulus = addr_modulus
          /\ Here.mrp_in = mrp_in /\ Here.err = "Ok" /\ Here.shadow_data = shadow_data
      BY DEF Inv, Here
    <2>4. Sound(st)
      BY <2>2, <2>3 DEF Sound, Typed, Rooted, Moduled, recorded_modulus, BoundIn
    <2>5. conf.ring_dim = poly_bytes /\ conf.ring_dim # 0
      <3>1. d[1] \in W
        BY <2>1 DEF Places
      <3>2. QED BY <1>9, <3>1 DEF Inv, Values
    <2>6. \A a \in Places(d) : st.shadow_data[a] \in Poly /\ Len(st.shadow_data[a]) = conf.ring_dim
      BY <1>8, <2>1, <2>2, <2>5
    <2>7. Sound(q) /\ q.err = "Ok" /\ q.shadow_data = st.shadow_data /\ Rebinds(st, q, d)
      <3>1. ~AnyDst => Places(d) \subseteq alloc_set
        BY <1>9, <2>1
      <3> DEFINE n == conf.ring_dim
      <3>2. q = tag_h2d_input(st, d, n) /\ n # 0
        BY <1>5, <2>5
      <3>3. \A a \in Places(d) : st.shadow_data[a] \in Poly /\ Len(st.shadow_data[a]) = n
        BY <2>6
      <3> HIDE DEF n
      <3>4. Sound(q) /\ q.err = "Ok" /\ q.shadow_data = st.shadow_data /\ Rebinds(st, q, d)
        BY <2>2, <2>4, <3>1, <3>2, <3>3, UploadStep
      <3>5. QED BY <2>2, <3>4
    <2>8. /\ Leaves(q) /\ shadow_data' = s /\ err' = "Ok" /\ KeepsAllocations
          /\ UNCHANGED conf /\ Session
      BY <2>1, <2>2, <2>7 DEF Recorded, Become, Leaves
    <2>9. Sound(Here)'
      BY <2>7, <2>8, HereNext DEF Sound, Rooted, KeepsAllocations
    <2>10. MemInv' /\ Values'
      BY <1>10, <2>8 DEF AP!Errors
    <2>11. initialized' \in BOOLEAN /\ recording' \in BOOLEAN
      BY <2>8, Zenon DEF Session, ensure_initialized, Inv
    <2>12. AllCurrent => AllCurrent'
      <3>1. SUFFICES ASSUME AllCurrent PROVE AllCurrent'
        OBVIOUS
      <3>2. Current(st, T!Drop(truth, Places(d)), unflushed)
        <4>1. /\ DOMAIN T!Drop(truth, Places(d)) = DOMAIN truth \ W
              /\ \A a \in DOMAIN truth \ W : T!Drop(truth, Places(d))[a] = truth[a]
          BY <2>1 DEF T!Drop, T!Restrict
        <4>2. QED BY <1>8, <2>2, <2>3, <3>1, <4>1 DEF AllCurrent, Current, BoundIn
      <3>3. truth' = Given(truth, Places(d), Overwritten(f)) /\ unflushed' = unflushed \ Places(d)
        BY <2>1 DEF Holds, Given
      <3> DEFINE g == Overwritten(f)
      <3>4. DOMAIN g \subseteq Places(d) /\ \A a \in DOMAIN g : g[a] = s[a]
        BY <1>3, <1>5, <2>1, <3>1, OverwrittenIs
      <3> HIDE DEF g
      <3>5. Current(q, truth', unflushed')
        <4>1. truth' = Given(truth, Places(d), g)
          BY <3>3 DEF g
        <4>2. QED BY <2>2, <2>7, <3>2, <3>3, <3>4, <4>1 DEF Rebinds
      <3>6. QED BY <2>2, <2>7, <2>8, <3>5 DEF AllCurrent, Current, Here, BoundIn, Leaves
    <2>13. QED BY <2>8, <2>9, <2>10, <2>11, <2>12 DEF Inv, Configs, KeepsAllocations
  <1>13. QED BY <1>11, <1>12

LEMMA H2DStep ==
  ASSUME Inv, NEW a \in Mem!DevAddrs, NEW src \in Uploads, hazeMemcpyH2D(a, src)
  PROVE  Inv' /\ (AllCurrent => AllCurrent')
  <1>1. DOMAIN <<a>> = 1..1 /\ 1 \in Nat \ {0} /\ Places(<<a>>) \subseteq Mem!DevAddrs
    BY DEF Places
  <1>2. \A i \in DOMAIN <<a>> : <<src>>[i] \in Uploads
    OBVIOUS
  <1>3. Upload(<<a>>, <<src>>)
    BY DEF hazeMemcpyH2D
  <1>4. QED BY <1>1, <1>2, <1>3, UploadOpStep

LEMMA MrpH2DStep ==
  ASSUME Inv, NEW base \in Bases, NEW d \in Distinct(Mem!DevAddrs, base), NEW src \in Uploads,
         hazeMemcpyMrpH2D(d, src)
  PROVE  Inv' /\ (AllCurrent => AllCurrent')
  <1>1. DOMAIN d = 1..Len(base) /\ Len(base) \in Nat \ {0} /\ Places(d) \subseteq Mem!DevAddrs
    BY BasesAssumption DEF Places, Distinct
  <1> DEFINE vals == [i \in DOMAIN d |-> src]
  <1>2. \A i \in DOMAIN d : vals[i] \in Uploads
    OBVIOUS
  <1>3. Upload(d, vals)
    BY DEF hazeMemcpyMrpH2D
  <1> HIDE DEF vals
  <1>4. QED BY <1>1, <1>2, <1>3, UploadOpStep

-----------------------------------------------------------------------------
(* Outputs. *)

(* One size for all polynomials.  With another in force a flush cuts or pads what it     *)
(* brings back (allocator.cpp:323-335).                                                 *)
OneSize == \A m, n \in PolySizes : m = n

LEMMA BecomeEffect ==
  ASSUME Inv, NEW q, Sound(q), Become(q), KeepsAllocations, UNCHANGED <<conf, initialized>>,
         recording' \in BOOLEAN, IsTable(q.shadow_data), DOMAIN q.shadow_data \subseteq alloc_set,
         \A a \in DOMAIN q.shadow_data : q.shadow_data[a] \in Poly
  PROVE  /\ Inv' /\ BoundIn(Here)' = BoundIn(q)
         /\ Current(q, truth', unflushed') => AllCurrent'
  <1>1. Leaves(q) /\ shadow_data' = q.shadow_data /\ err' = q.err
    BY DEF Become, Leaves
  <1>2. Sound(Here)' /\ BoundIn(Here)' = BoundIn(q)
    BY <1>1, HereNext DEF Sound, Rooted, KeepsAllocations
  <1>3. MemInv'
    BY <1>1, HandedBack, PolyIsSeq DEF Inv, Sound, Typed
  <1>4. Values' /\ conf' \in Configs /\ conf'.ring_dim = poly_bytes' /\ initialized' \in BOOLEAN
    BY <1>1 DEF Inv, Values, Configs, KeepsAllocations
  <1>5. Current(q, truth', unflushed') => AllCurrent'
    BY <1>1 DEF AllCurrent, Current, Here, BoundIn, Leaves
  <1>6. QED BY <1>2, <1>3, <1>4, <1>5 DEF Inv

LEMMA TagOutputStep ==
  ASSUME Inv, NEW a \in Mem!DevAddrs, hazeTagOutput(a)
  PROVE  Inv' /\ (AllCurrent => AllCurrent')
  <1> DEFINE q == tag_output(Here, a)
  <1>1. Become(q) /\ KeepsAllocations /\ KeepsGhosts /\ UNCHANGED <<recording, initialized, conf>>
    BY DEF hazeTagOutput
  <1>2. q = tag_output(Here, a) /\ Here.shadow_data = shadow_data
    BY DEF Here
  <1> HIDE DEF q
  <1>3. Sound(q) /\ Carries(Here, q) /\ q.shadow_data = shadow_data
    BY <1>2, TagStep DEF Inv
  <1>4. IsTable(shadow_data) /\ DOMAIN shadow_data \subseteq alloc_set
        /\ \A x \in DOMAIN shadow_data : shadow_data[x] \in Poly
    BY ShadowsHere, <1>2 DEF Shadows, Within
  <1>5. Inv' /\ (Current(q, truth', unflushed') => AllCurrent')
    BY <1>1, <1>3, <1>4, BecomeEffect DEF Inv
  <1>6. QED BY <1>1, <1>3, <1>5 DEF KeepsGhosts, Carries, AllCurrent

(* A finalize that leaves the epoch open. *)
LEMMA KeptStep ==
  ASSUME Inv, NEW e \in AP!Errors, Become([Here EXCEPT !.err = e]), UNCHANGED recording,
         KeepsAllocations, UNCHANGED <<conf, initialized, truth, unflushed>>
  PROVE  Inv' /\ (AllCurrent => AllCurrent')
  <1> DEFINE q == [Here EXCEPT !.err = e]
  <1>1. Become(q) /\ q = [Here EXCEPT !.err = e]
    OBVIOUS
  <1> HIDE DEF q
  <1>2. Sound(q) /\ Carries(Here, q) /\ q.shadow_data = shadow_data
    BY <1>1, ErrorStep
  <1>3. IsTable(shadow_data) /\ DOMAIN shadow_data \subseteq alloc_set
        /\ \A x \in DOMAIN shadow_data : shadow_data[x] \in Poly
    BY ShadowsHere DEF Shadows, Within, Here
  <1>4. Inv' /\ (Current(q, truth', unflushed') => AllCurrent')
    BY <1>1, <1>2, <1>3, BecomeEffect DEF Inv
  <1>5. QED BY <1>2, <1>4 DEF Carries, AllCurrent

(* No two outputs have one name: what an address reads back is what it is bound to.     *)
LEMMA ResultIs ==
  ASSUME Inv, NEW a \in Pending
  PROVE  ResultAt(a) = poly_map[a].val
  <1>1. \A b \in Pending : reg.pending_outputs[b] = reg.pending_outputs[a] => b = a
    BY DEF Inv, Sound, Booked, GP!Good, GP!Outputs, GP!IsInjective, Pending, Here
  <1>2. (CHOOSE b \in Pending : reg.pending_outputs[b] = reg.pending_outputs[a]) = a
    BY <1>1
  <1>3. QED BY <1>2 DEF ResultAt

LEMMA ResizedIs ==
  ASSUME Inv, alloc_set # {}, NEW v \in Poly
  PROVE  Resized(v) \in Poly /\ (OneSize => Resized(v) = v)
  <1>1. PICK n \in PolySizes : v \in [1..n -> Words]
    BY DEF Poly
  <1>2. poly_bytes \in PolySizes /\ PolySizes \subseteq Nat
    BY MemFacts, PolySizesAssumption DEF Inv, Values
  <1>3. Len(v) = n
    BY <1>1, <1>2
  <1>4. \A i \in 1..poly_bytes : (IF i <= n THEN v[i] ELSE 0) \in Words
    BY <1>1, <1>2, WordsAssumption
  <1>5. Resized(v) \in [1..poly_bytes -> Words]
    BY <1>3, <1>4 DEF Resized
  <1>6. ASSUME OneSize PROVE Resized(v) = v
    <2>1. poly_bytes = n
      BY <1>2, <1>6 DEF OneSize
    <2>2. QED BY <1>1, <1>2, <1>3, <2>1 DEF Resized
  <1>7. QED BY <1>2, <1>5, <1>6 DEF Poly

(* The epoch is over: of its results only those brought back are known any more.        *)
LEMMA EndedStep ==
  ASSUME Inv, recording, NEW done, done \subseteq Pending \cap alloc_set, NEW st, Typed(st),
         IsTable(st.shadow_data), DOMAIN st.shadow_data = DOMAIN shadow_data \cup done,
         \A a \in done : st.shadow_data[a] = Resized(ResultAt(a)),
         \A a \in DOMAIN shadow_data \ done : st.shadow_data[a] = shadow_data[a],
         NEW e \in AP!Errors, ended(st, e), EpochEnds(done),
         KeepsAllocations, UNCHANGED <<conf, initialized>>
  PROVE  /\ Inv' /\ Bound' = {}
         /\ \A a \in done : OneSize => a \in DOMAIN shadow_data' /\ shadow_data'[a] = poly_map[a].val
         /\ OneSize /\ AllCurrent => AllCurrent'
  <1> DEFINE clear == clear_state(st)
             q == [clear EXCEPT !.err = e]
  <1>1. Become(q) /\ recording' = FALSE
    BY DEF ended
  <1>2. Sound(clear) /\ BoundIn(clear) = {} /\ clear.shadow_data = st.shadow_data /\ clear.err = st.err
    BY ClearStep
  <1>3. q = [clear EXCEPT !.err = e]
    OBVIOUS
  <1> HIDE DEF clear, q
  <1>4. /\ DOMAIN q = SessionFields /\ q.poly_map = clear.poly_map /\ q.reg = clear.reg
        /\ q.input_addrs = clear.input_addrs /\ q.addr_modulus = clear.addr_modulus
        /\ q.mrp_in = clear.mrp_in /\ q.shadow_data = st.shadow_data /\ q.err = e
    BY <1>2, <1>3 DEF Sound, Typed, SessionFields
  <1>5. Sound(q) /\ BoundIn(q) = {}
    BY <1>2, <1>4 DEF Sound, Typed, Rooted, Moduled, recorded_modulus, BoundIn
  <1>6. done \subseteq Bound /\ \A a \in done : ResultAt(a) = poly_map[a].val /\ poly_map[a].val \in Poly
    <2>1. done \subseteq Bound
      BY ShadowsHere DEF Inv, Sound, Booked, Pending, Here
    <2>2. \A a \in Bound : poly_map[a].val \in Poly
      BY DEF Inv, Sound, Typed, Recordings, Here, BoundIn, Bound
    <2>3. QED BY <2>1, <2>2, ResultIs
  <1>7. \A a \in done : st.shadow_data[a] \in Poly /\ (OneSize => st.shadow_data[a] = poly_map[a].val)
    BY <1>6, ResizedIs
  <1>8. DOMAIN q.shadow_data \subseteq alloc_set /\ \A a \in DOMAIN q.shadow_data : q.shadow_data[a] \in Poly
    BY <1>4, <1>7, ShadowsHere DEF Shadows
  <1>9. /\ Inv' /\ BoundIn(Here)' = BoundIn(q)
        /\ Current(q, truth', unflushed') => AllCurrent'
    BY <1>1, <1>4, <1>5, <1>8, BecomeEffect
  <1>10. BoundIn(Here)' = Bound'
    BY DEF BoundIn, Here, Bound
  <1>11. shadow_data' = st.shadow_data
    BY <1>1, <1>4 DEF Become
  <1>12. ASSUME OneSize, AllCurrent PROVE Current(q, truth', unflushed')
    <2>1. /\ DOMAIN truth' = DOMAIN truth \ (unflushed \ done)
          /\ \A a \in DOMAIN truth' : truth'[a] = truth[a]
          /\ unflushed' = unflushed \ done
      BY <1>1 DEF EpochEnds, T!Drop, T!Restrict
    <2>2. ASSUME NEW a \in DOMAIN truth', a \in DOMAIN q.shadow_data PROVE q.shadow_data[a] = truth'[a]
      <3>1. CASE a \in done
        BY <1>4, <1>6, <1>7, <1>12, <2>1, <2>2, <3>1 DEF AllCurrent, Current, Here, BoundIn, Bound
      <3>2. CASE a \notin done
        BY <1>4, <1>12, <2>1, <2>2, <3>2 DEF AllCurrent, Current, Here
      <3>3. QED BY <3>1, <3>2
    <2>3. QED BY <1>5, <2>1, <2>2 DEF Current
  <1>13. QED BY <1>5, <1>7, <1>9, <1>10, <1>11, <1>12

(* What a flush that succeeds brings back: for each output, what the address is bound to. *)
Delivers == \A a \in Pending : a \in DOMAIN shadow_data' /\ shadow_data'[a] = poly_map[a].val

LEMMA PopulatedIs ==
  ASSUME Inv, NEW done, NEW st, st = populated(Here, done)
  PROVE  /\ Typed(st) /\ IsTable(st.shadow_data)
         /\ DOMAIN st.shadow_data = DOMAIN shadow_data \cup done
         /\ \A a \in done : st.shadow_data[a] = Resized(ResultAt(a))
         /\ \A a \in DOMAIN shadow_data \ done : st.shadow_data[a] = shadow_data[a]
  <1> DEFINE back == [a \in done |-> Resized(ResultAt(a))]
  <1>1. DOMAIN back = done /\ \A a \in done : back[a] = Resized(ResultAt(a))
    OBVIOUS
  <1>2. /\ DOMAIN st = SessionFields /\ st.poly_map = Here.poly_map /\ st.reg = Here.reg
        /\ st.input_addrs = Here.input_addrs /\ st.addr_modulus = Here.addr_modulus
        /\ st.mrp_in = Here.mrp_in /\ st.shadow_data = T!Put(shadow_data, back) /\ st.err = Here.err
    BY DEF populated, Here, SessionFields
  <1> HIDE DEF back
  <1>3. Typed(st)
    BY <1>2 DEF Inv, Sound, Typed, BoundIn
  <1>4. IsTable(st.shadow_data)
    BY <1>2 DEF IsTable, T!Put
  <1>5. QED BY <1>1, <1>2, <1>3, <1>4 DEF T!Put

LEMMA UnpopulatedIs ==
  ASSUME Inv
  PROVE  /\ Typed(Here) /\ IsTable(Here.shadow_data)
         /\ DOMAIN Here.shadow_data = DOMAIN shadow_data \cup {}
         /\ \A a \in {} : Here.shadow_data[a] = Resized(ResultAt(a))
         /\ \A a \in DOMAIN shadow_data \ {} : Here.shadow_data[a] = shadow_data[a]
  BY ShadowsHere DEF Inv, Sound, Within, Here

LEMMA FinalizeStep ==
  ASSUME Inv, NEW run_replay, NEW fault, NEW done, finalize(run_replay, fault, done), EpochEnds(done),
         KeepsAllocations, UNCHANGED <<conf, initialized>>
  PROVE  /\ Inv' /\ (OneSize /\ AllCurrent => AllCurrent')
         /\ OneSize /\ run_replay /\ recording /\ err' = "Ok" => Delivers
  <1>1. /\ "Ok" \in AP!Errors /\ "MissingPolyMapBinding" \in AP!Errors
        /\ "BackendReplayFailed" \in AP!Errors /\ "BridgeHookFailed" \in AP!Errors
        /\ PopulateError(done, fault) \in AP!Errors
    BY DEF AP!Errors, PopulateError
  <1>2. CASE /\ done = {}
             /\ \/ ~recording /\ kept("Ok")
                \/ recording /\ kept("MissingPolyMapBinding")
    <2>1. PICK e \in AP!Errors : kept(e) /\ (recording => e # "Ok")
      BY <1>1, <1>2
    <2>2. Become([Here EXCEPT !.err = e]) /\ UNCHANGED recording /\ err' = e
      BY <2>1 DEF kept, Become, Here
    <2>3. UNCHANGED <<truth, unflushed>>
      BY <1>2, <2>2 DEF EpochEnds
    <2>4. Inv' /\ (AllCurrent => AllCurrent')
      BY <2>2, <2>3, KeptStep
    <2>5. QED BY <2>1, <2>2, <2>4
  <1>3. CASE /\ recording /\ done = {}
             /\ \/ NothingPending /\ ended(Here, "Ok")
                \/ ended(Here, "BackendReplayFailed")
                \/ ended(Here, "BridgeHookFailed")
                \/ ~run_replay /\ ended(Here, "Ok")
    <2>1. PICK e \in AP!Errors : ended(Here, e) /\ (run_replay /\ e = "Ok" => NothingPending)
      BY <1>1, <1>3
    <2>2. err' = e
      BY <2>1 DEF ended, Become, clear_state, Here
    <2>3. {} \subseteq Pending \cap alloc_set /\ EpochEnds({})
      BY <1>3
    <2>4. Inv' /\ (OneSize /\ AllCurrent => AllCurrent')
      BY <1>3, <2>1, <2>3, UnpopulatedIs, EndedStep
    <2>5. QED BY <2>1, <2>2, <2>4 DEF Delivers, NothingPending
  <1>4. CASE /\ recording /\ done \subseteq Pending \cap alloc_set
             /\ ended(populated(Here, done), PopulateError(done, fault))
    <2> DEFINE st == populated(Here, done)
               e == PopulateError(done, fault)
    <2>1. ended(st, e) /\ st = populated(Here, done) /\ e \in AP!Errors
      BY <1>1, <1>4
    <2>2. e = "Ok" => done = Pending
      BY DEF PopulateError
    <2> HIDE DEF st, e
    <2>3. /\ Typed(st) /\ IsTable(st.shadow_data)
          /\ DOMAIN st.shadow_data = DOMAIN shadow_data \cup done
          /\ \A a \in done : st.shadow_data[a] = Resized(ResultAt(a))
          /\ \A a \in DOMAIN shadow_data \ done : st.shadow_data[a] = shadow_data[a]
      BY <2>1, PopulatedIs
    <2>4. /\ Inv' /\ (OneSize /\ AllCurrent => AllCurrent')
          /\ \A a \in done : OneSize => a \in DOMAIN shadow_data' /\ shadow_data'[a] = poly_map[a].val
      BY <1>4, <2>1, <2>3, EndedStep
    <2>5. err' = e
      BY <2>1, <2>3 DEF ended, Become, clear_state, Typed, SessionFields
    <2>6. QED BY <2>2, <2>4, <2>5 DEF Delivers
  <1>5. QED BY <1>2, <1>3, <1>4 DEF finalize

LEMMA FlushStep ==
  ASSUME Inv, hazeFlush
  PROVE  /\ Inv' /\ (OneSize /\ AllCurrent => AllCurrent')
         /\ OneSize /\ recording /\ err' = "Ok" => Delivers
  <1>1. KeepsAllocations /\ UNCHANGED <<initialized, conf>>
    BY DEF hazeFlush
  <1>2. CASE UnsupportedFormat
    <2>1. /\ Become([Here EXCEPT !.err = "UnsupportedDataFormat"])
          /\ UNCHANGED recording /\ KeepsGhosts
      BY <1>2 DEF hazeFlush
    <2>2. "UnsupportedDataFormat" \in AP!Errors /\ UNCHANGED <<conf, initialized, truth, unflushed>>
      BY <1>1, <2>1 DEF AP!Errors, KeepsGhosts
    <2>3. Inv' /\ (AllCurrent => AllCurrent')
      BY <1>1, <2>1, <2>2, KeptStep
    <2>4. err' # "Ok"
      BY <2>1 DEF Become, Here
    <2>5. QED BY <2>3, <2>4
  <1>3. CASE ~UnsupportedFormat
    <2>1. PICK fault, done : finalize(TRUE, fault, done) /\ EpochEnds(done)
      BY <1>3 DEF hazeFlush, Finalize
    <2>2. QED BY <1>1, <2>1, FinalizeStep
  <1>4. QED BY <1>2, <1>3

LEMMA WriteProgramStep ==
  ASSUME Inv, hazeWriteProgram
  PROVE  Inv' /\ (OneSize /\ AllCurrent => AllCurrent')
  <1>1. PICK fault, done : finalize(FALSE, fault, done) /\ EpochEnds(done)
    BY DEF hazeWriteProgram, Finalize
  <1>2. KeepsAllocations /\ UNCHANGED <<initialized, conf>>
    BY DEF hazeWriteProgram
  <1>3. QED BY <1>1, <1>2, FinalizeStep

LEMMA NewConfigIs == NewConfig \in Configs /\ NewConfig.ring_dim = 0
  BY DEF NewConfig, Configs

LEMMA ResetStep ==
  ASSUME Inv, hazeDeviceReset
  PROVE  Inv' /\ AllCurrent'
  <1> DEFINE q == clear_state(Here)
  <1>1. AP!reset
    BY DEF hazeDeviceReset, Mem!reset, AP!reset, Mem!Empty, AP!Empty
  <1>2. MemInv'
    <2>1. AP!Next
      BY <1>1 DEF AP!Next
    <2>2. AP!Inv'
      BY <2>1, AP!NextInv, WordsAssumption, PolySizesAssumption, AddrAssumption, MaxGroupAssumption
      DEF Inv, MemInv
    <2>3. next_addr' = HbmBase
      BY <1>1 DEF AP!reset
    <2>4. QED BY <2>2, <2>3 DEF MemInv
  <1>3. q = clear_state(Here)
    OBVIOUS
  <1>4. Leaves(q)
    BY DEF hazeDeviceReset, Leaves, clear_state, Here
  <1> HIDE DEF q
  <1>5. Sound(q) /\ BoundIn(q) = {}
    BY <1>3, ClearStep DEF Inv, Sound
  <1>6. Sound(Here)'
    BY <1>4, <1>5, HereNext
  <1>7. /\ alloc_set' = {} /\ DOMAIN shadow_data' = {} /\ poly_bytes' = 0
        /\ conf' = NewConfig /\ initialized' = FALSE /\ recording' = FALSE /\ DOMAIN truth' = {}
    BY NothingHeld DEF hazeDeviceReset, Mem!reset, Mem!Empty
  <1>8. AllCurrent'
    BY <1>7 DEF AllCurrent, Current
  <1>9. QED BY <1>2, <1>6, <1>7, <1>8, NewConfigIs DEF Inv, Values

-----------------------------------------------------------------------------
(* The invariant holds. *)

LEMMA InitInv ==
  ASSUME Init
  PROVE  Inv /\ AllCurrent
  <1>1. MemInv
    <2>1. AP!Init
      BY DEF Init, Mem!Init, AP!Init, Mem!Empty, AP!Empty
    <2>2. AP!Inv
      BY <2>1, AP!InitInv, WordsAssumption, PolySizesAssumption, AddrAssumption, MaxGroupAssumption
    <2>3. QED BY <2>1, <2>2 DEF MemInv, AP!Init
  <1>2. /\ alloc_set = {} /\ DOMAIN shadow_data = {} /\ poly_bytes = 0 /\ DOMAIN poly_map = {}
        /\ DOMAIN addr_modulus = {} /\ DOMAIN truth = {} /\ NoMrpInputs = mrp_in
    BY NothingHeld DEF Init, Mem!Init, Mem!Empty
  <1> DEFINE q == clear_state(Here)
  <1>3. Typed(Here)
    BY <1>2 DEF Typed, Here, SessionFields, BoundIn, AP!Errors, NoMrpInputs
  <1>4. Sound(q)
    BY <1>3, ClearStep
  <1>5. /\ DOMAIN q = SessionFields /\ q.poly_map = Here.poly_map /\ q.reg = Here.reg
        /\ q.input_addrs = Here.input_addrs /\ q.addr_modulus = Here.addr_modulus
        /\ q.mrp_in = Here.mrp_in
    BY DEF Init, clear_state, Here, SessionFields
  <1> HIDE DEF q
  <1>6. Sound(Here)
    BY <1>3, <1>4, <1>5 DEF Sound, Rooted, Moduled, recorded_modulus, BoundIn
  <1>7. conf = NewConfig /\ initialized = FALSE /\ recording = FALSE
    BY DEF Init
  <1>8. QED BY <1>1, <1>2, <1>6, <1>7, NewConfigIs DEF Inv, Values, AllCurrent, Current

LEMMA MemoryStep ==
  ASSUME Inv, Memory
  PROVE  Inv' /\ (AllCurrent => AllCurrent')
  BY MallocStep, FreeStep, MemsetStep, H2DStep, OtherStep DEF Memory

LEMMA SrpStep ==
  ASSUME Inv, Srp
  PROVE  Inv' /\ (AllCurrent => AllCurrent')
  BY SrpOpStep, AutomorphOpStep, CopyOpStep DEF Srp

LEMMA MrpStep ==
  ASSUME Inv, Mrp
  PROVE  Inv' /\ (AllCurrent => AllCurrent')
  <1>1. 0..MaxGroup \subseteq Nat
    BY MaxGroupAssumption
  <1>2. QED
    BY <1>1, MallocStep, FreeMrpStep, MrpH2DStep, MrpCopyStep, MrpOpStep DEF Mrp

LEMMA OutputsStep ==
  ASSUME Inv, Outputs
  PROVE  Inv' /\ (OneSize /\ AllCurrent => AllCurrent')
  BY TagOutputStep, FlushStep, WriteProgramStep, ResetStep DEF Outputs

LEMMA StutterStep ==
  ASSUME Inv, UNCHANGED haze
  PROVE  Inv' /\ (AllCurrent => AllCurrent')
  <1>1. /\ UNCHANGED <<alloc_set, shadow_data, pool_free, host_set, poly_bytes, next_addr, err>>
        /\ UNCHANGED <<conf, initialized, recording, truth, unflushed, poly_map>> /\ Leaves(Here)
    BY DEF haze, Leaves, Here
  <1>2. MemInv'
    <2>1. UNCHANGED AP!vars
      BY <1>1 DEF AP!vars
    <2>2. AP!Inv'
      BY <2>1, AP!NextInv, WordsAssumption, PolySizesAssumption, AddrAssumption, MaxGroupAssumption
      DEF Inv, MemInv
    <2>3. QED BY <1>1, <2>2 DEF Inv, MemInv
  <1>3. Sound(Here)'
    BY <1>1, EpochStays
  <1>4. QED BY <1>1, <1>2, <1>3 DEF Inv, Values, Configs, AllCurrent, Current, Here, BoundIn

LEMMA NextInv ==
  ASSUME Inv, [Next]_haze
  PROVE  Inv' /\ (OneSize /\ AllCurrent => AllCurrent')
  BY ConfigureStep, MemoryStep, SrpStep, MrpStep, OutputsStep, StutterStep DEF Next

LEMMA Invariant == Spec => []Inv
  <1>1. Init => Inv
    BY InitInv
  <1>2. Inv /\ [Next]_haze => Inv'
    BY NextInv
  <1>3. QED BY <1>1, <1>2, PTL DEF Spec

LEMMA CurrentInvariant ==
  ASSUME OneSize
  PROVE  Spec => [](Inv /\ AllCurrent)
  <1>1. Init => Inv /\ AllCurrent
    BY InitInv
  <1>2. Inv /\ AllCurrent /\ [Next]_haze => (Inv /\ AllCurrent)'
    BY NextInv
  <1>3. QED BY <1>1, <1>2, PTL DEF Spec

-----------------------------------------------------------------------------
(* What the invariant says of the properties. *)

LEMMA TypesHold ==
  ASSUME Inv
  PROVE  TypeOK
  <1>1. Mem!TypeOK
    BY DEF Inv, MemInv, AP!Inv, AP!TypeOK, Mem!TypeOK, AP!Errors, Mem!Errors
  <1>2. \A a \in Bound : poly_map[a] \in Recordings
    BY DEF Inv, Sound, Typed, Here, BoundIn, Bound
  <1>3. \A a \in Bound : poly_map[a].val \in Seq(Words) /\ poly_map[a].mod \in AllModuli
    BY <1>2, PolyIsSeq DEF Recordings
  <1>4. /\ conf.moduli \in Seq(Moduli) /\ conf.target \in Targets \cup {"local"}
        /\ conf.configured \in BOOLEAN
    BY DEF Inv, Configs
  <1>5. QED BY <1>1, <1>3, <1>4 DEF TypeOK, Inv, AllModuli

LEMMA ModuliHold ==
  ASSUME Inv
  PROVE  ModuliAgree
  BY DEF Inv, Sound, Moduled, ModuliAgree, Here, BoundIn, Bound, recorded_modulus

LEMMA FreedHold ==
  ASSUME Inv, AnyDst = FALSE
  PROVE  FreedIsForgotten
  <1> SUFFICES ASSUME NEW a \in Mem!DevAddrs \ alloc_set
               PROVE  /\ a \notin Bound \cup input_addrs \cup DOMAIN addr_modulus \cup Pending
                      /\ a \notin DOMAIN reg.mrp_out_names \cup DOMAIN mrp_in.names
                      /\ Groups!Claims(reg, a) = {}
    BY DEF FreedIsForgotten
  <1>1. /\ a \notin Bound /\ input_addrs \subseteq Bound /\ DOMAIN addr_modulus \subseteq Bound
        /\ DOMAIN reg.mrp_out_names \subseteq Bound /\ DOMAIN mrp_in.names \subseteq Bound
    BY DEF Inv, Sound, Rooted, Here, BoundIn, Bound
  <1>2. /\ Pending \subseteq Bound /\ GP!Good(reg)
        /\ \A g \in GP!GroupNames(reg) : GP!Members(reg, g) \subseteq Bound
    BY DEF Inv, Sound, Booked, Here, BoundIn, Bound, Pending
  <1>3. Groups!Claims(reg, a) = {}
    BY <1>1, <1>2 DEF Groups!Claims, GP!Claims, GP!Good, GP!Index
  <1>4. QED BY <1>1, <1>2, <1>3

LEMMA CurrentHold ==
  ASSUME AllCurrent
  PROVE  ReadsAreCurrent /\ BindingsAreCurrent
  BY DEF AllCurrent, Current, ReadsAreCurrent, BindingsAreCurrent, Here, BoundIn, Bound

(* The step of FlushDelivers.                                                           *)
Delivered ==
  (hazeFlush /\ recording /\ err' = "Ok") =>
    \A a \in Pending : /\ a \in DOMAIN shadow_data'
                       /\ a \in DOMAIN truth => shadow_data'[a] = truth[a]

LEMMA DeliveredHold ==
  ASSUME Inv, AllCurrent, OneSize
  PROVE  Delivered
  <1> SUFFICES ASSUME hazeFlush, recording, err' = "Ok", NEW a \in Pending
               PROVE  /\ a \in DOMAIN shadow_data'
                      /\ a \in DOMAIN truth => shadow_data'[a] = truth[a]
    BY DEF Delivered
  <1>1. a \in DOMAIN shadow_data' /\ shadow_data'[a] = poly_map[a].val
    BY FlushStep DEF Delivers
  <1>2. a \in Bound
    BY DEF Inv, Sound, Booked, Here, BoundIn, Bound, Pending
  <1>3. QED BY <1>1, <1>2 DEF AllCurrent, Current, Here, BoundIn, Bound

-----------------------------------------------------------------------------
(* Refused flushes. *)

(* From one registry, or session, to the next, no output loses its tag.                 *)
TagsOf(r) == DOMAIN r.pending_outputs
KeepsTags(r, q) ==
  "pending_outputs" \in DOMAIN r => "pending_outputs" \in DOMAIN q /\ TagsOf(r) \subseteq TagsOf(q)
StillTagged(p, q) ==
  "reg" \in DOMAIN p => "reg" \in DOMAIN q /\ KeepsTags(p.reg, q.reg)

LEMMA KeepsOn ==
  ASSUME NEW p, NEW q, NEW r, StillTagged(p, q), StillTagged(q, r)
  PROVE  StillTagged(p, r)
  BY DEF StillTagged, KeepsTags

(* Naming outputs, registering a group and tagging untag nothing.                       *)
LEMMA NameKeeps ==
  ASSUME NEW r, NEW s
  PROVE  KeepsTags(r, Groups!name_outputs(r, s))
  BY DEF KeepsTags, TagsOf, Groups!name_outputs, Groups!Put

LEMMA ReplaceKeeps ==
  ASSUME NEW r, NEW name, NEW s, NEW m
  PROVE  KeepsTags(r, Groups!replace_group(r, name, s, m))
  <1> DEFINE e == Groups!evict_mrp_groups(r, Groups!Conflicting(r, name, s))
             q == Groups!replace_group(r, name, s, m)
  <1>1. DOMAIN e = DOMAIN r /\ ("pending_outputs" \in DOMAIN r => e.pending_outputs = r.pending_outputs)
    BY DEF Groups!evict_mrp_groups
  <1>2. DOMAIN q = DOMAIN e /\ ("pending_outputs" \in DOMAIN e => q.pending_outputs = e.pending_outputs)
    <2> HIDE DEF e
    <2>1. QED BY DEF Groups!replace_group, e
  <1>3. QED BY <1>1, <1>2 DEF KeepsTags, TagsOf

LEMMA RegisterKeeps ==
  ASSUME NEW r, NEW s, NEW m
  PROVE  KeepsTags(r, Groups!register_mrp_output_group(r, s, m))
  <1> DEFINE named == Groups!with_group_name(r, s[1])
             name == Groups!group_name(r, s[1])
             replaced == Groups!replace_group(named, name, s, m)
  <1>1. KeepsTags(r, named)
    BY DEF KeepsTags, TagsOf, Groups!with_group_name
  <1>2. KeepsTags(named, replaced)
    BY ReplaceKeeps
  <1>3. KeepsTags(replaced, Groups!name_outputs(replaced, s))
    BY NameKeeps
  <1>4. Groups!register_mrp_output_group(r, s, m) \in {named, replaced, Groups!name_outputs(replaced, s)}
    BY DEF Groups!register_mrp_output_group
  <1> HIDE DEF named, name, replaced
  <1>5. QED BY <1>1, <1>2, <1>3, <1>4 DEF KeepsTags

LEMMA TagKeeps ==
  ASSUME NEW r, NEW a
  PROVE  KeepsTags(r, Groups!tag_output(r, a))
  <1> DEFINE live == Groups!Claims(r, a) \cap DOMAIN r.known_mrp_groups
             g == CHOOSE x \in live : TRUE
             named == Groups!name_outputs(r, r.known_mrp_groups[g].addrs)
             tagged == [named EXCEPT !.pending_mrp_groups = @ \cup {g}]
  <1>1. KeepsTags(r, Groups!name_outputs(r, <<a>>)) /\ KeepsTags(r, named)
    BY NameKeeps
  <1>2. Groups!tag_output(r, a) \in {Groups!name_outputs(r, <<a>>), r, tagged}
    BY DEF Groups!tag_output
  <1> HIDE DEF named, g, live
  <1>3. KeepsTags(named, tagged)
    BY DEF KeepsTags, TagsOf
  <1>4. QED BY <1>1, <1>2, <1>3 DEF KeepsTags

(* Looking up a group of operands untags nothing, also when it fails on the way.         *)
LEMMA LookupKeeps ==
  ASSUME NEW st, NEW s, NEW n
  PROVE  StillTagged(st, lookup_or_create(st, s, n))
  <1> DEFINE error(i) == IF s[i] \in DOMAIN st.poly_map THEN "Ok" ELSE Mem!ComponentsError(s[i], n)
             failing == {i \in DOMAIN s : error(i) # "Ok"}
             first == CHOOSE i \in failing : \A j \in failing : i <= j
             taken == {s[i] : i \in {j \in DOMAIN s : \A k \in failing : j < k}} \ DOMAIN st.poly_map
             found == [st EXCEPT
                         !.poly_map = T!Put(@, [a \in taken |-> [val |-> shadow_data[a], mod |-> CopyModulus]]),
                         !.input_addrs = @ \cup taken,
                         !.shadow_data = T!Drop(@, taken)]
             failed == [found EXCEPT
                          !.err = IF error(first) = "NoData" THEN "SourceUnavailable" ELSE error(first),
                          !.shadow_data = IF Mem!Evicts(error(first)) THEN T!Drop(@, {s[first]}) ELSE @]
  <1>1. lookup_or_create(st, s, n) \in {st, found, failed}
    BY DEF lookup_or_create
  <1>2. StillTagged(st, found)
    <2> HIDE DEF taken
    <2>1. QED BY DEF StillTagged, KeepsTags
  <1>3. StillTagged(found, failed)
    <2> HIDE DEF found, first, error
    <2>1. QED BY DEF StillTagged, KeepsTags
  <1>4. StillTagged(st, st)
    BY DEF StillTagged, KeepsTags
  <1> HIDE DEF found, failed
  <1>5. QED BY <1>1, <1>2, <1>3, <1>4, KeepsOn

(* Nor do the methods of the epoch that look up, store, copy and tag.                   *)
LEMMA SameTags ==
  ASSUME NEW p, NEW q, DOMAIN q = DOMAIN p, "reg" \in DOMAIN p => q.reg = p.reg
  PROVE  StillTagged(p, q)
  BY DEF StillTagged, KeepsTags

LEMMA BuildKeeps ==
  ASSUME NEW st, NEW s, NEW n
  PROVE  StillTagged(st, build_mrp(st, s, n))
  <1> DEFINE found == lookup_or_create(st, s, n)
  <1>1. StillTagged(st, found)
    BY LookupKeeps
  <1>2. StillTagged(found, tag_mrp_input(found, s))
    <2> HIDE DEF found
    <2>1. DOMAIN tag_mrp_input(found, s) = DOMAIN found
      BY DEF tag_mrp_input
    <2>2. "reg" \in DOMAIN found => tag_mrp_input(found, s).reg = found.reg
      BY DEF tag_mrp_input
    <2>3. QED BY <2>1, <2>2, SameTags
  <1>3. QED BY <1>1, <1>2, KeepsOn DEF build_mrp

LEMMA StoreKeeps ==
  ASSUME NEW st, NEW f
  PROVE  StillTagged(st, store_compute_result(st, f))
  <1>1. DOMAIN store_compute_result(st, f) = DOMAIN st
    BY DEF store_compute_result
  <1>2. "reg" \in DOMAIN st => store_compute_result(st, f).reg = st.reg
    BY DEF store_compute_result
  <1>3. QED BY <1>1, <1>2, SameTags

LEMMA GroupKeeps ==
  ASSUME NEW st, NEW d, NEW base
  PROVE  StillTagged(st, [st EXCEPT !.reg = Groups!register_mrp_output_group(@, d, base)])
  <1>1. KeepsTags(st.reg, Groups!register_mrp_output_group(st.reg, d, base))
    BY RegisterKeeps
  <1>2. QED BY <1>1 DEF StillTagged

LEMMA ComputeKeeps ==
  ASSUME NEW st, NEW d, NEW ops, NEW base, NEW n
  PROVE  StillTagged(st, compute(st, d, ops, base, n))
  <1> DEFINE left == build_mrp(st, ops[1], n)
             built == IF Len(ops) = 1 THEN left ELSE build_mrp(left, ops[2], n)
             vals == [i \in DOMAIN d |-> Eval([k \in DOMAIN ops |-> built.poly_map[ops[k][i]].val])]
  <1>1. StillTagged(st, built)
    BY BuildKeeps, KeepsOn
  <1>2. compute(st, d, ops, base, n) \in {built, store_mrp(built, d, vals, base)}
    BY DEF compute
  <1> HIDE DEF built, vals
  <1>3. StillTagged(built, store_mrp(built, d, vals, base))
    <2> DEFINE at(a) == CHOOSE i \in DOMAIN d : d[i] = a
               stored == store_compute_result(built, [a \in T!Range(d) |-> [val |-> vals[at(a)], mod |-> base[at(a)]]])
               grouped == [stored EXCEPT !.reg = Groups!register_mrp_output_group(@, d, base)]
    <2>1. StillTagged(built, stored)
      BY StoreKeeps
    <2>2. store_mrp(built, d, vals, base) \in {stored, grouped}
      BY DEF store_mrp
    <2>3. StillTagged(stored, grouped)
      <3> HIDE DEF stored
      <3>1. QED BY GroupKeeps
    <2> HIDE DEF stored, grouped
    <2>4. QED BY <2>1, <2>2, <2>3, KeepsOn
  <1>4. QED BY <1>1, <1>2, <1>3, KeepsOn

LEMMA BindKeeps ==
  ASSUME NEW st, NEW s, NEW q
  PROVE  StillTagged(st, bind_modulus(st, s, q))
  <1>1. DOMAIN bind_modulus(st, s, q) = DOMAIN st
    BY DEF bind_modulus
  <1>2. "reg" \in DOMAIN st => bind_modulus(st, s, q).reg = st.reg
    BY DEF bind_modulus
  <1>3. QED BY <1>1, <1>2, SameTags

LEMMA AutomorphKeeps ==
  ASSUME NEW st, NEW d, NEW s, NEW n
  PROVE  StillTagged(st, automorph(st, d, s, n))
  <1> DEFINE found == lookup_or_create(st, <<s>>, n)
             q == recorded_modulus(found, s)
             bound == bind_modulus(found, s, q)
             stored == store_compute_result(bound, one(d, [val |-> Eval(<<found.poly_map[s].val>>), mod |-> q]))
  <1>1. StillTagged(st, found) /\ StillTagged(found, bound)
    BY LookupKeeps, BindKeeps
  <1>2. StillTagged(bound, stored)
    BY StoreKeeps
  <1>3. automorph(st, d, s, n) \in {found, stored}
    BY DEF automorph
  <1> HIDE DEF found, bound, stored
  <1>4. QED BY <1>1, <1>2, <1>3, KeepsOn

LEMMA CopyResultKeeps ==
  ASSUME NEW st, NEW d, NEW s, NEW m, NEW n
  PROVE  StillTagged(st, copy_result(st, d, s, m, n))
  <1> DEFINE found == lookup_or_create(st, <<s>>, n)
             q == IF m = CopyModulus THEN recorded_modulus(found, s) ELSE m
             named == bind_modulus(found, s, q)
             noted == [named EXCEPT !.addr_modulus = T!Put(@, one(s, q))]
             bound == IF q = CopyModulus THEN found ELSE noted
             stored == store_compute_result(bound, one(d, [val |-> found.poly_map[s].val, mod |-> q]))
  <1>1. StillTagged(st, found) /\ StillTagged(found, named)
    BY LookupKeeps, BindKeeps
  <1>2. StillTagged(named, noted)
    <2> HIDE DEF named, q
    <2>1. QED BY SameTags
  <1>3. StillTagged(bound, stored)
    BY StoreKeeps
  <1>4. copy_result(st, d, s, m, n) \in {found, stored}
    BY DEF copy_result
  <1>5. bound \in {found, noted}
    OBVIOUS
  <1> HIDE DEF found, named, noted, bound, stored
  <1>6. QED BY <1>1, <1>2, <1>3, <1>4, <1>5, KeepsOn

LEMMA CopiesKeep ==
  ASSUME NEW st, NEW d, NEW s, NEW base, NEW n, Len(d) \in Nat
  PROVE  StillTagged(st, copies(st, d, s, base, n)[Len(d)])
  <1> DEFINE c == copies(st, d, s, base, n)
             untagged == {k \in 0..Len(d) : ~StillTagged(st, c[k])}
  <1>1. c[0] = st /\ \A i \in 1..Len(d) : c[i] = copy_result(c[i - 1], d[i], s[i], base[i], n)
    BY CopiesAre
  <1>2. SUFFICES ASSUME untagged # {} PROVE FALSE
    OBVIOUS
  <1> HIDE DEF c
  <1>3. PICK k \in untagged : \A y \in untagged : k <= y
    <2>1. untagged \subseteq Nat
      OBVIOUS
    <2> HIDE DEF untagged
    <2>2. QED BY <1>2, <2>1, Least
  <1>4. k # 0
    BY <1>1 DEF StillTagged, KeepsTags
  <1>5. k - 1 \in 0..Len(d) /\ ~(k <= k - 1) /\ k \in 1..Len(d)
    BY <1>4
  <1>6. StillTagged(st, c[k - 1])
    BY <1>3, <1>5
  <1>7. StillTagged(c[k - 1], c[k])
    BY <1>1, <1>5, CopyResultKeeps
  <1>8. StillTagged(st, c[k])
    BY <1>6, <1>7, KeepsOn
  <1>9. QED BY <1>8

LEMMA CopyMrpKeeps ==
  ASSUME NEW st, NEW d, NEW s, NEW base, NEW n, Len(d) \in Nat
  PROVE  StillTagged(st, copy_mrp(st, d, s, base, n))
  <1> DEFINE copied == copies(st, d, s, base, n)[Len(d)]
             grouped == [copied EXCEPT !.reg = Groups!register_mrp_output_group(@, d, base)]
  <1>1. StillTagged(st, copied)
    BY CopiesKeep
  <1>2. copy_mrp(st, d, s, base, n) \in {copied, grouped}
    BY DEF copy_mrp
  <1> HIDE DEF copied
  <1>3. StillTagged(copied, grouped)
    BY GroupKeeps
  <1> HIDE DEF grouped
  <1>4. QED BY <1>1, <1>2, <1>3, KeepsOn

LEMMA TagOutputKeeps ==
  ASSUME NEW st, NEW a
  PROVE  StillTagged(st, tag_output(st, a))
  <1>1. KeepsTags(st.reg, Groups!tag_output(st.reg, a))
    BY TagKeeps
  <1>2. QED BY <1>1 DEF StillTagged, KeepsTags, tag_output

(* A step that goes on recording takes no tag of a result it does not replace.          *)
TagsStay == recording /\ recording' => Pending \cap unflushed' \subseteq Pending'

HasOutputs == "pending_outputs" \in DOMAIN reg

(* Nor do the calls: what an upload, a write or a free untags, the program has replaced. *)
LEMMA BecomeKeeps ==
  ASSUME HasOutputs, NEW st, StillTagged(Here, st), Become(st)
  PROVE  TagsStay
  BY DEF HasOutputs, StillTagged, KeepsTags, TagsOf, Here, Become, TagsStay, Pending

LEMMA EpochKeeps ==
  ASSUME UNCHANGED reg
  PROVE  TagsStay
  BY DEF TagsStay, Pending

LEMMA ConfigKeeps ==
  ASSUME Configure
  PROVE  TagsStay
  <1>1. ASSUME NEW c, NEW e, Setting(c, e) PROVE UNCHANGED reg
    BY <1>1 DEF Setting, KeepsEpoch
  <1>2. ASSUME NEW n, hazeSetRingDimension(n) PROVE UNCHANGED reg
    BY <1>1, <1>2 DEF hazeSetRingDimension, KeepsEpoch
  <1>3. ASSUME NEW i, NEW q, hazeSetCiphertextModulus(i, q) PROVE UNCHANGED reg
    BY <1>1, <1>3 DEF hazeSetCiphertextModulus
  <1>4. ASSUME hazeConfigureDevice PROVE UNCHANGED reg
    BY <1>1, <1>4 DEF hazeConfigureDevice
  <1>5. ASSUME NEW t, hazeSetTarget(t) \/ hazeSetMontgomery(t) \/ hazeSetBitReversal(t)
        PROVE  UNCHANGED reg
    BY <1>1, <1>5 DEF hazeSetTarget, hazeSetMontgomery, hazeSetBitReversal
  <1>6. QED BY <1>2, <1>3, <1>4, <1>5, EpochKeeps DEF Configure

LEMMA InvalidatedKeeps ==
  ASSUME HasOutputs, NEW s, Invalidated(s), unflushed' \cap T!Range(s) = {}
  PROVE  TagsStay
  <1> DEFINE S == T!Range(s) \ {Mem!Null}
  <1>1. reg' = Groups!invalidate(reg, S)
    BY DEF Invalidated, invalidate, Here
  <1>2. DOMAIN reg'.pending_outputs = Pending \ S
    <2> DEFINE e == Groups!evict_mrp_groups(reg, UNION {Groups!Claims(reg, a) : a \in S})
    <2>1. "pending_outputs" \in DOMAIN e /\ e.pending_outputs = reg.pending_outputs
      BY DEF Groups!evict_mrp_groups, HasOutputs
    <2> HIDE DEF e
    <2>2. reg' = [e EXCEPT !.addr_to_mrp_groups = Groups!Drop(@, S),
                           !.pending_outputs = Groups!Drop(@, S),
                           !.mrp_out_names = Groups!Drop(@, S)]
      BY <1>1 DEF Groups!invalidate, e
    <2>3. reg'.pending_outputs = Groups!Drop(reg.pending_outputs, S)
      BY <2>1, <2>2
    <2>4. QED BY <2>3 DEF Groups!Drop, Groups!Restrict, Pending
  <1>3. QED BY <1>2 DEF TagsStay, Pending

LEMMA UploadKeeps ==
  ASSUME HasOutputs, NEW d, NEW vals, Upload(d, vals)
  PROVE  TagsStay
  <1> DEFINE refused == {i \in DOMAIN d : Mem!WriteError(d[i], Len(vals[i])) # "Ok"}
             payload(a) == vals[CHOOSE i \in DOMAIN d : d[i] = a]
             payloads == [a \in {d[i] : i \in DOMAIN d} |-> payload(a)]
             st == [Here EXCEPT !.shadow_data = Mem!Written(payloads)]
             failing == {i \in DOMAIN d : Len(st.shadow_data[d[i]]) # conf.ring_dim}
             tagged == {d[i] : i \in {j \in DOMAIN d : \A k \in failing : j < k}}
  <1>1. CASE refused # {}
    BY <1>1, EpochKeeps DEF Upload, KeepsEpoch
  <1>2. CASE refused = {}
    <2>1. /\ Become(tag_h2d_input(st, d, conf.ring_dim))
          /\ unflushed' = unflushed \ {d[i] : i \in DOMAIN d}
      BY <1>2 DEF Upload, Recorded, Holds
    <2>2. DOMAIN st = SessionFields /\ st.reg = reg
      BY DEF Here, SessionFields
    <2>3. tagged \subseteq {d[i] : i \in DOMAIN d}
      OBVIOUS
    <2>4. reg' = reg \/ reg' = Groups!untag(reg, tagged)
      <3> HIDE DEF payloads
      <3>1. tag_h2d_input(st, d, conf.ring_dim).reg \in {reg, Groups!untag(reg, tagged)}
        BY <2>2 DEF tag_h2d_input, SessionFields
      <3>2. QED BY <2>1, <3>1 DEF Become
    <2> HIDE DEF tagged
    <2>5. QED BY <2>1, <2>3, <2>4 DEF TagsStay, Pending, HasOutputs, Groups!untag, Groups!Drop, Groups!Restrict
  <1>3. QED BY <1>1, <1>2

LEMMA MemoryKeeps ==
  ASSUME HasOutputs, Memory
  PROVE  TagsStay
  <1>1. ASSUME NEW n, hazeMalloc(n) PROVE UNCHANGED reg
    BY <1>1 DEF hazeMalloc, KeepsEpoch
  <1>2. ASSUME NEW a, hazeFree(a) PROVE TagsStay
    <2>1. unflushed' \cap T!Range(<<a>>) = {}
      BY <1>2 DEF hazeFree, Holds, T!Range
    <2>2. QED BY <1>2, <2>1, InvalidatedKeeps DEF hazeFree
  <1>3. ASSUME NEW a, NEW w, NEW n, hazeMemset(a, w, n) PROVE TagsStay
    <2>1. CASE err' = "Ok"
      <3>1. Invalidated(<<a>>) /\ unflushed' = unflushed \ {a}
        BY <1>3, <2>1 DEF hazeMemset, Holds
      <3>2. unflushed' \cap T!Range(<<a>>) = {}
        BY <3>1 DEF T!Range
      <3>3. QED BY <3>1, <3>2, InvalidatedKeeps
    <2>2. CASE err' # "Ok"
      BY <1>3, <2>2, EpochKeeps DEF hazeMemset, KeepsEpoch
    <2>3. QED BY <2>1, <2>2
  <1>4. ASSUME NEW a, NEW src, hazeMemcpyH2D(a, src) PROVE TagsStay
    BY <1>4, UploadKeeps DEF hazeMemcpyH2D
  <1>5. ASSUME NEW a, NEW n, hazeMemcpyD2H(a, n) PROVE UNCHANGED reg
    BY <1>5 DEF hazeMemcpyD2H, KeepsEpoch
  <1>6. ASSUME NEW p, hazeHostAlloc(p) \/ hazeFreeHost(p) PROVE UNCHANGED reg
    BY <1>6 DEF hazeHostAlloc, hazeFreeHost, KeepsEpoch
  <1>7. QED BY <1>1, <1>2, <1>3, <1>4, <1>5, <1>6, EpochKeeps DEF Memory

LEMMA SrpKeeps ==
  ASSUME HasOutputs, Srp
  PROVE  TagsStay
  <1>1. ASSUME NEW d, NEW srcs, NEW i, SrpOp(d, srcs, i) PROVE TagsStay
    <2> DEFINE found == lookup_or_create(Here, srcs, conf.ring_dim)
               val == Eval([k \in DOMAIN srcs |-> found.poly_map[srcs[k]].val])
               stored == store_compute_result(found, one(d, [val |-> val, mod |-> conf.moduli[i]]))
               rejected == [Here EXCEPT !.err = "InvalidArgument"]
    <2>1. Become(rejected) \/ Become(found) \/ Become(stored)
      BY <1>1 DEF SrpOp, Recorded
    <2>2. StillTagged(Here, rejected)
      BY DEF StillTagged, KeepsTags, Here
    <2>3. StillTagged(Here, found) /\ StillTagged(found, stored)
      BY LookupKeeps, StoreKeeps
    <2> HIDE DEF found, stored, rejected
    <2>4. QED BY <2>1, <2>2, <2>3, KeepsOn, BecomeKeeps
  <1>2. ASSUME NEW d, NEW s, hazeAutomorph(d, s) PROVE TagsStay
    BY <1>2, AutomorphKeeps, BecomeKeeps DEF hazeAutomorph, Recorded
  <1>3. ASSUME NEW d, NEW s, hazeMemcpyD2D(d, s) PROVE TagsStay
    BY <1>3, CopyResultKeeps, BecomeKeeps DEF hazeMemcpyD2D, Recorded
  <1>4. QED BY <1>1, <1>2, <1>3 DEF Srp

LEMMA MrpKeeps ==
  ASSUME HasOutputs, Mrp
  PROVE  TagsStay
  <1>1. ASSUME NEW n, NEW bytes, hazeMallocMrp(n, bytes) PROVE TagsStay
    BY <1>1, EpochKeeps DEF hazeMallocMrp, KeepsEpoch
  <1>2. ASSUME NEW addrs, hazeFreeMrp(addrs) PROVE TagsStay
    <2>1. unflushed' \cap T!Range(addrs) = {}
      BY <1>2 DEF hazeFreeMrp, Holds, T!Range
    <2>2. QED BY <1>2, <2>1, InvalidatedKeeps DEF hazeFreeMrp
  <1>3. ASSUME NEW d, NEW src, hazeMemcpyMrpH2D(d, src) PROVE TagsStay
    BY <1>3, UploadKeeps DEF hazeMemcpyMrpH2D
  <1>4. ASSUME NEW base \in Bases, NEW d \in Distinct(Dst, base), NEW s, hazeMemcpyMrpD2D(d, s, base)
        PROVE  TagsStay
    <2>1. Len(d) \in Nat
      BY BasesAssumption DEF Distinct
    <2>2. QED BY <1>4, <2>1, CopyMrpKeeps, BecomeKeeps DEF hazeMemcpyMrpD2D, Recorded
  <1>5. ASSUME NEW d, NEW ops, NEW base, MrpOp(d, ops, base) PROVE TagsStay
    BY <1>5, ComputeKeeps, BecomeKeeps DEF MrpOp, Recorded
  <1>6. QED BY <1>1, <1>2, <1>3, <1>4, <1>5 DEF Mrp

(* A finalize leaves the recording as it is or ends the epoch, and is not refused for    *)
(* the format: that is the flush's own check.                                           *)
LEMMA FinalizeKeeps ==
  ASSUME NEW b, Finalize(b)
  PROVE  TagsStay /\ err' # "UnsupportedDataFormat"
  <1>1. PICK fault, done : finalize(b, fault, done)
    BY DEF Finalize
  <1>2. ASSUME NEW e, e # "UnsupportedDataFormat", kept(e)
        PROVE  TagsStay /\ err' # "UnsupportedDataFormat"
    BY <1>2, EpochKeeps DEF kept, Become, Here
  <1>3. ASSUME NEW st, NEW e, e # "UnsupportedDataFormat", "err" \in DOMAIN st, ended(st, e)
        PROVE  TagsStay /\ err' # "UnsupportedDataFormat"
    <2>1. "err" \in DOMAIN clear_state(st)
      BY <1>3 DEF clear_state
    <2>2. err' = e /\ recording' = FALSE
      <3> DEFINE c == clear_state(st)
      <3>1. ended(st, e) => err' = [c EXCEPT !.err = e].err /\ recording' = FALSE
        BY DEF ended, Become
      <3> HIDE DEF c
      <3>2. [c EXCEPT !.err = e].err = e
        BY <2>1 DEF c
      <3>3. QED BY <1>3, <3>1, <3>2
    <2>3. QED BY <1>3, <2>2 DEF TagsStay
  <1>4. "err" \in DOMAIN Here /\ "err" \in DOMAIN populated(Here, done)
    BY DEF Here, populated
  <1>5. PopulateError(done, fault) # "UnsupportedDataFormat"
    BY DEF PopulateError
  <1>6. \/ \E e : e # "UnsupportedDataFormat" /\ (kept(e) \/ ended(Here, e))
        \/ ended(populated(Here, done), PopulateError(done, fault))
    BY <1>1 DEF finalize
  <1>7. QED BY <1>2, <1>3, <1>4, <1>5, <1>6

LEMMA FlushKeeps ==
  ASSUME hazeFlush
  PROVE  /\ TagsStay
         /\ err' = "UnsupportedDataFormat" => UNCHANGED <<reg, recording, truth, unflushed>>
  <1>1. CASE UnsupportedFormat
    <2>1. UNCHANGED <<reg, recording, truth, unflushed>>
      BY <1>1 DEF hazeFlush, Become, Here, KeepsGhosts
    <2>2. QED BY <2>1, EpochKeeps
  <1>2. CASE ~UnsupportedFormat
    BY <1>2, FinalizeKeeps DEF hazeFlush
  <1>3. QED BY <1>1, <1>2

LEMMA NextKeeps ==
  ASSUME HasOutputs, [Next]_haze
  PROVE  TagsStay
  <1>1. ASSUME Outputs PROVE TagsStay
    <2>1. ASSUME NEW a, hazeTagOutput(a) PROVE TagsStay
      BY <2>1, TagOutputKeeps, BecomeKeeps DEF hazeTagOutput
    <2>2. ASSUME hazeWriteProgram PROVE TagsStay
      BY <2>2, FinalizeKeeps DEF hazeWriteProgram
    <2>3. ASSUME hazeDeviceReset PROVE TagsStay
      BY <2>3 DEF hazeDeviceReset, TagsStay
    <2>4. QED BY <1>1, <2>1, <2>2, <2>3, FlushKeeps DEF Outputs
  <1>2. QED BY <1>1, ConfigKeeps, MemoryKeeps, SrpKeeps, MrpKeeps, EpochKeeps DEF Next, haze

(* What was promised is recorded, tagged and still to be brought back.                  *)
Owing ==
  \A a \in DOMAIN promised :
    recording /\ a \in Pending \cap unflushed \cap DOMAIN truth /\ truth[a] = promised[a]

LEMMA OwingStep ==
  ASSUME Inv, Owing, [RNext]_flushes
  PROVE  Owing'
  <1>1. HasOutputs /\ recording \in BOOLEAN /\ recording' \in BOOLEAN
    <2>1. HasOutputs
      BY DEF Inv, Sound, Booked, Here, GP!Good, GP!Known, GP!Fields, HasOutputs
    <2>2. [Next]_haze
      BY DEF RNext, flushes
    <2>3. QED BY <2>1, <2>2, NextInv DEF Inv
  <1>2. CASE UNCHANGED flushes
    BY <1>2 DEF Owing, flushes, haze, Pending
  <1>3. CASE RNext
    <2>1. TagsStay
      BY <1>1, <1>3, NextKeeps DEF RNext
    <2>2. CASE hazeFlush /\ err' = "UnsupportedDataFormat"
      <3>1. UNCHANGED <<reg, recording, truth, unflushed>> /\ promised' = Owed
        BY <1>3, <2>2, FlushKeeps DEF RNext
      <3>2. QED BY <3>1 DEF Owing, Owed, Restrict, Pending, T!Empty
    <2>3. CASE ~(hazeFlush /\ err' = "UnsupportedDataFormat")
      <3>1. promised' = Standing
        BY <1>3, <2>3 DEF RNext
      <3>2. SUFFICES ASSUME NEW a \in DOMAIN promised'
                     PROVE  /\ recording' /\ a \in (Pending \cap unflushed \cap DOMAIN truth)'
                            /\ truth'[a] = promised'[a]
        BY DEF Owing
      <3>3. /\ ~(recording /\ ~recording') /\ a \in DOMAIN promised \cap DOMAIN truth' \cap unflushed'
            /\ truth'[a] = promised[a] /\ promised'[a] = promised[a]
        BY <3>1 DEF Standing, Restrict, T!Empty
      <3>4. recording /\ recording' /\ a \in Pending
        BY <1>1, <3>3 DEF Owing
      <3>5. a \in Pending'
        BY <2>1, <3>3, <3>4 DEF TagsStay
      <3>6. QED BY <3>3, <3>4, <3>5
    <2>4. QED BY <2>2, <2>3
  <1>4. QED BY <1>2, <1>3

(* The step of RefusedWorkIsDelivered.                                                  *)
Redeemed ==
  (hazeFlush /\ err' = "Ok") =>
    \A a \in DOMAIN promised : a \in DOMAIN shadow_data' /\ shadow_data'[a] = promised[a]

LEMMA RedeemedHold ==
  ASSUME Inv, AllCurrent, OneSize, Owing
  PROVE  Redeemed
  BY DeliveredHold DEF Redeemed, Delivered, Owing

-----------------------------------------------------------------------------
(* The properties. *)

(* In Haze the variables keep their types, every binding is a sequence of words under a  *)
(* modulus the program named, and the allocator's size is Config's ring dimension, which *)
(* hazeSetRingDimension sets in both (config.cpp, epoch.cpp).                           *)
THEOREM HazeTypes == Spec => []TypeOK
  BY TypesHold, Invariant, PTL

(* In Haze the modulus a copy or automorph recovers for a result is the one bound to its *)
(* node, whatever stored, tagged, freed or cleared in between (epoch.cpp record_modulus, *)
(* compute.hpp store_compute_result).                                                   *)
THEOREM ModuliAgreeForAll == Spec => []ModuliAgree
  BY ModuliHold, Invariant, PTL

(* Where operations name allocated destinations, the next owner of a freed address meets *)
(* nothing of the last one's: no binding, modulus, output, group or name                *)
(* (epoch.cpp invalidate_address, called by hazeFree and hazeFreeMrp).                  *)
THEOREM FreedIsForgottenInHaze ==
  ASSUME AnyDst = FALSE
  PROVE  Spec => []FreedIsForgotten
  BY FreedHold, Invariant, PTL

(* In Haze a D2H returns what the program last gave the address, unless that is a result *)
(* no flush has brought back (haze.h:78-83, allocator.cpp copy_to_host).                *)
THEOREM ReadsAreCurrentInHaze ==
  ASSUME OneSize
  PROVE  Spec => []ReadsAreCurrent
  BY CurrentHold, CurrentInvariant, PTL

(* In Haze a recorded operation reads what the program last gave its operand, be it by   *)
(* upload, memset, operation, copy, single or by group, or flush (epoch.cpp             *)
(* lookup_source, invalidate_address).                                                  *)
THEOREM BindingsAreCurrentInHaze ==
  ASSUME OneSize
  PROVE  Spec => []BindingsAreCurrent
  BY CurrentHold, CurrentInvariant, PTL

(* In Haze a flush that succeeds has put at each tagged address the value its own        *)
(* operation recorded, and mixes up no two outputs (epoch.cpp finalize_locked,          *)
(* populate_results_locked).                                                            *)
THEOREM FlushDeliversInHaze ==
  ASSUME OneSize
  PROVE  Spec => FlushDelivers
  <1>1. Inv /\ AllCurrent /\ [Next]_haze => [Delivered]_haze
    BY DeliveredHold
  <1>2. QED BY <1>1, CurrentInvariant, PTL DEF Spec, FlushDelivers, Delivered

(* In Haze the first flush that succeeds after one that was refused for the data format  *)
(* brings back all that the refused one was to, whatever was recorded, uploaded, tagged, *)
(* freed and configured in between (epoch.cpp finalize, register_mrp_output_group,      *)
(* invalidate_address), but for what the program itself has replaced.                   *)
THEOREM RefusedWorkIsDeliveredInHaze ==
  ASSUME OneSize
  PROVE  RSpec => RefusedWorkIsDelivered
  <1> DEFINE RInv == Inv /\ AllCurrent /\ Owing
  <1>1. RInit => RInv
    BY InitInv, NothingHeld DEF RInit, Owing
  <1>2. RInv /\ [RNext]_flushes => RInv'
    BY NextInv, OwingStep DEF RNext, flushes
  <1>3. RInv /\ [RNext]_flushes => [Redeemed]_flushes
    BY RedeemedHold
  <1>4. QED BY <1>1, <1>2, <1>3, PTL DEF RSpec, RefusedWorkIsDelivered, Redeemed
=============================================================================
