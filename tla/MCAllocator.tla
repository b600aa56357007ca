---------------------------- MODULE MCAllocator ----------------------------
(* Allocator on a handful of addresses.  TwoSizes lets the ring dimension change while *)
(* allocations live, which Config permits until hazeConfigureDevice; OneSize does not. *)
EXTENDS Allocator

BitWords == {0, 1}
OneWord == {0}
OneSize == {2}
TwoSizes == {1, 2}
=============================================================================
