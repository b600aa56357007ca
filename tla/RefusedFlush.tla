---------------------------- MODULE RefusedFlush ----------------------------
(* Haze with a history of what its flushes owe: a flush refused for the data format     *)
(* leaves the recording for a flush under a corrected configuration.                    *)
EXTENDS Haze

VARIABLE promised   \* address -> the tagged result that flushes were refused to bring back

flushes == <<haze, promised>>

(* The tagged results of the recording that no flush has brought back. *)
Owed == IF recording THEN Restrict(truth, Pending \cap unflushed \cap DOMAIN truth) ELSE T!Empty

(* A promise stands until the program itself replaces the result, ends the epoch by     *)
(* another call, or changes the size of polynomials.                                    *)
Standing ==
  LET still == {a \in DOMAIN promised \cap DOMAIN truth' \cap unflushed' : truth'[a] = promised[a]}
  IN IF recording /\ ~recording' THEN T!Empty ELSE Restrict(promised, still)

RInit == Init /\ promised = T!Empty

RNext == Next /\ promised' = IF hazeFlush /\ err' = "UnsupportedDataFormat" THEN Owed ELSE Standing

RSpec == RInit /\ [][RNext]_flushes

-----------------------------------------------------------------------------
(* The first flush that succeeds after one that was refused for the data format brings  *)
(* back what that one was to: "after the config is corrected the same recording must    *)
(* still materialize" (test/test_hardware_format.cpp:352-390), whatever further work    *)
(* was recorded, uploaded, tagged, freed and configured between the two.                *)
RefusedWorkIsDelivered ==
  [][(hazeFlush /\ err' = "Ok") =>
       \A a \in DOMAIN promised : a \in DOMAIN shadow_data' /\ shadow_data'[a] = promised[a]]_flushes
=============================================================================
