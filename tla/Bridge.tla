------------------------------- MODULE Bridge -------------------------------
(***************************************************************************)
(* The replay bridge (replay_bridge/src/openfhe_template.cpp) around one   *)
(* flush: the hook that writes the project's ciphertexts while the         *)
(* compiler stops, the flag it leaves for the flush, the files the replay  *)
(* and the reader of results share, and the calls that decide in which     *)
(* directory all of that happens.                                          *)
(*                                                                         *)
(* Files outlive the process; all else does not.  What they hold is told   *)
(* apart only by where it comes from: "now" of the epoch being recorded,   *)
(* "old" of an earlier one, "past" of one before the last reset or start,  *)
(* "wrong" of a tower that was never filled.                               *)
(* Shapes are the lists of moduli of a captured record, of length 1 for a  *)
(* polynomial (SRP) and more for a group (MRP): HAZE tags nothing else.    *)
(* The compiler is external, and does what its callers here say of it.     *)
(***************************************************************************)
EXTENDS Integers, Sequences, FiniteSets

CONSTANTS
  RingDim,      \* of the device's polynomials
  BridgeDims,   \* of the contexts the program asks for
  Shapes,       \* of what is captured
  Unbound,      \* the modulus 0 or kCopyModulus
  Names,        \* program names; the project of name n is <cwd>/n
  Dirs,         \* program directories a caller may pin
  PinAnytime,   \* whether directories are also pinned after the bridge's init, and another
                \* name set without one; either moves the trace away from the context
  Faults,       \* what may fail: build, stop, write, replay, result (a replay that succeeds
                \* without an output), decode, wipe; and crash
  MaxInputs, MaxOutputs   \* bounds on one epoch

None == "none"
NoHook == 0
DefaultName == "haze"
ASSUME BridgeAssumption ==
  /\ None \notin Names \cup Dirs /\ DefaultName \in Names
  /\ BridgeDims \subseteq Nat \ {NoHook} /\ RingDim # NoHook
  /\ PinAnytime \in BOOLEAN

VARIABLES
  program_name, program_dir,   \* Config; None when no directory is pinned
  initialized, recording,      \* CompilerBackend, EpochState
  dir,                         \* the compiler's program directory, None before it has one
  hook,                        \* ring dimension of the hook's contexts, or NoHook
  hook_had_error,
  inputs, outputs,             \* shapes captured; their names are their indices
  context, bins, templates, probes,   \* by directory: cryptocontext.dat, the rest by name
  call, err, results,          \* the flush before this epoch: which, how it ended, what it read
  hookFailed,   \* ghost: in this lifetime a hook failed
  unwiped       \* ghost: the directories that hold what a process that ended without a reset,
                \* or a reset that could not wipe them, left there

T == INSTANCE Tables

config == <<program_name, program_dir>>
captured == <<inputs, outputs>>
files == <<context, bins, templates, probes>>
last == <<call, err, results>>
bridge == <<config, initialized, recording, dir, hook, hook_had_error, captured, files, last,
            hookFailed, unwiped>>

Places == Names \cup Dirs
Nothing == [p \in Places |-> T!Empty]

Init ==
  /\ program_name = DefaultName /\ program_dir = None
  /\ initialized = FALSE /\ recording = FALSE
  /\ dir = None /\ hook = NoHook /\ hook_had_error = FALSE
  /\ inputs = <<>> /\ outputs = <<>>
  /\ call = None /\ err = "Ok" /\ results = T!Empty
  /\ hookFailed = FALSE /\ unwiped = {}
  /\ context = [p \in Places |-> FALSE]
  /\ bins = Nothing /\ templates = [p \in Places |-> {}] /\ probes = Nothing

(* All that a process keeps in memory is as it started with it. *)
Forgotten ==
  /\ program_name' = DefaultName /\ program_dir' = None
  /\ initialized' = FALSE /\ recording' = FALSE
  /\ dir' = None /\ hook' = NoHook
  /\ inputs' = <<>> /\ outputs' = <<>>
  /\ call' = None /\ err' = "Ok" /\ results' = T!Empty
  /\ hookFailed' = FALSE

-----------------------------------------------------------------------------
(* Configuration: accepted at any time, and read when the bridge or the backend comes up. *)

MayConfigure == PinAnytime \/ hook = NoHook

hazeSetProgramInfo(n) ==
  /\ MayConfigure
  /\ PinAnytime \/ n = DefaultName \/ program_dir # None
  /\ program_name' = n
  /\ UNCHANGED <<program_dir, initialized, recording, dir, hook, hook_had_error, captured, files, last,
                 hookFailed, unwiped>>

hazeSetProgramDirectory(d) ==
  /\ MayConfigure /\ program_dir' = d
  /\ UNCHANGED <<program_name, initialized, recording, dir, hook, hook_had_error, captured, files, last,
                 hookFailed, unwiped>>

(* set_program_info moves the project to <cwd>/<name>; a pinned directory is put back.  *)
ProjectDir(name) == IF program_dir # None THEN program_dir ELSE name

Installed(d, n) ==
  /\ dir' = d /\ hook' = n /\ context' = [context EXCEPT ![d] = TRUE]
  /\ UNCHANGED <<config, initialized, recording, hook_had_error, captured, bins, templates, probes, last,
                 hookFailed, unwiped>>

InitForgettingPin(n) ==   \* mutation: the pinned directory is not put back
  Installed(DefaultName, n)

(* A context that cannot be built leaves the hook of an earlier call, if any; so does one *)
(* that cannot be written, when the project has moved already.                           *)
hazeReplayBridgeInitCryptoContext(n) ==
  \/ Installed(ProjectDir(DefaultName), n)
  \/ /\ "build" \in Faults
     /\ dir' \in {dir, ProjectDir(DefaultName)}
     /\ UNCHANGED <<config, initialized, recording, hook, hook_had_error, captured, files, last,
                    hookFailed, unwiped>>

-----------------------------------------------------------------------------
(* Recording. *)

Aged(table) ==
  [p \in Places |-> [x \in DOMAIN table[p] |-> IF table[p][x] = "past" THEN "past" ELSE "old"]]

(* The first call of an epoch, which brings up the backend if it has to. *)
StartRecording ==
  /\ ~recording /\ recording' = TRUE
  /\ initialized' = TRUE
  /\ dir' = IF initialized THEN dir ELSE ProjectDir(program_name)
  /\ bins' = Aged(bins) /\ probes' = Aged(probes)
  /\ call' = None /\ err' = "Ok" /\ results' = T!Empty
  /\ UNCHANGED <<config, hook, hook_had_error, captured, context, templates, hookFailed, unwiped>>

Capture(shape) ==
  /\ recording
  /\ \/ Len(inputs) < MaxInputs /\ inputs' = Append(inputs, shape) /\ UNCHANGED outputs
     \/ Len(outputs) < MaxOutputs /\ outputs' = Append(outputs, shape) /\ UNCHANGED inputs
  /\ UNCHANGED <<config, initialized, recording, dir, hook, hook_had_error, files, last,
                 hookFailed, unwiped>>

-----------------------------------------------------------------------------
(* The hook: a record that fails is logged, and the next one is tried. *)

(* context_for_shape: a record with an unbound modulus gets the primary context, whose  *)
(* chain is one tower long, and any other a context of its own shape.                   *)
Towers(shape) == IF \E i \in DOMAIN shape : shape[i] = Unbound THEN 1 ELSE Len(shape)
Synthesizable(shape) == Len(shape) <= Towers(shape)

Records == ({"input"} \X DOMAIN inputs) \cup ({"output"} \X DOMAIN outputs)
Shape(r) == IF r[1] = "input" THEN inputs[r[2]] ELSE outputs[r[2]]

(* The sets of records that may fail, none when there is no hook. *)
Failures ==
  LET never == {r \in Records : ~Synthesizable(Shape(r))}
  IN IF hook = NoHook THEN {{}}
     ELSE {never \cup S : S \in IF "write" \in Faults THEN SUBSET Records ELSE {{}}}

Of(kind, S) == {r[2] : r \in {x \in S : x[1] = kind}}

(* A record of another ring dimension than the context's is written unfilled. *)
on_post_recording(failed) ==
  LET done == IF hook = NoHook THEN {} ELSE Records \ failed
      payload == IF hook = RingDim THEN "now" ELSE "wrong"
  IN /\ bins' = [bins EXCEPT ![dir] = T!Put(@, [i \in Of("input", done) |-> payload])]
     /\ templates' = [templates EXCEPT ![dir] = @ \cup Of("output", done)]
     /\ hookFailed' = (hookFailed \/ failed # {})

-----------------------------------------------------------------------------
(* Flush, from compiler().stop() on. *)

Cleared == /\ inputs' = <<>> /\ outputs' = <<>> /\ recording' = FALSE
           /\ UNCHANGED <<config, initialized, dir, hook, context, unwiped>>

Ended(c, e) == Cleared /\ call' = c /\ err' = e

(* An output is computed from all inputs, and only one with a template is.  Without a   *)
(* context in the project perhaps none is, and a faulty replay leaves out any, which is *)
(* what the reader of results is prepared for.                                          *)
Replayed ==
  LET ready == DOMAIN inputs \subseteq DOMAIN bins'[dir]
      value == IF \A i \in DOMAIN inputs : bins'[dir][i] = "now" THEN "now" ELSE "wrong"
      able == IF ready THEN DOMAIN outputs \cap templates'[dir] ELSE {}
      without == IF "result" \in Faults THEN SUBSET able ELSE IF context[dir] THEN {} ELSE {{}}
  IN {[o \in S |-> value] : S \in {able} \cup without}

(* What hazeReplayBridgeTakeHookHadError returns when the stop is over. *)
Flagged(failed) == hook_had_error \/ failed # {}

(* The stop fails, before the hook or after it. *)
StopFails(c) ==
  /\ "stop" \in Faults
  /\ \/ UNCHANGED <<bins, templates, hook_had_error, hookFailed>>
     \/ \E failed \in Failures :
          on_post_recording(failed) /\ hook_had_error' = (hook_had_error \/ failed # {})
  /\ Ended(c, "BackendReplayFailed") /\ results' = T!Empty /\ UNCHANGED probes

HookFails(c) ==
  /\ \E failed \in Failures : Flagged(failed) /\ on_post_recording(failed)
  /\ hook_had_error' = FALSE
  /\ Ended(c, "BridgeHookFailed") /\ results' = T!Empty /\ UNCHANGED probes

Written ==
  /\ \E failed \in Failures : ~Flagged(failed) /\ on_post_recording(failed)
  /\ hook_had_error' = FALSE

ReplayFails ==
  /\ "replay" \in Faults /\ Written
  /\ \E made \in Replayed : \E S \in SUBSET DOMAIN made :
       probes' = [probes EXCEPT ![dir] = T!Put(@, [o \in S |-> made[o]])]
  /\ Ended("flush", "BackendReplayFailed") /\ results' = T!Empty

(* A result goes through a file of its own, which may not come out as values. *)
Undecodable == "decode" \in Faults

(* Results are read by name from the files, the first that is missing ends it. *)
ReadBack ==
  /\ Written
  /\ \E made \in Replayed : probes' = [probes EXCEPT ![dir] = T!Put(@, made)]
  /\ \E got \in SUBSET (DOMAIN outputs \cap DOMAIN probes'[dir]) :
       /\ results' = [o \in got |-> probes'[dir][o]]
       /\ \/ got = DOMAIN outputs /\ Ended("flush", "Ok")
          \/ /\ got # DOMAIN outputs
             /\ ~(DOMAIN outputs \subseteq DOMAIN probes'[dir])
             /\ Ended("flush", "BackendOutputMissing")
          \/ /\ got # DOMAIN outputs /\ Undecodable
             /\ Ended("flush", "BackendOutputDecodeFailed")

NothingTagged(c) ==
  /\ recording /\ outputs = <<>>
  /\ Ended(c, "Ok") /\ results' = T!Empty
  /\ UNCHANGED <<bins, templates, probes, hook_had_error, hookFailed>>

hazeFlush ==
  \/ NothingTagged("flush")
  \/ /\ recording /\ outputs # <<>>
     /\ StopFails("flush") \/ HookFails("flush") \/ ReplayFails \/ ReadBack

hazeWriteProgram ==
  \/ NothingTagged("write")
  \/ /\ recording /\ outputs # <<>>
     /\ \/ StopFails("write") \/ HookFails("write")
        \/ Written /\ Ended("write", "Ok") /\ results' = T!Empty /\ UNCHANGED probes

(* Also open to the program. *)
hazeReplayBridgeTakeHookHadError ==
  /\ hook_had_error' = FALSE
  /\ UNCHANGED <<config, initialized, recording, dir, hook, captured, files, last, hookFailed, unwiped>>

-----------------------------------------------------------------------------
(* Resets. *)

(* What may be left of a set of files: nothing, unless the wipe fails, which is only    *)
(* logged: the reset goes on.                                                           *)
Leavings(S) == IF "wipe" \in Faults THEN SUBSET S ELSE {{}}

Past == [p \in Places |-> [o \in DOMAIN probes[p] |-> "past"]]

WipedTo(made, written) ==
  /\ probes' = [Past EXCEPT ![dir] = [o \in made |-> "past"]]
  /\ templates' = [templates EXCEPT ![dir] = written]
  /\ unwiped' = IF made \cup written = {} THEN unwiped \ {dir} ELSE unwiped \cup {dir}

WipedOfProbes ==   \* mutation: the templates stay
  /\ probes' = IF dir = None THEN Past ELSE [Past EXCEPT ![dir] = T!Empty]
  /\ UNCHANGED templates /\ unwiped' = unwiped \ {dir}

WipedOfTemplates ==   \* mutation: the probes stay
  /\ templates' = IF dir = None THEN templates ELSE [templates EXCEPT ![dir] = {}]
  /\ probes' = Past /\ unwiped' = unwiped \ {dir}

(* The two directories of the project the compiler has at the time. *)
Wiped ==
  \/ dir = None /\ probes' = Past /\ UNCHANGED <<templates, unwiped>>
  \/ /\ dir # None
     /\ \E made \in Leavings(DOMAIN probes[dir]), written \in Leavings(templates[dir]) :
          WipedTo(made, written)

hazeReplayBridgeReset ==
  /\ hook_had_error' = FALSE /\ hookFailed' = FALSE
  /\ Wiped
  /\ UNCHANGED <<config, initialized, recording, dir, hook, captured, context, bins, last>>

ResetKeepingFlag ==   \* mutation: the flag is left for the next lifetime
  /\ Forgotten /\ UNCHANGED hook_had_error
  /\ Wiped
  /\ UNCHANGED <<context, bins>>

(* reset_all: the bridge's reset comes before the compiler's, which forgets the project *)
(* and frees the hook.                                                                  *)
hazeDeviceReset ==
  /\ Forgotten /\ hook_had_error' = FALSE
  /\ Wiped
  /\ UNCHANGED <<context, bins>>

(* The process ends, wherever it is, and the next one finds its files. *)
Crash ==
  /\ "crash" \in Faults
  /\ Forgotten /\ hook_had_error' = FALSE
  /\ probes' = Past /\ UNCHANGED <<context, bins, templates>>
  /\ unwiped' = unwiped \cup {p \in Places : templates[p] # {} \/ DOMAIN probes[p] # {}}

-----------------------------------------------------------------------------
Next ==
  \/ \E n \in Names : hazeSetProgramInfo(n)
  \/ \E d \in Dirs : hazeSetProgramDirectory(d)
  \/ \E n \in BridgeDims : hazeReplayBridgeInitCryptoContext(n)
  \/ StartRecording
  \/ \E s \in Shapes : Capture(s)
  \/ hazeFlush \/ hazeWriteProgram
  \/ hazeReplayBridgeTakeHookHadError \/ hazeReplayBridgeReset \/ hazeDeviceReset \/ Crash

Spec == Init /\ [][Next]_bridge

-----------------------------------------------------------------------------
(* Properties. *)

(* A step that ends an epoch with tagged outputs in success, by the call c. *)
Succeeds(c) == recording /\ outputs # <<>> /\ ~recording' /\ call' = c /\ err' = "Ok"

(* A flush or hazeWriteProgram that succeeds under the hook leaves a whole project where *)
(* the trace is: the crypto context, a template for each output and a ciphertext of this *)
(* epoch for each input (epoch.cpp:416-418).  A record the hook failed on is not passed  *)
(* over, nor is what an earlier epoch or process left under the same name taken for it.  *)
ProjectIsWhole ==
  [][(\E c \in {"flush", "write"} : Succeeds(c)) /\ hook # NoHook =>
       /\ context'[dir] /\ DOMAIN outputs \subseteq templates'[dir]
       /\ \A i \in DOMAIN inputs : i \in DOMAIN bins'[dir] /\ bins'[dir][i] # "old"]_bridge

(* Under a context of the device's ring dimension, what a successful flush reads was     *)
(* computed in this lifetime, from inputs that were written for it, although names and   *)
(* file names restart with every epoch: nothing of before a reset or a crash, and no     *)
(* ciphertext a failed hook left.  The reset removes it "so stale template/probe names   *)
(* from prior tests don't pollute" (openfhe_template.cpp:564), and where it could not,   *)
(* this says nothing.  An output the replay left out may still be an earlier epoch's.    *)
ResultsAreOfThisLifetime ==
  [][Succeeds("flush") /\ hook = RingDim /\ dir \notin unwiped =>
       \A o \in DOMAIN outputs : results'[o] \in {"now", "old"}]_bridge

(* After a device reset, a flush without a new init of the bridge fails, instead of      *)
(* replaying what the former lifetime wrote (replay_bridge.h:27-30).  It has something   *)
(* to replay only where a process ended without a reset, or where the wipe failed, which *)
(* the reset logs and passes over (openfhe_template.cpp:577-591).                        *)
UnbridgedFlushFails == [][Succeeds("flush") /\ hook = NoHook => dir \in unwiped]_bridge

(* A flush is refused for its hook only when a hook has failed since the last reset,     *)
(* also when that hook's own flush ended before it took the flag                         *)
(* (openfhe_template.cpp:559-561).                                                       *)
BlamesThisLifetime ==
  [][recording /\ ~recording' /\ err' = "BridgeHookFailed" => hookFailed']_bridge
=============================================================================
