---------------------------- MODULE BridgeProofs ----------------------------
(***************************************************************************)
(* The properties of Bridge for any names, directories, shapes, faults and *)
(* bounds.  All but the flag's rest on where the project is: while a hook  *)
(* is installed, the compiler's directory is the one the hook's init chose *)
(* and wrote its crypto context to, and no other has templates.  That is   *)
(* what the right order of configuration and init (~PinAnytime) buys.      *)
(***************************************************************************)
EXTENDS Bridge, TLAPS

(* Overwriting takes the new entries and keeps the others. *)
LEMMA PutProperties ==
  ASSUME NEW f, NEW g
  PROVE  /\ DOMAIN T!Put(f, g) = DOMAIN f \cup DOMAIN g
         /\ \A x \in DOMAIN g : T!Put(f, g)[x] = g[x]
  BY DEF T!Put

-----------------------------------------------------------------------------
(* The flag. *)

FlagIsExplained == hook_had_error => hookFailed

(* A flag that is raised is raised by a hook of this lifetime. *)
LEMMA FlagInvariant == Spec => []FlagIsExplained
  <1>1. Init => FlagIsExplained
    BY DEF Init, FlagIsExplained
  <1>2. FlagIsExplained /\ [Next]_bridge => FlagIsExplained'
    <2> SUFFICES ASSUME FlagIsExplained, [Next]_bridge PROVE FlagIsExplained'
      OBVIOUS
    <2> USE DEF FlagIsExplained
    <2>1. ASSUME NEW n, hazeSetProgramInfo(n) \/ hazeSetProgramDirectory(n)
          PROVE  FlagIsExplained'
      BY <2>1 DEF hazeSetProgramInfo, hazeSetProgramDirectory
    <2>2. ASSUME NEW n, hazeReplayBridgeInitCryptoContext(n) PROVE FlagIsExplained'
      BY <2>2 DEF hazeReplayBridgeInitCryptoContext, Installed
    <2>3. CASE StartRecording
      BY <2>3 DEF StartRecording
    <2>4. ASSUME NEW s, Capture(s) PROVE FlagIsExplained'
      BY <2>4 DEF Capture
    <2>5. ASSUME NEW c, StopFails(c) PROVE FlagIsExplained'
      <3>1. CASE UNCHANGED <<bins, templates, hook_had_error, hookFailed>>
        BY <3>1
      <3>2. ASSUME NEW failed, on_post_recording(failed),
                   hook_had_error' = (hook_had_error \/ failed # {})
            PROVE  FlagIsExplained'
        <4>1. hookFailed' = (hookFailed \/ failed # {})
          BY <3>2 DEF on_post_recording
        <4>2. QED BY <3>2, <4>1, Zenon
      <3>3. QED BY <2>5, <3>1, <3>2, Zenon DEF StopFails
    <2>6. ASSUME NEW c, HookFails(c) \/ Written \/ NothingTagged(c) PROVE FlagIsExplained'
      BY <2>6 DEF HookFails, Written, NothingTagged
    <2>7. CASE hazeFlush
      BY <2>5, <2>6, <2>7 DEF hazeFlush, ReplayFails, ReadBack
    <2>8. CASE hazeWriteProgram
      BY <2>5, <2>6, <2>8 DEF hazeWriteProgram
    <2>9. CASE hazeReplayBridgeTakeHookHadError \/ hazeReplayBridgeReset \/ hazeDeviceReset \/ Crash
      BY <2>9 DEF hazeReplayBridgeTakeHookHadError, hazeReplayBridgeReset, hazeDeviceReset, Crash
    <2>10. CASE UNCHANGED bridge
      BY <2>10 DEF bridge
    <2>11. QED BY <2>1, <2>2, <2>3, <2>4, <2>7, <2>8, <2>9, <2>10 DEF Next
  <1>3. QED BY <1>1, <1>2, PTL DEF Spec

(* A flush is refused for its hook only when a hook of this lifetime failed: the flag a   *)
(* failed stop leaves is not carried past a reset (epoch.cpp:401-408, lifecycle.cpp:44). *)
THEOREM BlameIsJust == Spec => BlamesThisLifetime
  <1>1. ASSUME FlagIsExplained, [Next]_bridge, recording, ~recording', err' = "BridgeHookFailed"
        PROVE  hookFailed'
    <2>1. ASSUME NEW c, HookFails(c) PROVE hookFailed'
      BY <1>1, <2>1 DEF HookFails, Flagged, FlagIsExplained, on_post_recording
    <2>2. ASSUME NEW c, StopFails(c) \/ NothingTagged(c) PROVE FALSE
      BY <1>1, <2>2 DEF StopFails, NothingTagged, Ended
    <2>3. CASE hazeFlush
      BY <1>1, <2>1, <2>2, <2>3 DEF hazeFlush, ReplayFails, ReadBack, Ended
    <2>4. CASE hazeWriteProgram
      BY <1>1, <2>1, <2>2, <2>4 DEF hazeWriteProgram, Ended
    <2>5. ASSUME NEW n, \/ hazeSetProgramInfo(n) \/ hazeSetProgramDirectory(n)
                        \/ hazeReplayBridgeInitCryptoContext(n) \/ Capture(n)
          PROVE  FALSE
      BY <1>1, <2>5 DEF hazeSetProgramInfo, hazeSetProgramDirectory,
                        hazeReplayBridgeInitCryptoContext, Installed, Capture
    <2>6. CASE StartRecording \/ hazeReplayBridgeTakeHookHadError \/ hazeReplayBridgeReset
               \/ UNCHANGED bridge
      BY <1>1, <2>6 DEF StartRecording, hazeReplayBridgeTakeHookHadError, hazeReplayBridgeReset, bridge
    <2>7. CASE hazeDeviceReset \/ Crash
      BY <1>1, <2>7 DEF hazeDeviceReset, Crash, Forgotten
    <2>8. QED BY <1>1, <2>3, <2>4, <2>5, <2>6, <2>7 DEF Next
  <1>2. QED BY <1>1, FlagInvariant, PTL DEF Spec, BlamesThisLifetime

-----------------------------------------------------------------------------
(* The project. *)

Tabled ==
  /\ DOMAIN context = Places /\ DOMAIN bins = Places
  /\ DOMAIN templates = Places /\ DOMAIN probes = Places

Placed ==
  /\ program_name \in Names /\ program_dir \in Dirs \cup {None}
  /\ dir \in Places \cup {None}
  /\ (initialized \/ recording \/ hook # NoHook) => dir \in Places
  /\ recording => initialized

(* The hook's project is where the trace will be, or is. *)
Anchored ==
  /\ program_name = DefaultName \/ program_dir # None
  /\ hook # NoHook => dir = ProjectDir(DefaultName) /\ context[dir]

(* But for what a death or a failed wipe left, only the hook's project has templates or  *)
(* probes, and these are of this lifetime.                                              *)
Contained ==
  \A p \in Places \ unwiped :
    /\ templates[p] # {} \/ DOMAIN probes[p] # {} => p = dir /\ hook # NoHook
    /\ \A o \in DOMAIN probes[p] : probes[p][o] # "past"

(* While an epoch is recorded, the probes are those of earlier ones. *)
Settled == recording => \A p \in Places : \A o \in DOMAIN probes[p] : probes[p][o] \in {"old", "past"}

IInv == Tabled /\ Placed /\ Anchored /\ Contained /\ Settled

LEMMA InitIInv == Init => IInv
  BY BridgeAssumption
  DEF Init, IInv, Tabled, Placed, Anchored, Contained, Settled, Places, Nothing, T!Empty

LEMMA ProjectDirIsPlace ==
  ASSUME Placed, NEW n \in Names
  PROVE  ProjectDir(n) \in Places
  BY DEF Placed, ProjectDir, Places

(* What the hook does to the files. *)
LEMMA HookStep ==
  ASSUME IInv, dir \in Places, NEW failed, on_post_recording(failed)
  PROVE  /\ DOMAIN bins' = Places /\ DOMAIN templates' = Places
         /\ \A p \in Places : p # dir => templates'[p] = templates[p]
         /\ hook = NoHook => templates'[dir] = templates[dir]
  <1>1. DOMAIN bins' = Places /\ DOMAIN templates' = Places
    BY DEF IInv, Tabled, on_post_recording
  <1>2. \A p \in Places : p # dir => templates'[p] = templates[p]
    BY DEF IInv, Tabled, on_post_recording
  <1>3. ASSUME hook = NoHook PROVE templates'[dir] = templates[dir]
    <2>1. templates' = [templates EXCEPT ![dir] = @ \cup Of("output", {})]
      BY <1>3 DEF on_post_recording
    <2>2. Of("output", {}) = {}
      BY DEF Of
    <2>3. QED BY <2>1, <2>2 DEF IInv, Tabled
  <1>4. QED BY <1>1, <1>2, <1>3

(* A replay makes no probe without a template. *)
LEMMA ReplayedStep ==
  \A made \in Replayed :
    /\ DOMAIN made \subseteq templates'[dir]
    /\ \A o \in DOMAIN made : made[o] \in {"now", "wrong"}
  BY DEF Replayed

(* Probes that are written add at most the templates to their directory. *)
LEMMA PutStep ==
  ASSUME IInv, dir \in Places, Written, NEW made, DOMAIN made \subseteq templates'[dir],
         probes' = [probes EXCEPT ![dir] = T!Put(@, made)]
  PROVE  /\ DOMAIN probes' = Places
         /\ \A p \in Places : p # dir \/ (hook = NoHook /\ templates[dir] = {}) =>
              DOMAIN probes'[p] = DOMAIN probes[p]
         /\ \A p \in Places : p # dir => probes'[p] = probes[p]
         /\ \A o \in DOMAIN probes'[dir] :
              probes'[dir][o] = IF o \in DOMAIN made THEN made[o] ELSE probes[dir][o]
         /\ DOMAIN probes'[dir] = DOMAIN probes[dir] \cup DOMAIN made
  <1>1. hook = NoHook => templates'[dir] = templates[dir]
    BY HookStep DEF Written
  <1>2. probes'[dir] = T!Put(probes[dir], made)
    BY DEF IInv, Tabled
  <1>3. DOMAIN probes'[dir] = DOMAIN probes[dir] \cup DOMAIN made
    BY <1>2, PutProperties
  <1>4. \A o \in DOMAIN probes'[dir] :
          probes'[dir][o] = IF o \in DOMAIN made THEN made[o] ELSE probes[dir][o]
    BY <1>2, <1>3 DEF T!Put
  <1>5. QED BY <1>1, <1>3, <1>4 DEF IInv, Tabled

(* What a flush leaves of the project, however it ends. *)
LEMMA FlushStep ==
  ASSUME IInv, hazeFlush \/ hazeWriteProgram
  PROVE  /\ Cleared
         /\ Tabled'
         /\ \A p \in Places : p # dir \/ (hook = NoHook /\ templates[dir] = {}) =>
              templates'[p] = templates[p] /\ DOMAIN probes'[p] = DOMAIN probes[p]
         /\ \A p \in Places : \A o \in DOMAIN probes'[p] :
              \/ probes'[p][o] \in {"now", "wrong"}
              \/ o \in DOMAIN probes[p] /\ probes'[p][o] = probes[p][o]
  <1> DEFINE Probes == /\ DOMAIN probes' = Places
                       /\ \A p \in Places : p # dir \/ (hook = NoHook /\ templates[dir] = {}) =>
                            DOMAIN probes'[p] = DOMAIN probes[p]
                       /\ \A p \in Places : \A o \in DOMAIN probes'[p] :
                            \/ probes'[p][o] \in {"now", "wrong"}
                            \/ o \in DOMAIN probes[p] /\ probes'[p][o] = probes[p][o]
             Files == /\ DOMAIN bins' = Places /\ DOMAIN templates' = Places
                      /\ \A p \in Places : p # dir \/ hook = NoHook => templates'[p] = templates[p]
  <1>1. recording /\ dir \in Places
    BY DEF IInv, Placed, hazeFlush, hazeWriteProgram, NothingTagged
  <1>2. ASSUME NEW failed, on_post_recording(failed) PROVE Files
    BY <1>1, <1>2, HookStep
  <1>3. ASSUME UNCHANGED <<bins, templates>> PROVE Files
    BY <1>3 DEF IInv, Tabled
  <1>4. ASSUME NEW c, StopFails(c)
        PROVE  Files /\ Cleared /\ Probes
    BY <1>2, <1>3, <1>4 DEF StopFails, Ended, IInv, Tabled
  <1>5. ASSUME NEW c, HookFails(c)
        PROVE  Files /\ Cleared /\ Probes
    BY <1>2, <1>5 DEF HookFails, Ended, IInv, Tabled
  <1>6. ASSUME NEW c, NothingTagged(c)
        PROVE  Files /\ Cleared /\ Probes
    BY <1>3, <1>6 DEF NothingTagged, Ended, IInv, Tabled
  <1>7. ASSUME Written PROVE Files
    BY <1>2, <1>7 DEF Written
  <1>p. ASSUME Written, NEW made, DOMAIN made \subseteq templates'[dir],
               \A o \in DOMAIN made : made[o] \in {"now", "wrong"},
               probes' = [probes EXCEPT ![dir] = T!Put(@, made)]
        PROVE  Probes
    <2>1. /\ DOMAIN probes' = Places
          /\ \A p \in Places : p # dir \/ (hook = NoHook /\ templates[dir] = {}) =>
               DOMAIN probes'[p] = DOMAIN probes[p]
          /\ \A p \in Places : p # dir => probes'[p] = probes[p]
          /\ \A o \in DOMAIN probes'[dir] :
               probes'[dir][o] = IF o \in DOMAIN made THEN made[o] ELSE probes[dir][o]
          /\ DOMAIN probes'[dir] = DOMAIN probes[dir] \cup DOMAIN made
      BY <1>1, <1>p, PutStep
    <2>2. ASSUME NEW o \in DOMAIN probes'[dir]
          PROVE  \/ probes'[dir][o] \in {"now", "wrong"}
                 \/ o \in DOMAIN probes[dir] /\ probes'[dir][o] = probes[dir][o]
      BY <1>p, <2>1
    <2>3. QED BY <2>1, <2>2
  <1>8. ASSUME ReplayFails PROVE Files /\ Cleared /\ Probes
    <2>1. PICK made \in Replayed : \E S \in SUBSET DOMAIN made :
            probes' = [probes EXCEPT ![dir] = T!Put(@, [o \in S |-> made[o]])]
      BY <1>8 DEF ReplayFails
    <2>2. PICK S \in SUBSET DOMAIN made :
            probes' = [probes EXCEPT ![dir] = T!Put(@, [o \in S |-> made[o]])]
      BY <2>1
    <2> DEFINE part == [o \in S |-> made[o]]
    <2>3. DOMAIN part \subseteq templates'[dir] /\ \A o \in DOMAIN part : part[o] \in {"now", "wrong"}
      BY ReplayedStep
    <2>4. Probes
      <3>1. Written
        BY <1>8 DEF ReplayFails
      <3>2. probes' = [probes EXCEPT ![dir] = T!Put(@, part)]
        BY <2>2
      <3> HIDE DEF part
      <3>3. QED BY <2>3, <3>1, <3>2, <1>p
    <2>5. QED BY <1>7, <1>8, <2>4 DEF ReplayFails, Ended
  <1>9. ASSUME ReadBack PROVE Files /\ Cleared /\ Probes
    <2>1. PICK made \in Replayed : probes' = [probes EXCEPT ![dir] = T!Put(@, made)]
      BY <1>9 DEF ReadBack
    <2>2. DOMAIN made \subseteq templates'[dir] /\ \A o \in DOMAIN made : made[o] \in {"now", "wrong"}
      BY ReplayedStep
    <2>3. Probes
      <3>1. Written
        BY <1>9 DEF ReadBack
      <3>2. QED BY <2>1, <2>2, <3>1, <1>p
    <2>4. QED BY <1>7, <1>9, <2>3 DEF ReadBack, Ended
  <1>10. Files /\ Cleared /\ Probes
    <2>1. CASE hazeFlush
      BY <1>4, <1>5, <1>6, <1>8, <1>9, <2>1 DEF hazeFlush
    <2>2. CASE hazeWriteProgram
      <3>1. ASSUME Written /\ Ended("write", "Ok") /\ UNCHANGED probes
            PROVE  Files /\ Cleared /\ Probes
        BY <1>7, <3>1 DEF Ended, IInv, Tabled
      <3>2. QED BY <1>4, <1>5, <1>6, <2>2, <3>1 DEF hazeWriteProgram
    <2>3. QED BY <2>1, <2>2
  <1>11. UNCHANGED context
    BY <1>10 DEF Cleared
  <1>12. QED BY <1>10, <1>11 DEF Tabled, IInv

(* In the advised order of configuration and init, the project stays in one place.      *)
LEMMA NextIInv ==
  ASSUME ~PinAnytime, IInv, [Next]_bridge
  PROVE  IInv'
  <1>0. None \notin Places /\ DefaultName \in Names /\ 0 \notin BridgeDims
    BY BridgeAssumption DEF Places, NoHook
  <1>1. ASSUME NEW n \in Names, hazeSetProgramInfo(n) PROVE IInv'
    BY <1>0, <1>1 DEF hazeSetProgramInfo, MayConfigure, files, IInv, Tabled, Placed, Anchored, Contained, Settled, Places
  <1>2. ASSUME NEW d \in Dirs, hazeSetProgramDirectory(d) PROVE IInv'
    BY <1>0, <1>2 DEF hazeSetProgramDirectory, MayConfigure, files, IInv, Tabled, Placed, Anchored, Contained, Settled, Places
  <1>3. ASSUME NEW n \in BridgeDims, hazeReplayBridgeInitCryptoContext(n) PROVE IInv'
    <2>1. ProjectDir(DefaultName) \in Places /\ n # NoHook
      BY <1>0, ProjectDirIsPlace DEF IInv, NoHook
    <2>2. CASE Installed(ProjectDir(DefaultName), n)
      <3>1. Tabled' /\ Placed'
        BY <2>1, <2>2 DEF Installed, config, IInv, Tabled, Placed
      <3>2. Anchored'
        BY <2>1, <2>2 DEF Installed, config, IInv, Tabled, Anchored, ProjectDir
      <3>3. Contained'
        BY <2>1, <2>2 DEF Installed, config, IInv, Anchored, Contained
      <3>4. Settled'
        BY <2>2 DEF Installed, IInv, Settled
      <3>5. QED BY <3>1, <3>2, <3>3, <3>4 DEF IInv
    <2>3. CASE /\ dir' \in {dir, ProjectDir(DefaultName)}
               /\ UNCHANGED <<config, initialized, recording, hook, files, unwiped>>
      BY <2>1, <2>3 DEF config, files, IInv, Tabled, Placed, Anchored, Contained, Settled, ProjectDir
    <2>4. QED BY <1>3, <2>2, <2>3 DEF hazeReplayBridgeInitCryptoContext
  <1>4. CASE StartRecording
    <2>1. ProjectDir(program_name) \in Places
      BY ProjectDirIsPlace DEF IInv, Placed
    <2>2. hook # NoHook => dir' = dir
      BY <1>4 DEF StartRecording, IInv, Anchored, ProjectDir
    <2>3. Tabled'
      BY <1>4 DEF StartRecording, Aged, IInv, Tabled
    <2>4. Placed'
      BY <1>4, <2>1 DEF StartRecording, config, IInv, Placed
    <2>5. Anchored'
      BY <1>4, <2>2 DEF StartRecording, config, IInv, Anchored, ProjectDir
    <2>6. \A p \in Places : templates'[p] = templates[p] /\ DOMAIN probes'[p] = DOMAIN probes[p]
      BY <1>4 DEF StartRecording, Aged, IInv, Tabled
    <2>7. UNCHANGED <<hook, unwiped>>
      BY <1>4 DEF StartRecording
    <2>8. \A p \in Places : \A o \in DOMAIN probes'[p] :
            probes'[p][o] = IF probes[p][o] = "past" THEN "past" ELSE "old"
      BY <1>4 DEF StartRecording, Aged
    <2>9. Contained'
      BY <2>2, <2>6, <2>7, <2>8 DEF IInv, Contained
    <2>10. Settled'
      BY <2>8 DEF Settled
    <2>11. QED BY <2>3, <2>4, <2>5, <2>9, <2>10 DEF IInv
  <1>5. ASSUME NEW s \in Shapes, Capture(s) PROVE IInv'
    BY <1>5 DEF Capture, config, files, IInv, Tabled, Placed, Anchored, Contained, Settled, ProjectDir
  <1>6. CASE hazeFlush \/ hazeWriteProgram
    <2>1. /\ Cleared /\ Tabled'
          /\ \A p \in Places : p # dir \/ (hook = NoHook /\ templates[dir] = {}) =>
               templates'[p] = templates[p] /\ DOMAIN probes'[p] = DOMAIN probes[p]
          /\ \A p \in Places : \A o \in DOMAIN probes'[p] :
               \/ probes'[p][o] \in {"now", "wrong"}
               \/ o \in DOMAIN probes[p] /\ probes'[p][o] = probes[p][o]
      BY <1>6, FlushStep
    <2>2. UNCHANGED <<program_name, program_dir, initialized, dir, hook, context, unwiped>> /\ ~recording'
      BY <2>1 DEF Cleared, config
    <2>3. Placed'
      BY <2>2 DEF IInv, Placed
    <2>4. Anchored'
      BY <2>2 DEF IInv, Anchored, ProjectDir
    <2>5. ASSUME NEW p \in Places \ unwiped'
          PROVE  /\ templates'[p] # {} \/ DOMAIN probes'[p] # {} => p = dir' /\ hook' # NoHook
                 /\ \A o \in DOMAIN probes'[p] : probes'[p][o] # "past"
      BY <2>1, <2>2, <2>5 DEF IInv, Contained
    <2>6. Contained' /\ Settled'
      BY <2>2, <2>5 DEF Contained, Settled
    <2>7. QED BY <2>1, <2>3, <2>4, <2>6 DEF IInv
  <1>7. ASSUME Wiped
        PROVE  /\ DOMAIN probes' = Places /\ DOMAIN templates' = Places
               /\ \A p \in Places \ unwiped' : templates'[p] = {} /\ DOMAIN probes'[p] = {}
               /\ \A p \in Places : \A o \in DOMAIN probes'[p] : probes'[p][o] = "past"
    <2>1. DOMAIN Past = Places /\ \A p \in Places : /\ DOMAIN Past[p] = DOMAIN probes[p]
                                                   /\ \A o \in DOMAIN Past[p] : Past[p][o] = "past"
      BY DEF Past
    <2>2. CASE dir = None /\ probes' = Past /\ UNCHANGED <<templates, unwiped>>
      BY <1>0, <2>1, <2>2 DEF IInv, Tabled, Placed, Contained
    <2>3. ASSUME NEW made, NEW written, dir # None, WipedTo(made, written)
          PROVE  /\ DOMAIN probes' = Places /\ DOMAIN templates' = Places
                 /\ \A p \in Places \ unwiped' : templates'[p] = {} /\ DOMAIN probes'[p] = {}
                 /\ \A p \in Places : \A o \in DOMAIN probes'[p] : probes'[p][o] = "past"
      <3>1. dir \in Places
        BY <2>3 DEF IInv, Placed
      <3>2. /\ DOMAIN probes' = Places /\ DOMAIN templates' = Places
            /\ \A p \in Places \ {dir} : probes'[p] = Past[p] /\ templates'[p] = templates[p]
            /\ probes'[dir] = [o \in made |-> "past"] /\ templates'[dir] = written
            /\ unwiped \ {dir} \subseteq unwiped' /\ (dir \notin unwiped' => made = {} /\ written = {})
        BY <2>1, <2>3, <3>1 DEF WipedTo, IInv, Tabled
      <3>3. ASSUME NEW p \in Places \ {dir}, p \notin unwiped
            PROVE  templates[p] = {} /\ DOMAIN probes[p] = {}
        BY <3>3 DEF IInv, Contained
      <3>4. \A p \in Places \ unwiped' : templates'[p] = {} /\ DOMAIN probes'[p] = {}
        BY <2>1, <3>2, <3>3
      <3>5. \A p \in Places : \A o \in DOMAIN probes'[p] : probes'[p][o] = "past"
        BY <2>1, <3>1, <3>2
      <3>6. QED BY <3>2, <3>4, <3>5
    <2>4. QED BY <1>7, <2>2, <2>3 DEF Wiped
  <1>8. CASE hazeReplayBridgeReset
    <2>1. Wiped
      BY <1>8 DEF hazeReplayBridgeReset
    <2>2. QED BY <1>7, <1>8, <2>1
              DEF hazeReplayBridgeReset, config, IInv, Tabled, Placed, Anchored, Contained, Settled,
                  ProjectDir
  <1>9. CASE hazeDeviceReset
    <2>1. Wiped
      BY <1>9 DEF hazeDeviceReset
    <2>2. QED BY <1>0, <1>7, <1>9, <2>1
              DEF hazeDeviceReset, Forgotten, IInv, Tabled, Placed, Anchored, Contained, Settled
  <1>10. CASE Crash
    BY <1>0, <1>10 DEF Crash, Forgotten, Past, IInv, Tabled, Placed, Anchored, Contained, Settled
  <1>11. CASE hazeReplayBridgeTakeHookHadError \/ UNCHANGED bridge
    BY <1>11 DEF hazeReplayBridgeTakeHookHadError, bridge, config, files, IInv, Tabled, Placed,
                 Anchored, Contained, Settled, ProjectDir
  <1>12. QED BY <1>1, <1>2, <1>3, <1>4, <1>5, <1>6, <1>8, <1>9, <1>10, <1>11 DEF Next

LEMMA ProjectInvariant == ~PinAnytime => (Spec => []IInv)
  <1> SUFFICES ASSUME ~PinAnytime PROVE Spec => []IInv
    OBVIOUS
  <1>1. IInv /\ [Next]_bridge => IInv'
    BY NextIInv
  <1>2. QED BY <1>1, InitIInv, PTL DEF Spec

-----------------------------------------------------------------------------
(* Which steps end an epoch in success, and what they have written then. *)

(* Only the last step of a flush does. *)
LEMMA SuccessStep ==
  ASSUME NEW c \in {"flush", "write"}, [Next]_bridge, Succeeds(c)
  PROVE  /\ Written /\ UNCHANGED context
         /\ c = "flush" => ReadBack
  <1> USE DEF Succeeds
  <1>1. ASSUME NEW b, StopFails(b) \/ HookFails(b) \/ NothingTagged(b) PROVE FALSE
    BY <1>1 DEF StopFails, HookFails, NothingTagged, Ended
  <1>2. CASE hazeFlush
    <2>1. ReadBack
      BY <1>1, <1>2 DEF hazeFlush, ReplayFails, Ended
    <2>2. QED BY <2>1 DEF ReadBack, Ended, Cleared
  <1>3. CASE hazeWriteProgram
    BY <1>1, <1>3 DEF hazeWriteProgram, Ended, Cleared
  <1>4. ASSUME NEW n, \/ hazeSetProgramInfo(n) \/ hazeSetProgramDirectory(n)
                      \/ hazeReplayBridgeInitCryptoContext(n) \/ Capture(n)
        PROVE  FALSE
    BY <1>4 DEF hazeSetProgramInfo, hazeSetProgramDirectory,
                hazeReplayBridgeInitCryptoContext, Installed, Capture
  <1>5. CASE StartRecording \/ hazeReplayBridgeTakeHookHadError \/ hazeReplayBridgeReset
             \/ UNCHANGED bridge
    BY <1>5 DEF StartRecording, hazeReplayBridgeTakeHookHadError, hazeReplayBridgeReset, bridge
  <1>6. CASE hazeDeviceReset \/ Crash
    BY <1>6 DEF hazeDeviceReset, Crash, Forgotten, None
  <1>7. QED BY <1>2, <1>3, <1>4, <1>5, <1>6 DEF Next

(* A hook without a failed record wrote each input and each template afresh. *)
LEMMA WholeStep ==
  ASSUME Tabled, dir \in Places, hook # NoHook, Written
  PROVE  /\ DOMAIN outputs \subseteq templates'[dir]
         /\ DOMAIN inputs \subseteq DOMAIN bins'[dir]
         /\ \A i \in DOMAIN inputs : bins'[dir][i] = IF hook = RingDim THEN "now" ELSE "wrong"
  <1> DEFINE payload == IF hook = RingDim THEN "now" ELSE "wrong"
             fresh == [i \in Of("input", Records) |-> payload]
  <1>1. on_post_recording({})
    BY DEF Written, Flagged
  <1>2. /\ bins'[dir] = T!Put(bins[dir], fresh)
        /\ templates'[dir] = templates[dir] \cup Of("output", Records)
    <2>1. Records \ {} = Records
      OBVIOUS
    <2>2. QED BY <1>1, <2>1 DEF on_post_recording, Tabled
  <1>3. ASSUME NEW kind, NEW S, NEW i \in S, {kind} \X S \subseteq Records
        PROVE  i \in Of(kind, Records)
    <2>1. <<kind, i>> \in Records
      BY <1>3
    <2>2. <<kind, i>>[1] = kind /\ <<kind, i>>[2] = i
      OBVIOUS
    <2>3. QED BY <2>1, <2>2 DEF Of
  <1>4. DOMAIN inputs \subseteq Of("input", Records)
    BY <1>3 DEF Records
  <1>5. DOMAIN outputs \subseteq Of("output", Records)
    BY <1>3 DEF Records
  <1>6. DOMAIN fresh = Of("input", Records) /\ \A i \in DOMAIN fresh : fresh[i] = payload
    OBVIOUS
  <1>7. /\ DOMAIN fresh \subseteq DOMAIN T!Put(bins[dir], fresh)
        /\ \A i \in DOMAIN fresh : T!Put(bins[dir], fresh)[i] = fresh[i]
    <2> HIDE DEF fresh
    <2>1. QED BY PutProperties
  <1>8. QED BY <1>2, <1>4, <1>5, <1>6, <1>7

(* A successful flush or hazeWriteProgram under a hook leaves a whole project where the   *)
(* trace is, for any shapes, faults and number of captures (epoch.cpp:416-418).           *)
THEOREM WholeProject == ~PinAnytime => (Spec => ProjectIsWhole)
  <1> SUFFICES ASSUME ~PinAnytime PROVE Spec => ProjectIsWhole
    OBVIOUS
  <1>1. ASSUME IInv, [Next]_bridge, NEW c \in {"flush", "write"}, Succeeds(c), hook # NoHook
        PROVE  /\ context'[dir] /\ DOMAIN outputs \subseteq templates'[dir]
               /\ \A i \in DOMAIN inputs : i \in DOMAIN bins'[dir] /\ bins'[dir][i] # "old"
    <2>1. Written /\ UNCHANGED context
      BY <1>1, SuccessStep
    <2>2. dir \in Places /\ context[dir]
      BY <1>1 DEF IInv, Placed, Anchored
    <2>3. QED BY <1>1, <2>1, <2>2, WholeStep DEF IInv
  <1>2. IInv /\ [Next]_bridge =>
          ((\E c \in {"flush", "write"} : Succeeds(c)) /\ hook # NoHook =>
             /\ context'[dir] /\ DOMAIN outputs \subseteq templates'[dir]
             /\ \A i \in DOMAIN inputs : i \in DOMAIN bins'[dir] /\ bins'[dir][i] # "old")
    BY <1>1
  <1>3. QED BY <1>2, ProjectInvariant, PTL DEF Spec, ProjectIsWhole

-----------------------------------------------------------------------------
(* What a successful flush read. *)

LEMMA OutputsInvariant == Spec => [](outputs \in Seq(Shapes))
  <1> DEFINE Tagged == outputs \in Seq(Shapes)
  <1>1. Init => Tagged
    BY DEF Init
  <1>2. ASSUME Tagged, [Next]_bridge PROVE Tagged'
    <2>1. ASSUME NEW n, \/ hazeSetProgramInfo(n) \/ hazeSetProgramDirectory(n)
                        \/ hazeReplayBridgeInitCryptoContext(n)
          PROVE  UNCHANGED outputs
      BY <2>1 DEF hazeSetProgramInfo, hazeSetProgramDirectory,
                  hazeReplayBridgeInitCryptoContext, Installed, captured
    <2>2. CASE StartRecording \/ hazeReplayBridgeTakeHookHadError \/ hazeReplayBridgeReset
               \/ UNCHANGED bridge
      BY <1>2, <2>2 DEF StartRecording, hazeReplayBridgeTakeHookHadError, hazeReplayBridgeReset,
                        bridge, captured
    <2>3. ASSUME NEW s \in Shapes, Capture(s) PROVE Tagged'
      BY <1>2, <2>3 DEF Capture
    <2>4. CASE hazeFlush \/ hazeWriteProgram
      <3>1. ASSUME Cleared PROVE Tagged'
        BY <3>1 DEF Cleared
      <3>2. QED BY <2>4, <3>1 DEF hazeFlush, hazeWriteProgram, NothingTagged, StopFails, HookFails,
                                  ReplayFails, ReadBack, Ended
    <2>5. CASE hazeDeviceReset \/ Crash
      <3>1. outputs' = <<>>
        BY <2>5, Zenon DEF hazeDeviceReset, Crash, Forgotten
      <3>2. QED BY <3>1
    <2>6. QED BY <1>2, <2>1, <2>2, <2>3, <2>4, <2>5 DEF Next
  <1>3. QED BY <1>1, <1>2, PTL DEF Spec

(* A flush that succeeds has read every output. *)
LEMMA ReadAll ==
  ASSUME ReadBack, err' = "Ok"
  PROVE  /\ DOMAIN outputs \subseteq DOMAIN probes'[dir]
         /\ \A o \in DOMAIN outputs : results'[o] = probes'[dir][o]
  <1>1. PICK got \in SUBSET (DOMAIN outputs \cap DOMAIN probes'[dir]) :
          /\ results' = [o \in got |-> probes'[dir][o]]
          /\ \/ got = DOMAIN outputs
             \/ Ended("flush", "BackendOutputMissing") \/ Ended("flush", "BackendOutputDecodeFailed")
    BY DEF ReadBack
  <1>2. got = DOMAIN outputs
    BY <1>1 DEF Ended
  <1>3. QED BY <1>1, <1>2

(* A flush without a hook succeeds only on what a process that ended without a reset left *)
(* in the project, or a reset that failed to wipe it (replay_bridge.h:27-30,              *)
(* openfhe_template.cpp:564-591).                                                         *)
THEOREM UnbridgedFails == ~PinAnytime => (Spec => UnbridgedFlushFails)
  <1> SUFFICES ASSUME ~PinAnytime PROVE Spec => UnbridgedFlushFails
    OBVIOUS
  <1>1. ASSUME IInv, outputs \in Seq(Shapes), [Next]_bridge, Succeeds("flush"), hook = NoHook
        PROVE  dir \in unwiped
    <2> SUFFICES ASSUME dir \notin unwiped PROVE FALSE
      OBVIOUS
    <2>1. ReadBack /\ Written /\ dir \in Places /\ recording /\ outputs # <<>> /\ err' = "Ok"
      BY <1>1, SuccessStep DEF Succeeds, IInv, Placed
    <2>2. hazeFlush
      BY <2>1 DEF hazeFlush
    <2>3. templates[dir] = {} /\ DOMAIN probes[dir] = {}
      BY <1>1, <2>1 DEF IInv, Contained
    <2>4. DOMAIN probes'[dir] = {}
      BY <1>1, <2>1, <2>2, <2>3, FlushStep
    <2>5. DOMAIN outputs = {}
      BY <2>1, <2>4, ReadAll
    <2>6. QED BY <1>1, <2>1, <2>5
  <1>2. IInv /\ outputs \in Seq(Shapes) /\ [Next]_bridge =>
          (Succeeds("flush") /\ hook = NoHook => dir \in unwiped)
    BY <1>1
  <1>3. QED BY <1>2, ProjectInvariant, OutputsInvariant, PTL DEF Spec, UnbridgedFlushFails

(* What a successful flush reads under a context of the device's ring dimension was       *)
(* computed in this lifetime and from this lifetime's inputs, whatever an earlier         *)
(* lifetime or process left under the same names, and whatever the replay leaves out, if  *)
(* the last reset could wipe the project (openfhe_template.cpp:564-591).                  *)
THEOREM ResultsAreOwn == ~PinAnytime => (Spec => ResultsAreOfThisLifetime)
  <1> SUFFICES ASSUME ~PinAnytime PROVE Spec => ResultsAreOfThisLifetime
    OBVIOUS
  <1>1. ASSUME IInv, [Next]_bridge, Succeeds("flush"), hook = RingDim, dir \notin unwiped
        PROVE  \A o \in DOMAIN outputs : results'[o] \in {"now", "old"}
    <2>1. hook # NoHook
      BY <1>1, BridgeAssumption
    <2>2. ReadBack /\ Written /\ recording /\ err' = "Ok"
      BY <1>1, SuccessStep DEF Succeeds
    <2>3. dir \in Places
      BY <1>1, <2>1 DEF IInv, Placed
    <2>4. \A i \in DOMAIN inputs : bins'[dir][i] = "now"
      BY <1>1, <2>1, <2>2, <2>3, WholeStep DEF IInv
    <2>5. \A made \in Replayed : /\ DOMAIN made \subseteq templates'[dir]
                                /\ \A o \in DOMAIN made : made[o] = "now"
      BY <2>4 DEF Replayed
    <2>6. PICK made \in Replayed : probes' = [probes EXCEPT ![dir] = T!Put(@, made)]
      BY <2>2 DEF ReadBack
    <2>7. \A o \in DOMAIN probes'[dir] :
            probes'[dir][o] = IF o \in DOMAIN made THEN made[o] ELSE probes[dir][o]
      BY <1>1, <2>2, <2>3, <2>5, <2>6, PutStep
    <2>8. DOMAIN probes'[dir] = DOMAIN probes[dir] \cup DOMAIN made
      BY <1>1, <2>2, <2>3, <2>5, <2>6, PutStep
    <2>9. \A o \in DOMAIN probes[dir] : probes[dir][o] = "old"
      BY <1>1, <2>2, <2>3 DEF IInv, Contained, Settled
    <2>10. \A o \in DOMAIN probes'[dir] : probes'[dir][o] \in {"now", "old"}
      BY <2>5, <2>6, <2>7, <2>8, <2>9
    <2>11. QED BY <2>2, <2>10, ReadAll
  <1>2. IInv /\ [Next]_bridge =>
          (Succeeds("flush") /\ hook = RingDim /\ dir \notin unwiped =>
             \A o \in DOMAIN outputs : results'[o] \in {"now", "old"})
    BY <1>1
  <1>3. QED BY <1>2, ProjectInvariant, PTL DEF Spec, ResultsAreOfThisLifetime
=============================================================================
