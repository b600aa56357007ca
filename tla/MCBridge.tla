------------------------------ MODULE MCBridge ------------------------------
(* A polynomial with a modulus and a group with an unbound one, which the hook cannot   *)
(* synthesise; the device's ring dimension and another.                                 *)
EXTENDS Bridge

Bound == <<"q0">>
Mixed == <<"q0", "copy">>
PlainOrMixed == {Bound, Mixed}

(* How the last flush ended and what it read are read by no action. *)
WithoutLast == <<config, initialized, recording, dir, hook, hook_had_error, captured, files,
                 hookFailed, unwiped>>
=============================================================================
