------------------------------- MODULE PinLog -------------------------------
(***************************************************************************)
(* What those who compare manifests are promised of a binding, with        *)
(* nothing said of worklists: it takes one step, in which the payload that *)
(* the code and the call determine is pinned.  A release or another call   *)
(* is the only thing that changes that payload, and pins nothing.          *)
(***************************************************************************)
VARIABLES
  code,     (* the library as it is *)
  call,     (* the factory call that is bound *)
  payload,  (* what a binding of that call, in that library, pins *)
  pinned    (* every payload pinned so far *)

logVars == <<code, call, payload, pinned>>

LogInit == pinned = {}

Bind ==
  /\ pinned' = pinned \cup {payload}
  /\ UNCHANGED <<code, call, payload>>

Release ==
  /\ <<code, call>>' # <<code, call>>
  /\ UNCHANGED pinned

LogNext == Bind \/ Release

LogSpec == LogInit /\ [][LogNext]_logVars
=============================================================================
