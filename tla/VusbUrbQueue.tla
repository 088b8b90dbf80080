---------------------------- MODULE VusbUrbQueue ----------------------------
(***************************************************************************)
(* What every list of pending URBs in this system promises, whatever locks *)
(* and steps it is made of: a URB is submitted once; while it is pending   *)
(* it may be handed out (and given back), or it ends, alone or together    *)
(* with others when a device or the list goes away; a URB that has ended   *)
(* never comes back; and the number reported as pending is the number of   *)
(* URBs that are.                                                          *)
(*                                                                         *)
(* The driver's PendingUrbList (VusbDriver) and the lists of the userspace *)
(* server (VusbUserspace) implement it.                                    *)
(***************************************************************************)
EXTENDS Naturals, FiniteSets

CONSTANT Urb   \* the URBs

VARIABLES pending,  \* URBs on the list
          out,      \* URBs handed out
          ended,    \* URBs completed, cancelled or discarded
          count     \* the number of pending URBs the implementation reports

vars == <<pending, out, ended, count>>

Init ==
    /\ pending = {}
    /\ out = {}
    /\ ended = {}
    /\ count = 0

Submit(u) ==
    /\ u \notin pending \cup out \cup ended
    /\ pending' = pending \cup {u}
    /\ count' = count + 1
    /\ UNCHANGED <<out, ended>>

HandOut(u) ==
    /\ u \in pending
    /\ pending' = pending \ {u}
    /\ out' = out \cup {u}
    /\ count' = count - 1
    /\ UNCHANGED ended

GiveBack(u) ==
    /\ u \in out
    /\ out' = out \ {u}
    /\ pending' = pending \cup {u}
    /\ count' = count + 1
    /\ UNCHANGED ended

End(S) ==
    /\ pending' = pending \ S
    /\ ended' = ended \cup S
    /\ count' = count - Cardinality(S)
    /\ UNCHANGED out

\* A URB ends, and whoever is told so submits the next one.
EndAndSubmit(u, v) ==
    /\ u \in pending
    /\ v \notin pending \cup out \cup ended
    /\ pending' = (pending \ {u}) \cup {v}
    /\ ended' = ended \cup {u}
    /\ UNCHANGED <<out, count>>

Next ==
    \/ \E u \in Urb : Submit(u) \/ HandOut(u) \/ GiveBack(u)
    \/ \E u, v \in Urb : EndAndSubmit(u, v)
    \/ \E S \in SUBSET pending : End(S)

Spec == Init /\ [][Next]_vars

=============================================================================
