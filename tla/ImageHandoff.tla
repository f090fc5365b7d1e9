---------------------------- MODULE ImageHandoff ----------------------------
(***************************************************************************)
(* What moving a stopped VM over the network promises, whatever the        *)
(* network and the two VMM processes do: the destination takes a whole VM  *)
(* or none, one at a time, and no VM is taken twice.                       *)
(***************************************************************************)
CONSTANTS Vm, NoVm

VARIABLES offered,     \* VMs that a destination may still take
          destination  \* the VM the destination has, if any

vars == <<offered, destination>>

Init == offered = Vm /\ destination = NoVm

Take(v) ==
  /\ v \in offered
  /\ destination = NoVm
  /\ offered' = offered \ {v}
  /\ destination' = v

(* Offers may lapse; a source can be killed, or turned away.               *)
Lapse ==
  /\ \E lost \in SUBSET offered : offered' = offered \ lost
  /\ UNCHANGED destination

(* The destination's VMM ends, with all it was offered.                    *)
Leave ==
  /\ \E lost \in SUBSET offered : offered' = offered \ lost
  /\ destination' = NoVm

Next == (\E v \in Vm : Take(v)) \/ Lapse \/ Leave

Spec == Init /\ [][Next]_vars
=============================================================================
