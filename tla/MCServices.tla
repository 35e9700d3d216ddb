------------------------------ MODULE MCServices ------------------------------
(* The memory accounting and the device models for TLC: two components that *)
(* share no variable.  A behaviour is one of one of them, chosen at the      *)
(* start.  Threads and addresses are interchangeable; there are two          *)
(* namespaces, a model with a child model and a model without properties.    *)
EXTENDS Gballoc, CodeFirst, TLC

CONSTANTS Home, Office, Lamp, Hub, Plug, temp, door, bulb

MCDeclares == Home :> {Lamp, Hub} @@ Office :> {Plug}
MCTop == Lamp :> <<temp, door>> @@ Hub :> <<>> @@ Plug :> <<temp>>
MCInner == Lamp :> {bulb} @@ Hub :> {} @@ Plug :> {}

Symmetry == UNION {Permutations(S) : S \in {Thread, Entry, Block, Device, Schema}}

VARIABLE service

ServicesInit == GballocInit /\ Init /\ service \in {"memory", "devices"}

Memory == service = "memory" /\ UNCHANGED <<service, vars>>
Devices == service = "devices" /\ UNCHANGED <<service, gballocVars>>

ServicesNext ==
  \/ \E t \in Thread :
       \/ Memory /\ Malloc(t)
       \/ Memory /\ Calloc(t)
       \/ Memory /\ Realloc(t)
       \/ Memory /\ Free(t)
       \/ Memory /\ FreeLocked(t)
       \/ Memory /\ FreeNoLock(t)
       \/ Memory /\ FreeOutside(t)
  \/ Memory /\ ResetMetrics
  \/ Memory /\ InitModule
  \/ Memory /\ DeinitModule
  \/ \E ns \in {Override, None} : Devices /\ SerializerInit(ns)
  \/ Devices /\ Deinit
  \/ \E ns \in Namespace, h \in Schema : Devices /\ GetModelHandle(ns, h)
  \/ \E ns \in Namespace, h \in Schema : \E m \in Declares[ns] :
       \/ Devices /\ CreateDeviceFails(ns, m, h)
       \/ \E d \in Device : Devices /\ CreateDevice(ns, m, h, d)
  \/ \E d \in Device : Devices /\ DestroyDevice(d)
  \/ Devices /\ DestroyUnknown
  \/ Devices /\ StartSend
  \/ \E d \in Device, p \in Paths \cup {"all"} : Devices /\ SendValue(d, p)
  \/ Devices /\ EndSend

ServicesSpec == ServicesInit /\ [][ServicesNext]_<<gballocVars, vars, service>>
===============================================================================
