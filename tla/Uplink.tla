--------------------------------- MODULE Uplink ---------------------------------
(***************************************************************************)
(* What the upload path promises of the events handed to it: a queue that  *)
(* may lose any event at any time, but never takes one twice, never lets   *)
(* one overtake another, and never brings up one whose upload was reported *)
(* as failed.                                                              *)
(***************************************************************************)
EXTENDS Naturals, Sequences

CONSTANT Events

VARIABLES entered,   \* events the queue has taken
          refused,   \* events whose upload was reported as failed
          underway,  \* events taken, neither lost nor arrived, in order
          cloud      \* events that arrived, in order

uplinkVars == <<entered, refused, underway, cloud>>

UplinkInit == entered = {} /\ refused = {} /\ underway = <<>> /\ cloud = <<>>

Accept(e) ==
    /\ e \notin entered \cup refused
    /\ entered' = entered \cup {e}
    /\ underway' = Append(underway, e)
    /\ UNCHANGED <<refused, cloud>>

Refuse(e) ==
    /\ e \notin entered \cup refused
    /\ refused' = refused \cup {e}
    /\ UNCHANGED <<entered, underway, cloud>>

Arrive ==
    /\ underway # <<>>
    /\ cloud' = Append(cloud, Head(underway))
    /\ underway' = Tail(underway)
    /\ UNCHANGED <<entered, refused>>

\* s is what remains of t when some of it is lost: f says where each of them was.
Thinned(s, t) ==
    \E f \in [1 .. Len(s) -> 1 .. Len(t)] :
        /\ \A i, j \in 1 .. Len(s) : i < j => f[i] < f[j]
        /\ \A i \in 1 .. Len(s) : s[i] = t[f[i]]

\* Any events are lost; the others keep their order.
Lose == Thinned(underway', underway) /\ UNCHANGED <<entered, refused, cloud>>

UplinkNext == (\E e \in Events : Accept(e) \/ Refuse(e)) \/ Arrive \/ Lose

UplinkSpec == UplinkInit /\ [][UplinkNext]_uplinkVars
=================================================================================
