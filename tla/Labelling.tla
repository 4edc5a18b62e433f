------------------------------- MODULE Labelling -------------------------------
(***************************************************************************)
(* The labels of Friends-of-Friends made elsewhere than in phase 1 on the  *)
(* CPUs of a process: across processes, at the end of phase 3 and with the *)
(* census that reads them, and on the GPU of a process.                    *)
(*                                                                         *)
(* The two share no state but the labels, which the one hands to the other *)
(* at quiescence; a behaviour is one of them in all its iterations, with   *)
(* the other at rest.                                                      *)
(***************************************************************************)
EXTENDS Census, DeviceChain

VARIABLE where       \* "across" processes or on the "device"

labellingVars == <<where, allVars, chainVars>>

\* What is at rest is in one state.
AcrossRests ==
  /\ mode = CHOOSE m \in Modes : TRUE
  /\ edges = CHOOSE E \in Graphs : TRUE
  /\ toFind = CHOOSE f \in Findings[edges] : TRUE
DeviceRests == run = CHOOSE r \in Runs : TRUE

LabellingInit ==
  /\ \/ where = "across" /\ DeviceRests
     \/ where = "device" /\ AcrossRests
  /\ CensusInit
  /\ ChainInit

AcrossStep == where = "across" /\ CensusNext /\ UNCHANGED <<where, chainVars>>
DeviceStep == where = "device" /\ ChainNext /\ UNCHANGED <<where, allVars>>

LabellingNext == AcrossStep \/ DeviceStep

\* There is a message to deliver, a driver that may resume or a kernel that runs.
LabellingSpec ==
  LabellingInit /\ [][LabellingNext]_labellingVars /\ WF_labellingVars(LabellingNext)

-----------------------------------------------------------------------------
\* Whatever has raced, every union of the device joins what is connected, and when
\* a walk ends all that is connected is joined; and at the end of an iteration every
\* particle has the least order of its component.
DeviceExact == where = "device" => ForestSound /\ LabelsDelivered

\* The last iteration's merge gives all PEs their final labels and its census comes
\* to an end (the iterations before did: the next begins with final labels); and the
\* device comes to the end of its iterations.
LabellingEnds == <>[](IF where = "across" THEN MergedAndCounted(Iterations) ELSE EndsWell)
=============================================================================
