------------------------------ MODULE TronNodes ------------------------------
(***************************************************************************)
(* Administrators choose the full node of the TRON worker from a list they *)
(* were shown.  Its numbers are positions, and the active node is always   *)
(* the first, so a change renumbers the list; addresses mean the same for  *)
(* ever.  A restart forgets the choice.                                    *)
(***************************************************************************)
EXTENDS Naturals, FiniteSets, Sequences

CONSTANTS
  Nodes,       \* full nodes, as numbers in the configured order
  Admins,
  Switches     \* bound: changes and restarts of an instance

ASSUME NodesAssumption == Nodes = 1..Cardinality(Nodes) /\ Switches \in Nat

VARIABLES
  active,      \* nodeURL: the node in use
  switched,    \* changes of it so far
  shown,       \* per administrator: the list, and the changes there had been
  misled       \* history: changes that led elsewhere than shown, with those between

nodeVars == <<active, switched, shown, misled>>

NodesInit ==
  /\ active = 1 /\ switched = 0 /\ misled = {}
  /\ shown = [u \in Admins |-> [list |-> <<>>, age |-> 0]]

OtherNodes(n) == {m \in Nodes : m # n}
NthOf(S, i) == CHOOSE n \in S : Cardinality({m \in S : m < n}) = i - 1

ConfiguredNodes == [i \in Nodes |-> NthOf(Nodes, i)]

(* fullnodeURLs.                                                           *)
NodesNow == [i \in Nodes |-> IF i = 1 THEN active ELSE NthOf(OtherNodes(active), i - 1)]

ConfiguredNode(i) == ConfiguredNodes[i]
NodeOfId(i) == NodesNow[i]

(* tronMultiserverStatus.                                                  *)
Status(u) ==
  /\ shown' = [shown EXCEPT ![u] = [list |-> NodesNow, age |-> switched]]
  /\ UNCHANGED <<active, switched, misled>>

(* tronMultiserverChange: the id is a position in the list as it is now,   *)
(* or the address of a node.                                               *)
Change(u, i) ==
  /\ shown[u].list # <<>> /\ switched < Switches
  /\ \/ active' = NodeOfId(i)
     \/ active' = shown[u].list[i]
  /\ switched' = switched + 1
  /\ misled' = misled \cup {switched - shown[u].age : k \in {active'} \ {shown[u].list[i]}}
  /\ UNCHANGED shown

RestartWorker ==
  /\ switched < Switches /\ active' = 1 /\ switched' = switched + 1
  /\ UNCHANGED <<shown, misled>>

NodesNext ==
  \/ \E u \in Admins : Status(u) \/ \E i \in Nodes : Change(u, i)
  \/ RestartWorker

NodesSpec == NodesInit /\ [][NodesNext]_nodeVars

----------------------------------------------------------------------------
(* An administrator who picks from the list gets the node it showed there, *)
(* unless the active node was changed since: then a number may lead to     *)
(* another node.  (fullnodeURLs, tronMultiserverChange)                    *)
ChangeIsAsShown == 0 \notin misled
=============================================================================
