------------------------------ MODULE LinkedList ------------------------------
(***************************************************************************)
(* DoubleLinkedList of utils.hpp, as the LRU and static policies use it:   *)
(* an expert's node is removed from the middle, and put at the end.        *)
(***************************************************************************)
EXTENDS Integers, SequencesExt, FiniteSets

CONSTANTS ListNode, GuardHead, GuardTail, Null

ASSUME ListAssumption ==
  /\ IsFiniteSet(ListNode)
  /\ {GuardHead, GuardTail, Null} \cap ListNode = {}
  /\ Cardinality({GuardHead, GuardTail, Null}) = 3

VARIABLES prev, next, len

listVars == <<prev, next, len>>
Linkable == ListNode \cup {GuardHead, GuardTail}

InitList ==
  /\ next = [n \in Linkable |-> IF n = GuardHead THEN GuardTail ELSE Null]
  /\ prev = [n \in Linkable |-> IF n = GuardTail THEN GuardHead ELSE Null]
  /\ len = 0

InList(n) == next[n] # Null

InsertAfter(n, after) ==
  /\ next' = [next EXCEPT ![n] = next[after], ![after] = n]
  /\ prev' = [prev EXCEPT ![n] = after, ![next[after]] = n]
  /\ len' = len + 1

(* Mutation of PushBack: push_front. *)
PushFront(n) == ~InList(n) /\ InsertAfter(n, GuardHead)

PushBack(n) == ~InList(n) /\ InsertAfter(n, prev[GuardTail])

(* Mutation of Unlinked: the successor still points to the removed node. *)
UnlinkedOneWay(n) == [prev EXCEPT ![n] = Null]

Unlinked(n) == [prev EXCEPT ![next[n]] = prev[n], ![n] = Null]

RemoveNode(n) ==
  /\ InList(n)
  /\ next' = [next EXCEPT ![prev[n]] = next[n], ![n] = Null]
  /\ prev' = Unlinked(n)
  /\ len' = len - 1

NextList == \E n \in ListNode : PushBack(n) \/ RemoveNode(n)
-----------------------------------------------------------------------------
(* The nodes, the front first, as a walk along next meets them; and along prev. *)
Listed ==
  LET walk[k \in 0 .. len] == IF k = 0 THEN GuardHead ELSE next[walk[k - 1]]
  IN [k \in 1 .. len |-> walk[k]]
ListedBack ==
  LET walk[k \in 0 .. len] == IF k = 0 THEN GuardTail ELSE prev[walk[k - 1]]
  IN [k \in 1 .. len |-> walk[len + 1 - k]]

(* Both chains of pointers go through exactly the nodes in the list, whatever node was taken   *)
(* out before: front() is the node that has been there longest, which LRU evicts.              *)
ListLinked ==
  /\ Listed = ListedBack
  /\ {Listed[k] : k \in 1 .. len} = {n \in ListNode : InList(n)}
  /\ Cardinality({n \in ListNode : InList(n)}) = len

(* The list keeps the order of insertion of the nodes that stay (LL::remove, push_back).       *)
ListInOrder ==
  [][\/ \E n \in ListNode : Listed' = Append(Listed, n)
     \/ \E k \in 1 .. len : Listed' = RemoveAt(Listed, k)]_listVars
=============================================================================
