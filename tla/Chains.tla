------------------------------- MODULE Chains -------------------------------
(***************************************************************************)
(* Linked lists in a heap of nodes. A node's address is its number in the  *)
(* order of allocation; addresses are never given out twice, so that every *)
(* use of freed memory shows. A link, such as next, is a sequence of       *)
(* addresses, one for each node.                                           *)
(***************************************************************************)
EXTENDS Integers, Sequences, SequencesExt

NULL == 0

(* The addresses met from address a on; a cycle is cut off.                *)
Along(link, a) ==
  LET met[k \in 0..Len(link)] ==
        IF k = 0 THEN <<>>
        ELSE LET before == met[k - 1]
                 b == IF before = <<>> THEN a ELSE link[Last(before)]
             IN  IF b = NULL THEN before ELSE Append(before, b)
  IN  met[Len(link)]

(* What remains of a sequence when only the elements of S are kept.        *)
Among(s, S) ==
  LET upto[k \in 0..Len(s)] ==
        IF k = 0 THEN <<>>
        ELSE IF s[k] \in S THEN Append(upto[k - 1], s[k]) ELSE upto[k - 1]
  IN  upto[Len(s)]

HeadOrNull(s) == IF s = <<>> THEN NULL ELSE Head(s)
LastOrNull(s) == IF s = <<>> THEN NULL ELSE Last(s)

(* link after the nodes that are not in kept were taken out of the list.   *)
Relinked(link, kept) ==
  [a \in DOMAIN link |->
     IF a \notin ToSet(kept) THEN link[a]
     ELSE LET i == CHOOSE j \in DOMAIN kept : kept[j] = a
          IN  IF i = Len(kept) THEN NULL ELSE kept[i + 1]]

(* What a search from the head of chain compares until it finds x.         *)
Searched(chain, label, x) ==
  {chain[i] : i \in {j \in DOMAIN chain : \A k \in 1..(j - 1) : label[chain[k]] # x}}
FoundIn(chain, label, x) ==
  HeadOrNull(Among(chain, {a \in ToSet(chain) : label[a] = x}))
=============================================================================
