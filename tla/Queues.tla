-------------------------------- MODULE Queues --------------------------------
(* What the code does to a queue of messages, besides appending to it.     *)
EXTENDS Naturals, Sequences

(* VecDeque::retain: the members of K, in the order they have in s.        *)
Retain(s, K) ==
  LET kept[i \in 0..Len(s)] == IF i = 0 THEN <<>>
                               ELSE IF s[i] \in K THEN Append(kept[i - 1], s[i])
                                                  ELSE kept[i - 1]
  IN  kept[Len(s)]

===============================================================================
