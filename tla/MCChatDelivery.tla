--------------------------- MODULE MCChatDelivery ----------------------------
(* Small instances of ChatDelivery: everything goes from alice to bob.     *)
EXTENDS ChatDelivery, TLC

CONSTANTS alice, bob

MCPeers == {alice, bob}
MCFrom == [x \in Chats \cup Vaults |-> alice]
MCTo == [x \in Chats \cup Vaults |-> bob]
MCHost == [p \in Pollers |-> bob]

\* With room for what is sent, and no faults: the inbox panel is opened.
Panel == [pollers |-> Pollers, vaults |-> Vaults, fetchLimit |-> 2, relayCap |-> 2,
          maxHistory |-> 5, events |-> {"panel"}, faults |-> 0]
MCPanel == {Panel}

\* A history of three and an inbox of two: either requests, answers and acks
\* get lost, or lookups fail and one save fails or one device crashes.
Lossy == [Panel EXCEPT !.maxHistory = 3, !.events = {"wire", "silence"}]
Failing == [Panel EXCEPT !.maxHistory = 3, !.vaults = {}, !.faults = 1,
              !.events = {"lookup", "save", "crash"}]
MCLossy == {Lossy, Failing}

Symmetry == Permutations(Pollers) \cup Permutations(Chats)
==============================================================================
