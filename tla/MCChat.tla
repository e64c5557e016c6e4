-------------------------------- MODULE MCChat --------------------------------
(* The safety properties of ChatDelivery in two scenarios.                 *)
EXTENDS MCChatDelivery

\* Polls overlap, a vault is in the inbox, saves fail and devices crash, with
\* room for everything.
Roomy == [pollers |-> Pollers, vaults |-> Vaults, fetchLimit |-> 2, relayCap |-> 3,
          maxHistory |-> 5, events |-> {"save", "crash"}, faults |-> 2]

\* Histories and the inbox are at their limits, lookups fail, requests get lost,
\* and the panel and mark-read meet a single poll.
Tight(p) == [pollers |-> {p}, vaults |-> {}, fetchLimit |-> 1, relayCap |-> 1,
             maxHistory |-> 2, events |-> {"lookup", "wire", "panel", "read"}, faults |-> 0]

MCScenarios == {Roomy} \cup {Tight(p) : p \in Pollers}
=============================================================================
