----------------------------- MODULE RateLimiter -----------------------------
(***************************************************************************)
(* One client's bucket over time: requests arrive whenever they like, any  *)
(* number between two ticks, and a window for counting what was admitted   *)
(* is opened at any moment.                                                *)
(***************************************************************************)
EXTENDS TokenBucket

CONSTANT Horizon    \* length in ticks of the longest window looked at

ASSUME HorizonIsNat == Horizon \in Nat

VARIABLES bucket,
          verdict,    \* of the latest check
          span,       \* history: ticks since the window was opened
          admitted    \* history: requests admitted since then

vars == <<bucket, verdict, span, admitted>>

Init ==
    /\ bucket = FreshBucket
    /\ verdict = "none"
    /\ span = 0
    /\ admitted = 0

WholeTokens(b) ==
    [tokens |-> (Level(b) \div Minute) * Minute, elapsed |-> 0]
CheckWholeTokens ==
    /\ bucket' = IF MayTake(bucket) THEN Checked(bucket) ELSE WholeTokens(bucket)
    /\ verdict' = IF MayTake(bucket) THEN "ok" ELSE "limited"
    /\ admitted' = IF MayTake(bucket) THEN admitted + 1 ELSE admitted
    /\ UNCHANGED span

CheckForgetsLast ==
    /\ bucket' = [Checked(bucket) EXCEPT !.elapsed = bucket.elapsed]
    /\ verdict' = IF MayTake(bucket) THEN "ok" ELSE "limited"
    /\ admitted' = IF MayTake(bucket) THEN admitted + 1 ELSE admitted
    /\ UNCHANGED span

Check ==
    /\ bucket' = Checked(bucket)
    /\ verdict' = IF MayTake(bucket) THEN "ok" ELSE "limited"
    /\ admitted' = IF MayTake(bucket) THEN admitted + 1 ELSE admitted
    /\ UNCHANGED span

(* A window that reaches the horizon closes and the next one opens.        *)
Tick ==
    /\ bucket' = Aged(bucket)
    /\ IF span < Horizon THEN span' = span + 1 /\ UNCHANGED admitted
                         ELSE span' = 0 /\ admitted' = 0
    /\ UNCHANGED verdict

OpenWindow ==
    /\ span' = 0
    /\ admitted' = 0
    /\ UNCHANGED <<bucket, verdict>>

Next == Check \/ Tick \/ OpenWindow

Spec == Init /\ [][Next]_vars

(* Time goes on, and the client polls for ever (every eight seconds:       *)
(* ui/chat-ui.js:615-635).                                                 *)
FairSpec == Spec /\ WF_vars(Tick) /\ WF_vars(Check)
------------------------------------------------------------------------------
(* A bucket never holds more than a minute's allowance.                    *)
TypeOK ==
    /\ bucket \in Bucket
    /\ verdict \in {"none", "ok", "limited"}
    /\ span \in 0..Horizon
    /\ admitted \in Nat

(* Wherever a window is opened, it admits at most one full bucket and what *)
(* its ticks have refilled (service.rs:62-87).                             *)
WindowBound == Minute * admitted <= Full + Max * span

(* A client that has been refused and keeps asking is admitted in the end: *)
(* asking often does not keep the bucket from filling.                     *)
RefusedIsServed == Max > 0 => (verdict = "limited" ~> verdict = "ok")
==============================================================================
