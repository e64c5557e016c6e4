-------------------------- MODULE RateLimiterProofs --------------------------
(***************************************************************************)
(* The window bound of RateLimiter for every rate, every granularity of    *)
(* the clock and windows of every length.                                  *)
(***************************************************************************)
EXTENDS RateLimiter, TLAPS

(* What has been admitted and what could be admitted at once never exceed  *)
(* a full bucket and what has been refilled: the units are conserved.      *)
Conserved == Minute * admitted + Level(bucket) <= Full + Max * span

IInv == TypeOK /\ Conserved
------------------------------------------------------------------------------
(* A full bucket is a natural number of units.                             *)
LEMMA FullIsNat == Full \in Nat
BY MaxIsNat, MinuteIsPositive DEF Full

(* min(max) of service.rs:75: the level lies between zero and full.        *)
LEMMA LevelRange == ASSUME NEW b \in Bucket PROVE Level(b) \in 0..Full
<1>1. Max * b.elapsed \in Nat /\ b.tokens \in 0..Full
  BY MaxIsNat, MinuteIsPositive DEF Bucket
<1> QED
  BY <1>1, FullIsNat DEF Level

(* A tick refills at most Max units (service.rs:74-75).                    *)
LEMMA AgedLevel ==
    ASSUME NEW b \in Bucket
    PROVE  Aged(b) \in Bucket /\ Level(Aged(b)) <= Level(b) + Max
<1> DEFINE e == IF b.elapsed < Minute THEN b.elapsed + 1 ELSE b.elapsed
<1>1. b.tokens \in 0..Full /\ b.elapsed \in 0..Minute
  BY DEF Bucket
<1>2. Aged(b) = [tokens |-> b.tokens, elapsed |-> e]
  BY DEF Aged, Bucket
<1>3. e \in 0..Minute
  BY <1>1, MinuteIsPositive
<1>4. Max * e <= Max * b.elapsed + Max /\ Max * e \in Nat /\ Max * b.elapsed \in Nat
  <2>1. CASE e = b.elapsed
    BY <1>1, <2>1, MaxIsNat, MinuteIsPositive
  <2>2. CASE e = b.elapsed + 1
    <3>1. Max * (b.elapsed + 1) = Max * b.elapsed + Max
      BY <1>1, MaxIsNat, MinuteIsPositive
    <3> QED
      BY <2>2, <3>1, <1>1, MaxIsNat, MinuteIsPositive
  <2> QED
    BY <2>1, <2>2
<1>5. Aged(b).tokens = b.tokens /\ Aged(b).elapsed = e
  BY <1>2
<1>6. Level(Aged(b)) <= Level(b) + Max
  BY <1>1, <1>4, <1>5, FullIsNat, MaxIsNat DEF Level
<1> QED
  BY <1>1, <1>2, <1>3, <1>6 DEF Bucket

(* A granted request costs exactly one token, a refused one nothing        *)
(* (service.rs:78-86).                                                     *)
LEMMA CheckedLevel ==
    ASSUME NEW b \in Bucket
    PROVE  /\ Checked(b) \in Bucket
           /\ Level(Checked(b)) = IF MayTake(b) THEN Level(b) - Minute ELSE Level(b)
<1> DEFINE t == IF MayTake(b) THEN Level(b) - Minute ELSE Level(b)
<1>1. t \in 0..Full
  BY LevelRange, FullIsNat, MinuteIsPositive DEF MayTake
<1>2. Checked(b) = [tokens |-> t, elapsed |-> 0]
  BY DEF Checked
<1>3. Checked(b).tokens = t /\ Checked(b).elapsed = 0
  BY <1>2
<1>4. Max * 0 = 0
  BY MaxIsNat
<1>5. Level(Checked(b)) = t
  BY <1>1, <1>3, <1>4, FullIsNat DEF Level
<1> QED
  BY <1>1, <1>2, <1>5, MinuteIsPositive DEF Bucket
------------------------------------------------------------------------------
(* A new client's bucket is full and nothing has been admitted yet.        *)
LEMMA InitConserved == Init => IInv
<1> SUFFICES ASSUME Init PROVE IInv
  OBVIOUS
<1>1. bucket \in Bucket
  BY FullIsNat, MinuteIsPositive DEF Init, FreshBucket, Bucket
<1>2. Level(bucket) \in 0..Full
  BY <1>1, LevelRange
<1>3. Minute * admitted = 0 /\ Max * span = 0
  BY MaxIsNat, MinuteIsPositive DEF Init
<1> QED
  BY <1>1, <1>2, <1>3, FullIsNat, HorizonIsNat DEF Init, IInv, TypeOK, Conserved

(* Checks, ticks and the opening of a window conserve the units.           *)
LEMMA StepConserved == IInv /\ [Next]_vars => IInv'
<1> SUFFICES ASSUME IInv, [Next]_vars PROVE IInv'
  OBVIOUS
<1> USE MaxIsNat, MinuteIsPositive, HorizonIsNat, FullIsNat
<1>0. /\ bucket \in Bucket /\ span \in 0..Horizon /\ admitted \in Nat
      /\ Level(bucket) \in 0..Full
      /\ Minute * admitted \in Nat /\ Max * span \in Nat
      /\ Minute * admitted + Level(bucket) <= Full + Max * span
  BY LevelRange DEF IInv, TypeOK, Conserved
<1>1. ASSUME Check PROVE IInv'
  <2>1. bucket' \in Bucket /\ Level(bucket)' = IF MayTake(bucket) THEN Level(bucket) - Minute
                                                                  ELSE Level(bucket)
    BY <1>0, <1>1, CheckedLevel DEF Check, Level
  <2>2. CASE MayTake(bucket)
    <3>1. admitted' = admitted + 1 /\ span' = span
      BY <1>1, <2>2 DEF Check
    <3>2. Minute * (admitted + 1) = Minute * admitted + Minute
      BY <1>0
    <3>3. Minute * admitted' + Level(bucket)' <= Full + Max * span'
      BY <1>0, <2>1, <2>2, <3>1, <3>2
    <3> QED
      BY <1>0, <1>1, <2>1, <3>1, <3>3 DEF Check, IInv, TypeOK, Conserved
  <2>3. CASE ~MayTake(bucket)
    <3>1. admitted' = admitted /\ span' = span
      BY <1>1, <2>3 DEF Check
    <3>2. Minute * admitted' + Level(bucket)' <= Full + Max * span'
      BY <1>0, <2>1, <2>3, <3>1
    <3> QED
      BY <1>0, <1>1, <2>1, <3>1, <3>2 DEF Check, IInv, TypeOK, Conserved
  <2> QED
    BY <2>2, <2>3
<1>2. ASSUME Tick PROVE IInv'
  <2>1. /\ bucket' \in Bucket /\ Level(bucket)' <= Level(bucket) + Max
        /\ Level(bucket)' \in 0..Full
    BY <1>0, <1>2, AgedLevel, LevelRange DEF Tick, Level
  <2>2. CASE span < Horizon
    <3>1. span' = span + 1 /\ admitted' = admitted /\ verdict' = verdict
      BY <1>2, <2>2 DEF Tick
    <3>2. Max * (span + 1) = Max * span + Max
      BY <1>0
    <3>3. Minute * admitted' + Level(bucket)' <= Full + Max * span'
      BY <1>0, <2>1, <3>1, <3>2
    <3> QED
      BY <1>0, <2>1, <2>2, <3>1, <3>3 DEF IInv, TypeOK, Conserved
  <2>3. CASE ~(span < Horizon)
    <3>1. span' = 0 /\ admitted' = 0 /\ verdict' = verdict
      BY <1>2, <2>3 DEF Tick
    <3>2. Minute * 0 = 0 /\ Max * 0 = 0
      OBVIOUS
    <3> QED
      BY <2>1, <3>1, <3>2 DEF IInv, TypeOK, Conserved
  <2> QED
    BY <2>2, <2>3
<1>3. ASSUME OpenWindow PROVE IInv'
  <2>1. span' = 0 /\ admitted' = 0 /\ bucket' = bucket /\ verdict' = verdict
    BY <1>3 DEF OpenWindow
  <2>2. Minute * 0 = 0 /\ Max * 0 = 0 /\ Level(bucket)' = Level(bucket)
    BY <2>1 DEF Level
  <2> QED
    BY <1>0, <2>1, <2>2 DEF IInv, TypeOK, Conserved
<1>4. ASSUME UNCHANGED vars PROVE IInv'
  BY <1>4 DEF vars, IInv, TypeOK, Conserved, Level
<1> QED
  BY <1>1, <1>2, <1>3, <1>4 DEF Next

(* The units are conserved throughout.                                     *)
THEOREM UnitsConserved == Spec => []IInv
BY InitConserved, StepConserved, PTL DEF Spec

(* Buckets stay buckets: the tokens of a client never exceed a full bucket *)
(* (service.rs:74-86).                                                     *)
THEOREM TypeCorrect == Spec => []TypeOK
<1>1. IInv => TypeOK
  BY DEF IInv
<1> QED
  BY <1>1, UnitsConserved, PTL

(* However long the window and wherever it starts, it admits no more than  *)
(* a full bucket and its refill.                                           *)
THEOREM WindowsAreBounded == Spec => [](TypeOK /\ WindowBound)
<1>1. IInv => TypeOK /\ WindowBound
  <2> SUFFICES ASSUME IInv PROVE WindowBound
    BY DEF IInv
  <2>1. /\ Level(bucket) \in 0..Full /\ Minute * admitted \in Nat /\ Max * span \in Nat
        /\ Minute * admitted + Level(bucket) <= Full + Max * span
    BY LevelRange, MaxIsNat, MinuteIsPositive, HorizonIsNat DEF IInv, TypeOK, Conserved
  <2> QED
    BY <2>1, FullIsNat DEF WindowBound
<1> QED
  BY <1>1, UnitsConserved, PTL
==============================================================================
