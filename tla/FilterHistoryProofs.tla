------------------------- MODULE FilterHistoryProofs ------------------------
(***************************************************************************)
(* FilterHistory's invariants for every window length, every bound on the  *)
(* samples and every gap between updates.  The inductive invariant is the  *)
(* conjunction of all of them with HistoryPast: Fresh needs the times      *)
(* ordered, Dominates needs the samples ranked (a promoted estimate has to *)
(* stay above what the expired one was compared with).                     *)
(***************************************************************************)
EXTENDS FilterHistory, TLAPS

(* One Update of the filter *)

SampleType == [sample : Nat, time : Nat]

\* Oldest estimate first, none later than t.
OrderedBy(est, t) ==
  /\ est[0].time <= est[1].time
  /\ est[1].time <= est[2].time
  /\ est[2].time <= t

\* Best estimate first.
Ranked(est) ==
  /\ est[0].sample >= est[1].sample
  /\ est[1].sample >= est[2].sample

(***************************************************************************)
(* Update keeps three well-typed estimates.                                *)
(***************************************************************************)
LEMMA UpdateType ==
  ASSUME NEW est \in Estimates, NEW new \in SampleType
  PROVE  Update(est, new) \in Estimates
<1> USE WindowLengthAssumption DEF Estimates, SampleType
<1>1. Insert(est, new) \in Estimates
  BY DEF Insert
<1>2. Reset(new) \in Estimates
  BY DEF Reset
<1>3. Expire(Insert(est, new), new) \in Estimates
  BY <1>1 DEF Expire
<1>4. Refresh(Insert(est, new), new) \in Estimates
  BY <1>1 DEF Refresh
<1>5. QED
  BY <1>2, <1>3, <1>4 DEF Update

(***************************************************************************)
(* The entries of the result are the new sample or old estimates.          *)
(***************************************************************************)
LEMMA UpdateRange ==
  ASSUME NEW est \in Estimates, NEW new \in SampleType, NEW i \in 0..2
  PROVE  Update(est, new)[i] \in {new, est[0], est[1], est[2]}
<1> USE DEF Estimates, SampleType
<1>1. \A j \in 0..2 : Insert(est, new)[j] \in {new, est[0], est[1], est[2]}
  BY DEF Insert
<1>2. Insert(est, new) \in Estimates
  BY DEF Insert
<1>3. Expire(Insert(est, new), new)[i] \in {new, est[0], est[1], est[2]}
  BY <1>1, <1>2 DEF Expire
<1>4. Refresh(Insert(est, new), new)[i] \in {new, est[0], est[1], est[2]}
  BY <1>1, <1>2 DEF Refresh
<1>5. QED
  BY <1>3, <1>4 DEF Update, Reset

(***************************************************************************)
(* windowed_filter.h:11: Update keeps the estimates ordered in time.       *)
(***************************************************************************)
LEMMA UpdateOrdered ==
  ASSUME NEW est \in Estimates, NEW new \in SampleType, OrderedBy(est, new.time)
  PROVE  OrderedBy(Update(est, new), new.time)
<1> USE WindowLengthAssumption DEF Estimates, SampleType, OrderedBy
<1>1. OrderedBy(Insert(est, new), new.time) /\ Insert(est, new) \in Estimates
  BY DEF Insert
<1>2. OrderedBy(Reset(new), new.time)
  BY DEF Reset
<1>3. OrderedBy(Expire(Insert(est, new), new), new.time)
  BY <1>1 DEF Expire
<1>4. OrderedBy(Refresh(Insert(est, new), new), new.time)
  BY <1>1 DEF Refresh
<1>5. QED
  BY <1>2, <1>3, <1>4 DEF Update

(***************************************************************************)
(* Update keeps the estimates ranked by value.                             *)
(***************************************************************************)
LEMMA UpdateRanked ==
  ASSUME NEW est \in Estimates, NEW new \in SampleType, Ranked(est)
  PROVE  Ranked(Update(est, new))
<1> USE WindowLengthAssumption DEF Estimates, SampleType, Ranked, AtLeastAsGood
<1> DEFINE ins == Insert(est, new)
<1>1. Ranked(Reset(new))
  BY DEF Reset
<1>2. ~AtLeastAsGood(new, est[0]) => Ranked(Expire(ins, new))
  BY DEF Expire, Insert
<1>3. ~AtLeastAsGood(new, est[0]) => Ranked(Refresh(ins, new))
  BY DEF Refresh, Insert
<1>4. QED
  BY <1>1, <1>2, <1>3 DEF Update, MustReset

(* The history *)

\* No recorded sample is ahead of the latest update, and the filter of a fresh
\* machine holds its zero value.
HistoryPast ==
  /\ \A h \in hist : h.time <= round
  /\ hist = {} => estimates[0].sample = ZeroValue

IInv == TypeOK /\ Ordered /\ Dominates /\ Fresh /\ HistoryPast

Dominated(est, H) ==
  \A i \in 0..2 : \A h \in H : h.time >= est[i].time => h.sample <= est[i].sample

(***************************************************************************)
(* Each estimate of Update's result is at least as good as every sample    *)
(* recorded at its time or later, the new one included.                    *)
(***************************************************************************)
LEMMA UpdateDominates ==
  ASSUME NEW est \in Estimates, NEW H \in SUBSET SampleType, NEW new \in SampleType,
         Ranked(est), OrderedBy(est, new.time), Dominated(est, H),
         \A h \in H : h.time < new.time
  PROVE  Dominated(Update(est, new), H \cup {new})
<1> USE WindowLengthAssumption DEF Estimates, SampleType
<1> DEFINE ins == Insert(est, new)
           G   == H \cup {new}
<1>1. Dominated(Reset(new), G)
  BY DEF Reset, Dominated
<1>2. ASSUME ~MustReset(est, new)
      PROVE  ins \in Estimates /\ Dominated(ins, G)
  <2>1. ins \in Estimates
    BY DEF Insert
  <2>2. ASSUME NEW i \in 0..2, NEW h \in G, h.time >= ins[i].time
        PROVE  h.sample <= ins[i].sample
    <3>1. new.sample < est[0].sample
      BY <1>2 DEF MustReset, AtLeastAsGood
    <3>2. CASE h = new
      BY <3>1, <3>2 DEF Insert, AtLeastAsGood, Ranked
    <3>3. CASE h \in H
      BY <2>2, <3>3 DEF Insert, Dominated
    <3>4. QED
      BY <3>2, <3>3
  <2>3. QED
    BY <2>1, <2>2 DEF Dominated
<1>3. ASSUME ~MustReset(est, new)
      PROVE  Dominated(Expire(ins, new), G)
  <2> HIDE DEF ins
  <2>1. ins \in Estimates /\ Dominated(ins, G)
    BY <1>2, <1>3
  <2>2. QED
    BY <2>1 DEF Expire, Dominated
<1>4. ASSUME ~MustReset(est, new)
      PROVE  Dominated(Refresh(ins, new), G)
  <2> HIDE DEF ins
  <2>1. ins \in Estimates /\ Dominated(ins, G)
    BY <1>2, <1>4
  <2>2. QED
    BY <2>1 DEF Refresh, Dominated
<1>5. QED
  BY <1>1, <1>3, <1>4 DEF Update

(***************************************************************************)
(* No estimate of Update's result is older than the window.                *)
(***************************************************************************)
LEMMA UpdateFresh ==
  ASSUME NEW est \in Estimates, NEW new \in SampleType, OrderedBy(est, new.time)
  PROVE  new.time - Update(est, new)[0].time <= WindowLength
<1> USE WindowLengthAssumption DEF Estimates, SampleType
<1> DEFINE ins == Insert(est, new)
<1>1. new.time - Reset(new)[0].time <= WindowLength
  BY DEF Reset
<1>2. ins \in Estimates /\ ins[2].time >= est[2].time
  BY DEF Insert, OrderedBy
<1>3. ASSUME ~MustReset(est, new)
      PROVE  new.time - Expire(ins, new)[0].time <= WindowLength
  <2>1. new.time - est[2].time <= WindowLength
    BY <1>3 DEF MustReset, Age
  <2>2. QED
    BY <1>2, <2>1 DEF Expire, Age
<1>4. ASSUME Age(ins, 0, new) <= WindowLength
      PROVE  new.time - Refresh(ins, new)[0].time <= WindowLength
  BY <1>2, <1>4 DEF Refresh, Age
<1>5. QED
  BY <1>1, <1>2, <1>3, <1>4 DEF Update, Age
-----------------------------------------------------------------------------
(***************************************************************************)
(* One call of Update keeps the inductive invariant.                       *)
(***************************************************************************)
LEMMA UpdateFilterInv ==
  ASSUME IInv, Next
  PROVE  IInv'
<1> USE WindowLengthAssumption, FilterHistoryAssumption
<1>1. PICK s \in 0..MaxSample, gap \in 1..MaxGap : UpdateFilter(Sample(s, round + gap))
  BY DEF Next
<1> DEFINE new == Sample(s, round + gap)
<1>2. new \in SampleType /\ new.time = round + gap /\ new.time > round /\ round \in Nat
  BY DEF IInv, TypeOK, Sample, SampleType
<1> HIDE DEF new
<1>3. /\ estimates' = Update(estimates, new)
      /\ round' = new.time
      /\ hist' = hist \cup {new}
  BY <1>1 DEF UpdateFilter, new
<1>4. /\ estimates \in Estimates
      /\ hist \in SUBSET SampleType
      /\ Ranked(estimates)
      /\ OrderedBy(estimates, new.time)
      /\ Dominated(estimates, hist)
  BY <1>2 DEF IInv, TypeOK, Ordered, TimesOrdered, SamplesOrdered, Dominates, Estimates,
     SampleType, Ranked, OrderedBy, Dominated
<1>5. hist # {} => \A i \in 0..2 : estimates[i] \in hist
  BY DEF IInv, Dominates
<1>6. \A h \in hist : h.time < new.time
  BY <1>2 DEF IInv, HistoryPast, SampleType, TypeOK
<1>7. estimates' \in Estimates
  BY <1>2, <1>3, <1>4, UpdateType
<1>8. TypeOK'
  BY <1>2, <1>3, <1>4, <1>7 DEF TypeOK, SampleType
<1>9. Ordered'
  <2>1. Ranked(estimates') /\ OrderedBy(estimates', new.time)
    BY <1>2, <1>3, <1>4, UpdateRanked, UpdateOrdered
  <2>2. QED
    BY <1>3, <2>1 DEF Ordered, TimesOrdered, SamplesOrdered, Ranked, OrderedBy
<1>10. Dominates'
  <2>1. Dominated(estimates', hist')
    BY <1>2, <1>3, <1>4, <1>6, UpdateDominates
  <2>2. \A i \in 0..2 : estimates'[i] \in hist'
    <3>1. CASE hist # {}
      <4>1. ASSUME NEW i \in 0..2
            PROVE  estimates'[i] \in {new, estimates[0], estimates[1], estimates[2]}
        BY <1>2, <1>3, <1>4, UpdateRange
      <4>2. QED
        BY <1>3, <1>5, <3>1, <4>1
    <3>2. CASE hist = {}
      <4>1. estimates' = Reset(new)
        BY <1>3, <3>2 DEF IInv, HistoryPast, Update, MustReset
      <4>2. QED
        BY <1>3, <4>1 DEF Reset
    <3>3. QED
      BY <3>1, <3>2
  <2>3. QED
    BY <2>1, <2>2 DEF Dominates, Dominated
<1>11. Fresh'
  <2>1. new.time - estimates'[0].time <= WindowLength
    BY <1>2, <1>3, <1>4, UpdateFresh
  <2>2. QED
    BY <1>2, <1>3, <1>7, <1>9, <2>1 DEF Fresh, Ordered, TimesOrdered, Estimates, SampleType
<1>12. HistoryPast'
  BY <1>2, <1>3, <1>4 DEF HistoryPast, IInv, SampleType
<1>13. QED
  BY <1>8, <1>9, <1>10, <1>11, <1>12 DEF IInv

(***************************************************************************)
(* The estimates of windowed_filter.h are always ordered by value and by   *)
(* time, are the maxima of what was recorded since their time, and are     *)
(* never older than the window.                                            *)
(***************************************************************************)
THEOREM FilterCorrect == Spec => [](TypeOK /\ Ordered /\ Dominates /\ Fresh)
<1>1. Init => IInv
  BY WindowLengthAssumption DEF Init, IInv, TypeOK, Ordered, TimesOrdered, SamplesOrdered,
     Dominates, Fresh, HistoryPast, Estimates, FilterInit, Reset, Sample, ZeroValue
<1>2. IInv /\ [Next]_vars => IInv'
  <2>1. CASE Next
    BY <2>1, UpdateFilterInv
  <2>2. CASE UNCHANGED vars
    BY <2>2 DEF vars, IInv, TypeOK, Ordered, TimesOrdered, SamplesOrdered, Dominates,
       Fresh, HistoryPast
  <2>3. QED
    BY <2>1, <2>2
<1>3. IInv => TypeOK /\ Ordered /\ Dominates /\ Fresh
  BY DEF IInv
<1>4. QED
  BY <1>1, <1>2, <1>3, PTL DEF Spec
=============================================================================
