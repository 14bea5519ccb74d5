---------------------------- MODULE FilterHistory ---------------------------
(***************************************************************************)
(* The windowed filter driven the way MyBbrSenderV5::OnAck drives it       *)
(* (bbr_sender_v5.cc:133): one Update per round trip, the round number as  *)
(* the time.  MaxGap = 1 is that caller; a larger MaxGap lets the time     *)
(* jump, which the class allows.  hist is a history variable: every sample *)
(* given to the filter.  It is what the estimates are compared with.       *)
(***************************************************************************)
EXTENDS WindowedFilter

CONSTANTS MaxSample,    \* bound on the sample values
          MaxGap,       \* bound on the time between two updates
          MaxRound      \* bound on the time of an update

ASSUME FilterHistoryAssumption ==
  MaxSample \in Nat /\ MaxGap \in Nat /\ MaxRound \in Nat

VARIABLES estimates,    \* estimates_
          round,        \* the time of the latest Update
          hist          \* history: the samples recorded so far

vars == <<estimates, round, hist>>

Init ==
  /\ estimates = FilterInit
  /\ round = 0
  /\ hist = {}

\* max_bandwidth_.Update(bw, current_round): a round may yield no sample, and
\* then the caller records a zero.
UpdateFilter(new) ==
  /\ new.time <= MaxRound
  /\ round' = new.time
  /\ estimates' = Update(estimates, new)
  /\ hist' = hist \cup {new}

Next == \E s \in 0..MaxSample, gap \in 1..MaxGap : UpdateFilter(Sample(s, round + gap))

Spec == Init /\ [][Next]_vars
-----------------------------------------------------------------------------
TypeOK ==
  /\ estimates \in Estimates
  /\ round \in Nat
  /\ hist \subseteq [sample : Nat, time : Nat]

(***************************************************************************)
(* windowed_filter.h:11: the estimates are ordered, best first by value    *)
(* and oldest first by time, and none is ahead of the latest update, so no *)
(* uint64_t subtraction in Update wraps.                                   *)
(***************************************************************************)
TimesOrdered ==
  /\ estimates[0].time <= estimates[1].time
  /\ estimates[1].time <= estimates[2].time
  /\ estimates[2].time <= round

SamplesOrdered ==
  /\ estimates[0].sample >= estimates[1].sample
  /\ estimates[1].sample >= estimates[2].sample

Ordered == TimesOrdered /\ SamplesOrdered

(***************************************************************************)
(* Each estimate is a sample that was really recorded, and it is at least  *)
(* as good as every sample recorded at its time or later: GetBest() is the *)
(* maximum of a stretch of samples that reaches to the newest one.         *)
(***************************************************************************)
Dominates ==
  \A i \in 0..2 :
    /\ hist # {} => estimates[i] \in hist
    /\ \A h \in hist : h.time >= estimates[i].time => h.sample <= estimates[i].sample

(***************************************************************************)
(* After an Update no estimate is older than the window: promoting twice   *)
(* is enough ("Don't need to iterate once more", windowed_filter.h:117).   *)
(***************************************************************************)
Fresh == \A i \in 0..2 : round - estimates[i].time <= WindowLength
=============================================================================
