--------------------------- MODULE WindowedFilter ---------------------------
(***************************************************************************)
(* The windowed max filter of congestion_control/windowed_filter.h,        *)
(* instantiated as MyBbrSenderV5 does: WindowedFilter<QuicBandwidth,       *)
(* MaxFilter, uint64_t, uint64_t>.  estimates_ is a function on 0..2 whose *)
(* element 0 is the best estimate.  The time type is uint64_t; every       *)
(* subtraction below is modelled on the integers, and Ordered (of          *)
(* FilterHistory) is what keeps the code's subtractions from wrapping.     *)
(***************************************************************************)
EXTENDS Integers

CONSTANT WindowLength   \* window_length_

ASSUME WindowLengthAssumption == WindowLength \in Nat

ZeroValue == 0          \* zero_value_

\* Definitions named ...Mutant are slips used to show what a property rules out.
SampleMutant(s, t) == [sample |-> s - 1, time |-> t]

Sample(s, t) == [sample |-> s, time |-> t]

Estimates == [0..2 -> [sample : Nat, time : Nat]]

\* Compare: MaxFilter
AtLeastAsGood(new, old) == new.sample >= old.sample

Reset(new) == [i \in 0..2 |-> new]

FilterInit == Reset(Sample(ZeroValue, 0))

GetBest(est) == est[0].sample

Age(est, i, new) == new.time - est[i].time

\* The third best is not replaced along with the second.
InsertMutant(est, new) ==
  IF AtLeastAsGood(new, est[1]) THEN [est EXCEPT ![1] = new]
  ELSE IF AtLeastAsGood(new, est[2]) THEN [est EXCEPT ![2] = new]
  ELSE est

\* A sample below the best is not recorded.
DropMutant(est, new) == est

\* A sample as good as the second (third) best replaces it and what is below.
Insert(est, new) ==
  IF AtLeastAsGood(new, est[1]) THEN [est EXCEPT ![1] = new, ![2] = new]
  ELSE IF AtLeastAsGood(new, est[2]) THEN [est EXCEPT ![2] = new]
  ELSE est

\* The promoted estimate is not checked for its age.
ExpireMutant(est, new) == [i \in 0..2 |-> IF i = 2 THEN new ELSE est[i + 1]]

\* The best estimate left the window: promote the others, twice if needed.
Expire(est, new) ==
  IF Age(est, 1, new) > WindowLength
    THEN [i \in 0..2 |-> IF i = 0 THEN est[2] ELSE new]
    ELSE [i \in 0..2 |-> IF i = 2 THEN new ELSE est[i + 1]]

\* A quarter (half) of the window passed without a better second (third) best.
Refresh(est, new) ==
  IF est[1].sample = est[0].sample /\ Age(est, 1, new) > WindowLength \div 4
    THEN [est EXCEPT ![1] = new, ![2] = new]
  ELSE IF est[2].sample = est[1].sample /\ Age(est, 2, new) > WindowLength \div 2
    THEN [est EXCEPT ![2] = new]
  ELSE est

MustReset(est, new) ==
  \/ est[0].sample = ZeroValue
  \/ AtLeastAsGood(new, est[0])
  \/ Age(est, 2, new) > WindowLength

Update(est, new) ==
  LET inserted == Insert(est, new)
  IN  IF MustReset(est, new) THEN Reset(new)
      ELSE IF Age(inserted, 0, new) > WindowLength THEN Expire(inserted, new)
      ELSE Refresh(inserted, new)
=============================================================================
