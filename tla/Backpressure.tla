---------------------------- MODULE Backpressure ----------------------------
(***************************************************************************)
(* The backpressure controller (packet-bus/src/backpressure.rs): a queue's *)
(* occupancy as a percentage of its capacity, against two watermarks.  The *)
(* multiplication saturates at the machine word.                           *)
(***************************************************************************)
EXTENDS Naturals

CONSTANTS MaxWord,        \* usize::MAX
          Watermarks,     \* configurations the controller is created with
          QueueSizes,     \* capacities of the queues it is asked about
          Unasked         \* it has not been asked yet

ASSUME WordAssumption == MaxWord \in Nat \ {0} /\ QueueSizes \subseteq Nat

VARIABLES marks,      \* config: fixed by `new`
          asked       \* the queue it was last asked about, and what it decided

pressureVars == <<marks, asked>>

Saturate(n) == IF n > MaxWord THEN MaxWord ELSE n

DefaultMarks == [elevated |-> 75, critical |-> 95]

ValidMarks(m) ==
    /\ m.elevated \in 1 .. 99
    /\ m.critical \in 1 .. 100
    /\ m.elevated < m.critical

\* An invalid configuration is replaced by the default one.
Marks(m) == IF ValidMarks(m) THEN m ELSE DefaultMarks

\* Bug: the share of one unit is rounded before it is multiplied.
EvaluateMarks_Rounded(m, occupancy, capacity) ==
    LET bounded == IF occupancy < capacity THEN occupancy ELSE capacity
        percent == Saturate(bounded * (100 \div capacity))
    IN  IF percent >= m.critical THEN 2 ELSE IF percent >= m.elevated THEN 1 ELSE 0

\* 2 rejects (Critical), 1 throttles (Elevated), 0 accepts (Normal).
EvaluateMarks(m, occupancy, capacity) ==
    LET bounded == IF occupancy < capacity THEN occupancy ELSE capacity
        percent == Saturate(bounded * 100) \div capacity
    IN  IF percent >= m.critical THEN 2 ELSE IF percent >= m.elevated THEN 1 ELSE 0

\* evaluate: no capacity at all rejects.
Evaluate(m, occupancy, capacity) ==
    IF capacity = 0 THEN 2 ELSE EvaluateMarks(m, occupancy, capacity)

PressureInit == (\E m \in Watermarks : marks = Marks(m)) /\ asked = Unasked

Ask ==
    /\ \E size \in QueueSizes : \E occupancy \in 0 .. size + 1 :
         asked' = [occupancy |-> occupancy, capacity |-> size,
                   level |-> Evaluate(marks, occupancy, size)]
    /\ UNCHANGED marks

PressureSpec == PressureInit /\ [][Ask]_pressureVars

-----------------------------------------------------------------------------
\* The controller is as strict as exact arithmetic: it rejects exactly from
\* the critical share of the capacity on and throttles from the elevated
\* share, whatever is configured; so a full queue is always refused
\* (backpressure.rs:84-130).  The percentage must fit the machine word for
\* this: capacities past usize::MAX / 100 saturate, and only there.
BackpressureIsExact ==
    asked # Unasked /\ 100 * asked.capacity <= MaxWord =>
        LET share == 100 * asked.occupancy
        IN  asked.level =
                CASE share >= marks.critical * asked.capacity -> 2
                  [] share < marks.elevated * asked.capacity -> 0
                  [] OTHER -> 1
=============================================================================
