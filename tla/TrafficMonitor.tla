--------------------------- MODULE TrafficMonitor ---------------------------
(***************************************************************************)
(* TrafficMonitor: the arrival rate of each arbitration id over a sliding  *)
(* window, and its two queues, which drop the oldest entry when full: the  *)
(* event log, which is never taken from, and the processing queue.         *)
(*                                                                         *)
(* A rate limit is given as its smallest mean interval, MinGap =           *)
(* 1 / max_rate_hz: a window of n frames is too fast when it spans less    *)
(* than (n - 1) * MinGap, frames at one instant included. A queue's        *)
(* entries are the numbers of the calls that brought them.                 *)
(***************************************************************************)
EXTENDS Integers, Sequences

CONSTANTS
  ObservedIds,
  MinGap, RateWindow,      \* 1 / max_rate_hz, rate_window_s
  MaxEvents,               \* max_events
  MaxProcessingQueue,      \* max_processing_queue
  LastFrameTime, MaxFrames,   \* model bounds: latest stamp, frames accepted of each id
  MaxItems                    \* model bound: entries put into each queue

ASSUME TrafficAssumption ==
  /\ MinGap \in Nat \ {0} /\ RateWindow \in Nat \ {0}
  /\ MaxEvents \in Nat \ {0} /\ MaxProcessingQueue \in Nat \ {0}
  /\ LastFrameTime \in Nat /\ MaxFrames \in Nat /\ MaxItems \in Nat

VARIABLES
  timestamps,     \* _timestamps_by_id
  rateDecision,   \* what the last observe_frame of each id answered
  queue,          \* _events and _processing_queue, by name
  drops,          \* _event_drop_count and _processing_drop_count
  \* history, which the code does not keep
  accepted,       \* the stamps appended for each id, ever
  put, taken      \* how many entries each queue was given and gave

trafficVars == <<timestamps, rateDecision, queue, drops, accepted, put, taken>>
rateVars  == <<timestamps, rateDecision, accepted>>
queueVars == <<queue, drops, put, taken>>

TrafficActions == {"NONE", "ALERT", "RATE_LIMIT"}
Queues  == {"events", "processing"}
Limit(q) == IF q = "events" THEN MaxEvents ELSE MaxProcessingQueue

TrafficTypeOK ==
  /\ timestamps \in [ObservedIds -> Seq(Nat)] /\ accepted \in [ObservedIds -> Seq(Nat)]
  /\ rateDecision \in [ObservedIds -> TrafficActions]
  /\ queue \in [Queues -> Seq(Nat)] /\ \A q \in Queues : Len(queue[q]) <= Limit(q)
  /\ drops \in [Queues -> Nat] /\ put \in [Queues -> Nat] /\ taken \in [Queues -> Nat]

(***************************************************************************)
(* observe_frame                                                           *)
(***************************************************************************)
\* The frames left when the ones older than the window are popped from the front.
Pruned(s, t) ==
  LET first == CHOOSE i \in 1..(Len(s) + 1) :
                 /\ \A j \in 1..(i - 1) : s[j] < t - RateWindow
                 /\ i <= Len(s) => s[i] >= t - RateWindow
  IN  SubSeq(s, first, Len(s))

\* mutant: the frames are counted instead of the intervals between them
TooFastByFrames(s) == Len(s) >= 2 /\ Len(s) * MinGap > s[Len(s)] - s[1]

\* mutant: frames at one instant have no rate
TooFastUnlessEqual(s) ==
  Len(s) >= 2 /\ s[Len(s)] > s[1] /\ (Len(s) - 1) * MinGap > s[Len(s)] - s[1]

TooFast(s) == Len(s) >= 2 /\ (Len(s) - 1) * MinGap > s[Len(s)] - s[1]

\* mutant: a frame stamped before the last one is recorded like any other
ObserveAnyOrder(id, t) ==
  LET kept == Pruned(timestamps[id], t)
  IN  /\ Len(accepted[id]) < MaxFrames
      /\ timestamps' = [timestamps EXCEPT ![id] = Append(kept, t)]
      /\ accepted' = [accepted EXCEPT ![id] = Append(@, t)]
      /\ rateDecision' = [rateDecision EXCEPT ![id] = IF TooFast(timestamps'[id])
                                              THEN "RATE_LIMIT" ELSE "NONE"]
      /\ UNCHANGED queueVars

\* A frame stamped before the last one kept is reported and not recorded; one over the
\* rate is reported and recorded, whatever their number.
ObserveFrame(id, t) ==
  LET kept     == Pruned(timestamps[id], t)
      backward == Len(kept) > 0 /\ t < kept[Len(kept)]
  IN  /\ Len(accepted[id]) < MaxFrames
      /\ IF backward
         THEN /\ timestamps' = [timestamps EXCEPT ![id] = kept]
              /\ rateDecision' = [rateDecision EXCEPT ![id] = "ALERT"]
              /\ UNCHANGED accepted
         ELSE /\ timestamps' = [timestamps EXCEPT ![id] = Append(kept, t)]
              /\ accepted' = [accepted EXCEPT ![id] = Append(@, t)]
              /\ rateDecision' = [rateDecision EXCEPT ![id] = IF TooFast(timestamps'[id])
                                                      THEN "RATE_LIMIT" ELSE "NONE"]
      /\ UNCHANGED queueVars

(***************************************************************************)
(* record_event, enqueue_for_processing, dequeue_for_processing            *)
(***************************************************************************)
\* mutant: a full queue drops its newest entry
PutDroppingNewest(q) ==
  LET full == Len(queue[q]) >= Limit(q)
  IN  /\ put[q] < MaxItems
      /\ put' = [put EXCEPT ![q] = @ + 1]
      /\ queue' = [queue EXCEPT ![q] =
                     Append(IF full THEN SubSeq(@, 1, Len(@) - 1) ELSE @, put[q] + 1)]
      /\ drops' = [drops EXCEPT ![q] = IF full THEN @ + 1 ELSE @]
      /\ UNCHANGED rateVars /\ UNCHANGED taken

\* A full queue drops its oldest entry.
Put(q) ==
  LET full == Len(queue[q]) >= Limit(q)
  IN  /\ put[q] < MaxItems
      /\ put' = [put EXCEPT ![q] = @ + 1]
      /\ queue' = [queue EXCEPT ![q] = Append(IF full THEN Tail(@) ELSE @, put[q] + 1)]
      /\ drops' = [drops EXCEPT ![q] = IF full THEN @ + 1 ELSE @]
      /\ UNCHANGED rateVars /\ UNCHANGED taken

\* An empty queue answers None and changes nothing.
Take ==
  /\ queue["processing"] # <<>>
  /\ queue' = [queue EXCEPT !["processing"] = Tail(@)]
  /\ taken' = [taken EXCEPT !["processing"] = @ + 1]
  /\ UNCHANGED rateVars /\ UNCHANGED <<drops, put>>

TrafficInit ==
  /\ timestamps = [id \in ObservedIds |-> <<>>] /\ accepted = [id \in ObservedIds |-> <<>>]
  /\ rateDecision = [id \in ObservedIds |-> "NONE"]
  /\ queue = [q \in Queues |-> <<>>] /\ drops = [q \in Queues |-> 0]
  /\ put = [q \in Queues |-> 0] /\ taken = [q \in Queues |-> 0]

\* The bounds on frames and entries are the model's, not the program's.
Quiet ==
  /\ \A id \in ObservedIds : Len(accepted[id]) = MaxFrames
  /\ \A q \in Queues : put[q] = MaxItems
  /\ UNCHANGED trafficVars

TrafficNext ==
  \/ \E id \in ObservedIds, t \in 0..LastFrameTime : ObserveFrame(id, t)
  \/ \E q \in Queues : Put(q)
  \/ Take \/ Quiet

TrafficSpec == TrafficInit /\ [][TrafficNext]_trafficVars

(***************************************************************************)
(* Properties                                                              *)
(***************************************************************************)
Newest(s) == s[Len(s)]

\* The accepted frames within one window of the newest.
InWindow(id) ==
  {i \in DOMAIN accepted[id] : accepted[id][i] >= Newest(accepted[id]) - RateWindow}

\* What is kept of an id is exactly its accepted frames within one window of the
\* newest, in order, whatever stamps the refused frames in between carried.
WindowIsExact ==
  \A id \in ObservedIds : accepted[id] # <<>> =>
    LET gone == Len(accepted[id]) - Len(timestamps[id])
    IN  /\ gone >= 0
        /\ \A i \in DOMAIN timestamps[id] : timestamps[id][i] = accepted[id][gone + i]
        /\ \A i \in DOMAIN accepted[id] :
             i > gone <=> accepted[id][i] >= Newest(accepted[id]) - RateWindow

\* More frames in a window than the rate allows are a reason to limit (BMS-SEC-AVA-002).
FloodIsLimited ==
  \A id \in ObservedIds : \A n \in 1..MaxFrames :
    /\ Len(accepted[id]) >= n + 1 /\ n * MinGap > RateWindow
    /\ Newest(accepted[id]) - accepted[id][Len(accepted[id]) - n] <= RateWindow
    => rateDecision[id] # "NONE"

\* Traffic whose frames are all MinGap apart or more is never limited.
SteadyIsNotLimited ==
  \A id \in ObservedIds :
    (\A i \in InWindow(id) : i > 1 => accepted[id][i] - accepted[id][i - 1] >= MinGap)
    => rateDecision[id] # "RATE_LIMIT"

\* A queue holds the newest entries it was given, in order, and every other one was
\* taken or counted as dropped: no drop makes a queue skip or repeat an entry.
QueueHoldsNewest ==
  \A q \in Queues :
    /\ queue[q] = [i \in 1..Len(queue[q]) |-> put[q] - Len(queue[q]) + i]
    /\ put[q] = taken[q] + drops[q] + Len(queue[q])
=============================================================================
