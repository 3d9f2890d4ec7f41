----------------------------- MODULE LogFetcher -----------------------------
(***************************************************************************)
(* One call of fetchLogsWithAdaptiveRetry                                  *)
(* (src/services/ingestion/log-fetcher.ts) on the windows that             *)
(* buildAdaptiveWindows (src/services/ingestion/block-window.ts) cuts a    *)
(* block range into.  The provider may refuse any window at any time.      *)
(*                                                                         *)
(* The logs of a window are the numbers of its blocks, one log for each:   *)
(* what matters is which blocks were asked for successfully, how often and *)
(* in what order.                                                          *)
(***************************************************************************)
EXTENDS Integers, Sequences

CONSTANTS
  MaxBlock,        \* the last block of the chain
  MaxWindowSize,   \* the greatest maxWindowSize a caller asks for
  MinWindowSize,   \* the size at which a window is no longer split
  MaxAttempts      \* the attempts a window of that size gets

ASSUME SizesAssumption ==
  /\ MaxBlock \in Nat
  /\ MaxWindowSize \in Nat \ {0}
  /\ MinWindowSize \in Nat \ {0}
  /\ MaxAttempts \in Nat \ {0}

VARIABLES
  ask,        \* the range to fetch and the size of its windows
  pc,         \* where the call is
  next,       \* the block the next window is cut from
  queue,      \* the windows that wait, each with the attempt it is on
  current,    \* the window handed to the provider
  attempted,  \* attemptedWindows: every window handed to the provider
  logs        \* the logs received

vars == <<ask, pc, next, queue, current, attempted, logs>>

Blocks   == 0 .. MaxBlock
Asks     == {a \in [start : Blocks, end : Blocks, size : 1 .. MaxWindowSize] :
               a.start <= a.end}
Attempts == [from : Blocks, to : Blocks, attempt : 1 .. MaxAttempts]

Size(w)   == w.to - w.from + 1
Window(w) == [from |-> w.from, to |-> w.to]

TypeOK ==
  /\ ask \in Asks
  /\ pc \in {"cutting", "looping", "calling", "done", "failed"}
  /\ next \in 0 .. MaxBlock + 1
  /\ queue \in Seq(Attempts)
  /\ current \in Attempts
  /\ attempted \in Seq([from : Blocks, to : Blocks])
  /\ logs \in Seq(Blocks)

-----------------------------------------------------------------------------
Init ==
  /\ ask \in Asks
  /\ pc = "cutting"
  /\ next = ask.start
  /\ queue = <<>>
  /\ current = [from |-> 0, to |-> 0, attempt |-> 1]
  /\ attempted = <<>>
  /\ logs = <<>>

(* buildAdaptiveWindows cuts one window off the range at a time.            *)
(* Mutated: the last window is not clamped to the end of the range.         *)
CutToUnclamped == next + ask.size - 1

CutTo == IF next + ask.size - 1 < ask.end THEN next + ask.size - 1 ELSE ask.end

(* Mutated: windows share their boundary block.                             *)
CutOverlapping ==
  /\ pc = "cutting"
  /\ next <= ask.end
  /\ queue' = Append(queue, [from |-> next, to |-> CutTo, attempt |-> 1])
  /\ next' = IF CutTo < ask.end /\ CutTo > next THEN CutTo ELSE CutTo + 1
  /\ UNCHANGED <<ask, pc, current, attempted, logs>>

Cut ==
  /\ pc = "cutting"
  /\ next <= ask.end
  /\ queue' = Append(queue, [from |-> next, to |-> CutTo, attempt |-> 1])
  /\ next' = CutTo + 1
  /\ UNCHANGED <<ask, pc, current, attempted, logs>>

AllCut ==
  /\ pc = "cutting"
  /\ next > ask.end
  /\ pc' = "looping"
  /\ UNCHANGED <<ask, next, queue, current, attempted, logs>>

(* queue.shift and the call to getLogs.                                     *)
Shift ==
  /\ pc = "looping"
  /\ queue # <<>>
  /\ current' = Head(queue)
  /\ queue' = Tail(queue)
  /\ attempted' = Append(attempted, Window(Head(queue)))
  /\ pc' = "calling"
  /\ UNCHANGED <<ask, next, logs>>

LogsOf(w) == [k \in 1 .. Size(w) |-> w.from + k - 1]

Deliver ==
  /\ pc = "calling"
  /\ logs' = logs \o LogsOf(current)
  /\ pc' = "looping"
  /\ UNCHANGED <<ask, next, queue, current, attempted>>

(* splitBlockWindow, of a window of two blocks or more.                     *)
Midpoint(w) == w.from + Size(w) \div 2 - 1
Halves(w) ==
  <<[from |-> w.from, to |-> Midpoint(w), attempt |-> 1],
    [from |-> Midpoint(w) + 1, to |-> w.to, attempt |-> 1]>>

(* Mutated: the halves go to the back of the queue.                         *)
SplitToBack ==
  /\ pc = "calling"
  /\ Size(current) > MinWindowSize
  /\ queue' = queue \o Halves(current)
  /\ pc' = "looping"
  /\ UNCHANGED <<ask, next, current, attempted, logs>>

(* A refused window above the floor is split, its halves go to the front.   *)
Split ==
  /\ pc = "calling"
  /\ Size(current) > MinWindowSize
  /\ queue' = Halves(current) \o queue
  /\ pc' = "looping"
  /\ UNCHANGED <<ask, next, current, attempted, logs>>

(* One at the floor is tried again.                                         *)
Retry ==
  /\ pc = "calling"
  /\ Size(current) <= MinWindowSize
  /\ current.attempt < MaxAttempts
  /\ queue' = <<[current EXCEPT !.attempt = @ + 1]>> \o queue
  /\ pc' = "looping"
  /\ UNCHANGED <<ask, next, current, attempted, logs>>

(* Mutated: a window that was split is not given the attempts of its own.   *)
GiveUpEarly ==
  /\ pc = "calling"
  /\ Size(current) <= MinWindowSize
  /\ Len(attempted) >= MaxAttempts
  /\ pc' = "failed"
  /\ UNCHANGED <<ask, next, queue, current, attempted, logs>>

GiveUp ==
  /\ pc = "calling"
  /\ Size(current) <= MinWindowSize
  /\ current.attempt = MaxAttempts
  /\ pc' = "failed"
  /\ UNCHANGED <<ask, next, queue, current, attempted, logs>>

Return ==
  /\ pc = "looping"
  /\ queue = <<>>
  /\ pc' = "done"
  /\ UNCHANGED <<ask, next, queue, current, attempted, logs>>

Next ==
  Cut \/ AllCut \/ Shift \/ Deliver \/ Split \/ Retry \/ GiveUp \/ Return

Spec == Init /\ [][Next]_vars

-----------------------------------------------------------------------------
(* However the provider refused and the windows were split, the logs        *)
(* received are those of the range from its first block on, in the order of *)
(* the chain, none missing and none twice.                                  *)
LogsInOrder == logs = [k \in 1 .. Len(logs) |-> ask.start + k - 1]

(* A fetch that returns has the whole range: no window was lost between     *)
(* cutting, splitting and retrying.                                         *)
ReturnsWholeRange == pc = "done" => Len(logs) = ask.end - ask.start + 1

(* The fetch gives up only on a window that cannot be split any further and *)
(* that the provider refused MaxAttempts times in succession.               *)
GivesUpAtFloor ==
  pc = "failed" =>
    /\ Size(current) <= MinWindowSize
    /\ Len(attempted) >= MaxAttempts
    /\ \A k \in Len(attempted) - MaxAttempts + 1 .. Len(attempted) :
         attempted[k] = Window(current)
=============================================================================
