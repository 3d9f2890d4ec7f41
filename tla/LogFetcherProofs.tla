-------------------------- MODULE LogFetcherProofs --------------------------
(***************************************************************************)
(* For every range, window size, floor and number of attempts: the logs    *)
(* received are a prefix of the range in the order of the chain, a fetch   *)
(* that returns has all of them, and one that gives up was refused the     *)
(* same smallest window as often as it may be.                             *)
(***************************************************************************)
EXTENDS LogFetcher, SequenceTheorems, TLAPS

(* The windows of q tile the blocks from a up to b, in order.               *)
Tiles(q, a, b) ==
  /\ \A k \in 1 .. Len(q) : q[k].from <= q[k].to
  /\ \A k \in 1 .. Len(q) : k > 1 => q[k].from = q[k - 1].to + 1
  /\ Len(q) = 0 => a = b + 1
  /\ Len(q) > 0 => q[1].from = a /\ q[Len(q)].to = b

(* The first block whose logs are not received yet.                         *)
Frontier == ask.start + Len(logs)

(* What is received, what is being asked for and what waits make up the     *)
(* range.                                                                   *)
Tiling ==
  /\ pc = "cutting" =>
       /\ Len(logs) = 0
       /\ ask.start <= next /\ next <= ask.end + 1
       /\ Tiles(queue, ask.start, next - 1)
  /\ pc = "looping" => Tiles(queue, Frontier, ask.end)
  /\ pc = "calling" =>
       /\ current.from = Frontier
       /\ current.from <= current.to
       /\ Tiles(queue, current.to + 1, ask.end)
  /\ pc = "done" => Frontier = ask.end + 1

(* The last n windows handed to the provider are w.                         *)
LastAttempts(n, w) ==
  /\ n <= Len(attempted)
  /\ \A k \in Len(attempted) - n + 1 .. Len(attempted) : attempted[k] = Window(w)

(* The attempt of a window counts how often it was refused just before:     *)
(* only the window at the front of the queue can be on a later attempt.     *)
AttemptsCounted ==
  /\ \A k \in 1 .. Len(queue) : k > 1 => queue[k].attempt = 1
  /\ pc \in {"cutting", "calling"} => \A k \in 1 .. Len(queue) : queue[k].attempt = 1
  /\ pc = "looping" /\ queue # <<>> => LastAttempts(queue[1].attempt - 1, queue[1])
  /\ pc \in {"calling", "failed"} => LastAttempts(current.attempt, current)
  /\ pc = "failed" => Size(current) <= MinWindowSize /\ current.attempt = MaxAttempts

FetchInv == TypeOK /\ Tiling /\ LogsInOrder /\ AttemptsCounted

-----------------------------------------------------------------------------
(* Taking the first window off leaves a tiling of what comes after it.       *)
LEMMA TilesTail ==
  ASSUME NEW q \in Seq(Attempts), NEW a \in Int, NEW b \in Int, Tiles(q, a, b), q # <<>>
  PROVE  /\ Tail(q) \in Seq(Attempts)
         /\ Head(q) \in Attempts
         /\ Head(q) = q[1]
         /\ Head(q).from = a /\ Head(q).from <= Head(q).to
         /\ Tiles(Tail(q), Head(q).to + 1, b)
<1>1. Len(q) \in Nat /\ Len(q) > 0 /\ Head(q) = q[1] /\ Head(q) \in Attempts
  OBVIOUS
<1>2. /\ Tail(q) \in Seq(Attempts)
      /\ Len(Tail(q)) = Len(q) - 1
      /\ \A k \in 1 .. Len(q) - 1 : Tail(q)[k] = q[k + 1]
  OBVIOUS
<1>3. \A k \in 1 .. Len(q) - 1 : q[k + 1].from <= q[k + 1].to /\ q[k + 1].from = q[k].to + 1
  BY <1>1 DEF Tiles
<1>4. \A k \in 1 .. Len(Tail(q)) : Tail(q)[k].from <= Tail(q)[k].to
  BY <1>1, <1>2, <1>3
<1>5. \A k \in 1 .. Len(Tail(q)) : k > 1 => Tail(q)[k].from = Tail(q)[k - 1].to + 1
  BY <1>1, <1>2, <1>3
<1>6. Len(Tail(q)) = 0 => Head(q).to + 1 = b + 1
  <2> SUFFICES ASSUME Len(Tail(q)) = 0 PROVE Head(q).to = b
    OBVIOUS
  <2>1. Len(q) = 1
    BY <1>1, <1>2
  <2>2. QED
    BY <1>1, <2>1 DEF Tiles
<1>7. Len(Tail(q)) > 0 => Tail(q)[1].from = Head(q).to + 1 /\ Tail(q)[Len(Tail(q))].to = b
  BY <1>1, <1>2, <1>3 DEF Tiles
<1>8. QED
  BY <1>1, <1>2, <1>4, <1>5, <1>6, <1>7 DEF Tiles

(* Putting a window before a tiling that starts right after it.             *)
LEMMA TilesCons ==
  ASSUME NEW q \in Seq(Attempts), NEW w \in Attempts, NEW b \in Int,
         w.from <= w.to, Tiles(q, w.to + 1, b)
  PROVE  /\ <<w>> \o q \in Seq(Attempts)
         /\ Len(<<w>> \o q) = Len(q) + 1
         /\ (<<w>> \o q)[1] = w
         /\ \A k \in 2 .. Len(q) + 1 : (<<w>> \o q)[k] = q[k - 1]
         /\ Tiles(<<w>> \o q, w.from, b)
<1> DEFINE p == <<w>> \o q
<1>1. Len(q) \in Nat /\ p \in Seq(Attempts) /\ Len(p) = Len(q) + 1
  OBVIOUS
<1>2. p[1] = w /\ \A k \in 2 .. Len(q) + 1 : p[k] = q[k - 1]
  OBVIOUS
<1> HIDE DEF p
<1>3. w.from \in Int /\ w.to \in Int
  BY SizesAssumption DEF Attempts, Blocks
<1>4. \A k \in 1 .. Len(p) : p[k].from <= p[k].to
  <2>1. \A k \in 2 .. Len(q) + 1 : k - 1 \in 1 .. Len(q)
    BY <1>1
  <2>2. \A k \in 2 .. Len(q) + 1 : p[k].from <= p[k].to
    BY <1>2, <2>1 DEF Tiles
  <2>3. \A k \in 1 .. Len(p) : k = 1 \/ k \in 2 .. Len(q) + 1
    BY <1>1
  <2>4. QED
    BY <1>2, <2>2, <2>3
<1>5. \A k \in 1 .. Len(p) : k > 1 => p[k].from = p[k - 1].to + 1
  <2>0. \A k \in 1 .. Len(p) : k > 1 => k \in 2 .. Len(q) + 1
    BY <1>1
  <2> SUFFICES ASSUME NEW k \in 2 .. Len(q) + 1 PROVE p[k].from = p[k - 1].to + 1
    BY <2>0
  <2>1. CASE k = 2
    BY <1>1, <1>2, <2>1 DEF Tiles
  <2>2. CASE k > 2
    <3>1. k - 1 \in 2 .. Len(q) + 1 /\ k - 1 \in 1 .. Len(q) /\ k - 1 > 1
      BY <1>1, <2>2
    <3>2. p[k] = q[k - 1] /\ p[k - 1] = q[(k - 1) - 1]
      BY <1>2, <3>1
    <3>3. q[k - 1].from = q[(k - 1) - 1].to + 1
      BY <3>1 DEF Tiles
    <3>4. QED
      BY <3>2, <3>3
  <2>3. QED
    BY <2>1, <2>2
<1>6. Len(p) > 0 /\ p[1].from = w.from /\ p[Len(p)].to = b
  <2>1. CASE Len(q) = 0
    BY <1>1, <1>2, <1>3, <2>1 DEF Tiles
  <2>2. CASE Len(q) > 0
    <3>1. p[Len(p)] = q[Len(q)]
      BY <1>1, <1>2, <2>2
    <3>2. QED
      BY <1>1, <1>2, <2>2, <3>1 DEF Tiles
  <2>3. QED
    BY <1>1, <2>1, <2>2
<1>7. Tiles(p, w.from, b)
  <2>1. Len(p) # 0
    BY <1>1
  <2>2. QED
    BY <1>4, <1>5, <1>6, <2>1 DEF Tiles
<1>8. QED
  BY <1>1, <1>2, <1>7 DEF p

(* Putting a window behind a tiling that ends right before it.              *)
LEMMA TilesAppend ==
  ASSUME NEW q \in Seq(Attempts), NEW w \in Attempts, NEW a \in Int, NEW b \in Int,
         w.from <= w.to, w.from = b + 1, Tiles(q, a, b)
  PROVE  /\ Append(q, w) \in Seq(Attempts)
         /\ Tiles(Append(q, w), a, w.to)
<1> DEFINE p == Append(q, w)
<1>1. Len(q) \in Nat /\ p \in Seq(Attempts) /\ Len(p) = Len(q) + 1
  OBVIOUS
<1>2. p[Len(q) + 1] = w /\ \A k \in 1 .. Len(q) : p[k] = q[k]
  OBVIOUS
<1> HIDE DEF p
<1>3. \A k \in 1 .. Len(p) : p[k].from <= p[k].to
  <2>1. \A k \in 1 .. Len(q) : p[k].from <= p[k].to
    BY <1>2 DEF Tiles
  <2>2. \A k \in 1 .. Len(p) : k \in 1 .. Len(q) \/ k = Len(q) + 1
    BY <1>1
  <2>3. p[Len(q) + 1].from <= p[Len(q) + 1].to
    BY <1>2
  <2>4. QED
    BY <2>1, <2>2, <2>3
<1>4. \A k \in 1 .. Len(p) : k > 1 => p[k].from = p[k - 1].to + 1
  <2>0. \A k \in 1 .. Len(p) : k > 1 => k \in 2 .. Len(q) + 1
    BY <1>1
  <2> SUFFICES ASSUME NEW k \in 2 .. Len(q) + 1 PROVE p[k].from = p[k - 1].to + 1
    BY <2>0
  <2>1. CASE k = Len(q) + 1
    BY <1>1, <1>2, <2>1 DEF Tiles
  <2>2. CASE k <= Len(q)
    <3>1. k \in 1 .. Len(q) /\ k > 1 /\ k - 1 \in 1 .. Len(q)
      BY <1>1, <2>2
    <3>2. p[k] = q[k] /\ p[k - 1] = q[k - 1]
      BY <1>2, <3>1
    <3>3. QED
      BY <3>1, <3>2 DEF Tiles
  <2>3. QED
    BY <1>1, <2>1, <2>2
<1>5. Len(p) > 0 /\ p[1].from = a /\ p[Len(p)].to = w.to
  <2>1. CASE Len(q) = 0
    BY <1>1, <1>2, <2>1 DEF Tiles
  <2>2. CASE Len(q) > 0
    BY <1>1, <1>2, <2>2 DEF Tiles
  <2>3. QED
    BY <1>1, <2>1, <2>2
<1>6. Tiles(p, a, w.to)
  BY <1>1, <1>3, <1>4, <1>5 DEF Tiles
<1>7. QED
  BY <1>1, <1>6 DEF p

(* A pair before a sequence is its parts put there one by one.              *)
LEMMA PairConcat ==
  ASSUME NEW a \in Attempts, NEW b \in Attempts, NEW q \in Seq(Attempts)
  PROVE  <<a, b>> \o q = <<a>> \o (<<b>> \o q)
<1> DEFINE s == <<a>>
           t == <<b>>
<1>2. s \in Seq(Attempts) /\ t \in Seq(Attempts)
  OBVIOUS
<1>1. <<a, b>> = s \o t
  <2>1. /\ s \o t \in Seq(Attempts) /\ Len(s \o t) = 2
        /\ (s \o t)[1] = a /\ (s \o t)[2] = b
    BY <1>2, ConcatProperties
  <2>2. /\ <<a, b>> \in Seq(Attempts) /\ Len(<<a, b>>) = 2
        /\ <<a, b>>[1] = a /\ <<a, b>>[2] = b
    OBVIOUS
  <2> HIDE DEF s, t
  <2>3. \A k \in 1 .. 2 : (s \o t)[k] = <<a, b>>[k]
    BY <2>1, <2>2
  <2>4. QED
    BY <2>1, <2>2, <2>3, SeqEqual
<1> HIDE DEF s, t
<1>3. (s \o t) \o q = s \o (t \o q)
  BY <1>2, ConcatAssociative
<1>4. QED
  BY <1>1, <1>3 DEF s, t

(* The halves of a window of two blocks or more are its two parts.          *)
LEMMA HalvesFacts ==
  ASSUME NEW w \in Attempts, Size(w) > MinWindowSize
  PROVE  /\ Halves(w)[1] \in Attempts /\ Halves(w)[2] \in Attempts
         /\ Halves(w)[1].from = w.from /\ Halves(w)[2].to = w.to
         /\ Halves(w)[1].from <= Halves(w)[1].to /\ Halves(w)[2].from <= Halves(w)[2].to
         /\ Halves(w)[2].from = Halves(w)[1].to + 1
         /\ Halves(w)[1].attempt = 1 /\ Halves(w)[2].attempt = 1
         /\ \A q \in Seq(Attempts) : Halves(w) \o q = <<Halves(w)[1]>> \o (<<Halves(w)[2]>> \o q)
<1>1. w.from \in Nat /\ w.to \in Nat /\ w.to <= MaxBlock /\ Size(w) \in Int /\ Size(w) >= 2
      /\ Size(w) = w.to - w.from + 1
  BY SizesAssumption DEF Attempts, Blocks, Size
<1>2. Midpoint(w) \in Int /\ w.from <= Midpoint(w) /\ Midpoint(w) < w.to
  BY <1>1 DEF Midpoint
<1>3. Halves(w)[1] \in Attempts /\ Halves(w)[2] \in Attempts
  BY <1>1, <1>2, SizesAssumption DEF Halves, Attempts, Blocks
<1>4. \A q \in Seq(Attempts) : Halves(w) \o q = <<Halves(w)[1]>> \o (<<Halves(w)[2]>> \o q)
  BY <1>3, PairConcat DEF Halves
<1>5. QED
  BY <1>1, <1>2, <1>3, <1>4 DEF Halves

-----------------------------------------------------------------------------
LEMMA AskFacts ==
  ASSUME TypeOK
  PROVE  /\ ask.start \in 0 .. MaxBlock /\ ask.end \in 0 .. MaxBlock
         /\ ask.start <= ask.end /\ ask.size \in 1 .. MaxWindowSize
         /\ Len(logs) \in Nat /\ Frontier \in Nat /\ Len(queue) \in Nat
         /\ MaxBlock \in Nat /\ MaxWindowSize \in Nat
BY SizesAssumption DEF TypeOK, Asks, Blocks, Frontier

LEMMA CutStep ==
  ASSUME FetchInv, Cut
  PROVE  FetchInv'
<1> DEFINE w == [from |-> next, to |-> CutTo, attempt |-> 1]
<1>0. /\ next \in 0 .. MaxBlock + 1 /\ next <= ask.end
      /\ ask.start \in 0 .. MaxBlock /\ ask.end \in 0 .. MaxBlock
      /\ ask.start <= ask.end /\ ask.size \in 1 .. MaxWindowSize
      /\ MaxBlock \in Nat /\ MaxWindowSize \in Nat /\ Len(logs) \in Nat
      /\ pc = "cutting" /\ Len(logs) = 0 /\ ask.start <= next
      /\ Tiles(queue, ask.start, next - 1)
  BY AskFacts DEF FetchInv, TypeOK, Tiling, Cut
<1>1. /\ next \in Nat /\ CutTo \in Nat /\ next <= CutTo /\ CutTo <= ask.end
  BY <1>0 DEF CutTo
<1>2. w \in Attempts /\ w.from <= w.to /\ w.from = (next - 1) + 1
  BY <1>1, AskFacts, SizesAssumption DEF FetchInv, Attempts, Blocks
<1>3. queue' = Append(queue, w) /\ next' = CutTo + 1
      /\ UNCHANGED <<ask, pc, current, attempted, logs>> /\ pc = "cutting"
  BY DEF Cut
<1>4. Tiles(queue, ask.start, next - 1) /\ queue \in Seq(Attempts)
  BY <1>3 DEF FetchInv, Tiling, TypeOK
<1>5. queue' \in Seq(Attempts) /\ Tiles(queue', ask.start, w.to)
  <2>1. next - 1 \in Int /\ ask.start \in Int
    BY <1>0
  <2>2. QED
    BY <1>2, <1>3, <1>4, <2>1, TilesAppend
<1>6. TypeOK'
  BY <1>1, <1>3, <1>5, AskFacts DEF FetchInv, TypeOK
<1>7. Tiling'
  <2>1. ask.start <= next' /\ next' <= ask.end + 1 /\ next' - 1 = w.to
    BY <1>0, <1>1, <1>3
  <2>2. Tiles(queue, ask.start, next - 1)'
    BY <1>3, <1>5, <2>1 DEF Tiles
  <2>3. QED
    BY <1>0, <1>3, <2>1, <2>2 DEF Tiling
<1>8. AttemptsCounted'
  <2>1. \A k \in 1 .. Len(queue') : queue'[k].attempt = 1
    BY <1>2, <1>3, <1>4 DEF FetchInv, AttemptsCounted
  <2>2. QED
    BY <1>3, <2>1 DEF FetchInv, AttemptsCounted, LastAttempts
<1>9. QED
  BY <1>3, <1>6, <1>7, <1>8 DEF FetchInv, LogsInOrder

LEMMA AllCutStep ==
  ASSUME FetchInv, AllCut
  PROVE  FetchInv'
<1>1. pc = "cutting" /\ pc' = "looping" /\ next > ask.end
      /\ UNCHANGED <<ask, next, queue, current, attempted, logs>>
  BY DEF AllCut
<1>2. next - 1 = ask.end /\ Frontier = ask.start
  BY <1>1, AskFacts DEF FetchInv, Tiling, TypeOK, Frontier
<1>3. TypeOK' /\ LogsInOrder'
  BY <1>1 DEF FetchInv, TypeOK, LogsInOrder
<1>4. Tiling'
  BY <1>1, <1>2 DEF FetchInv, Tiling, Tiles, Frontier
<1>5. AttemptsCounted'
  <2>1. queue # <<>> => queue[1].attempt = 1
    BY <1>1, AskFacts DEF FetchInv, AttemptsCounted, TypeOK
  <2>2. Len(attempted) \in Nat
    BY DEF FetchInv, TypeOK
  <2>3. queue # <<>> => LastAttempts(queue[1].attempt - 1, queue[1])'
    BY <1>1, <2>1, <2>2 DEF LastAttempts
  <2>4. QED
    BY <1>1, <2>3 DEF FetchInv, AttemptsCounted
<1>6. QED
  BY <1>3, <1>4, <1>5 DEF FetchInv

LEMMA ShiftStep ==
  ASSUME FetchInv, Shift
  PROVE  FetchInv'
<1>1. /\ pc = "looping" /\ pc' = "calling" /\ queue # <<>>
      /\ current' = Head(queue) /\ queue' = Tail(queue)
      /\ attempted' = Append(attempted, Window(Head(queue)))
      /\ UNCHANGED <<ask, next, logs>>
  BY DEF Shift
<1>2. /\ queue' \in Seq(Attempts) /\ current' \in Attempts /\ current' = queue[1]
      /\ current'.from = Frontier /\ current'.from <= current'.to
      /\ Tiles(queue', current'.to + 1, ask.end)
  BY <1>1, TilesTail, AskFacts DEF FetchInv, Tiling, TypeOK
<1>3. Window(current') \in [from : Blocks, to : Blocks]
  BY <1>2 DEF Window, Attempts
<1>4. attempted' \in Seq([from : Blocks, to : Blocks]) /\ Len(attempted') = Len(attempted) + 1
      /\ Len(attempted) \in Nat
      /\ attempted'[Len(attempted) + 1] = Window(current')
      /\ \A k \in 1 .. Len(attempted) : attempted'[k] = attempted[k]
  BY <1>1, <1>3 DEF FetchInv, TypeOK
<1>5. TypeOK' /\ LogsInOrder'
  BY <1>1, <1>2, <1>4 DEF FetchInv, TypeOK, LogsInOrder
<1>6. Tiling'
  BY <1>1, <1>2 DEF Tiling, Frontier
<1>7. AttemptsCounted'
  <2>1. current'.attempt \in Nat /\ current'.attempt >= 1
    BY <1>2, SizesAssumption DEF Attempts
  <2>2. LastAttempts(current'.attempt - 1, current')
    BY <1>1, <1>2 DEF FetchInv, AttemptsCounted
  <2>3. LastAttempts(current.attempt, current)'
    <3>1. current'.attempt <= Len(attempted')
      BY <1>4, <2>1, <2>2 DEF LastAttempts
    <3>2. ASSUME NEW k \in Len(attempted') - current'.attempt + 1 .. Len(attempted')
          PROVE  attempted'[k] = Window(current')
      <4>1. CASE k = Len(attempted')
        BY <1>4, <4>1
      <4>2. CASE k # Len(attempted')
        <5>1. k \in Len(attempted) - (current'.attempt - 1) + 1 .. Len(attempted)
              /\ k \in 1 .. Len(attempted)
          BY <1>4, <2>1, <3>1, <3>2, <4>2
        <5>2. QED
          BY <1>4, <2>2, <5>1 DEF LastAttempts
      <4>3. QED
        BY <4>1, <4>2
    <3>3. QED
      BY <3>1, <3>2 DEF LastAttempts, Window
  <2>4. \A k \in 1 .. Len(queue') : queue'[k].attempt = 1
    <3>1. /\ Len(queue) \in Nat /\ Len(queue') = Len(queue) - 1
          /\ \A k \in 1 .. Len(queue) - 1 : queue'[k] = queue[k + 1]
      BY <1>1 DEF FetchInv, TypeOK
    <3>2. \A k \in 1 .. Len(queue) - 1 : k + 1 \in 1 .. Len(queue) /\ k + 1 > 1
      BY <3>1
    <3>3. QED
      BY <3>1, <3>2 DEF FetchInv, AttemptsCounted
  <2>5. QED
    BY <1>1, <2>3, <2>4 DEF AttemptsCounted
<1>8. QED
  BY <1>5, <1>6, <1>7 DEF FetchInv

LEMMA DeliverStep ==
  ASSUME FetchInv, Deliver
  PROVE  FetchInv'
<1>1. /\ pc = "calling" /\ pc' = "looping" /\ logs' = logs \o LogsOf(current)
      /\ UNCHANGED <<ask, next, queue, current, attempted>>
  BY DEF Deliver
<1>2. /\ current \in Attempts /\ current.from = Frontier /\ current.from <= current.to
      /\ Tiles(queue, current.to + 1, ask.end)
  BY <1>1 DEF FetchInv, Tiling, TypeOK
<1>3. /\ current.from \in Nat /\ current.to \in Nat /\ current.to <= MaxBlock
      /\ Size(current) \in Nat /\ Size(current) = current.to - current.from + 1
  BY <1>2, SizesAssumption DEF Attempts, Blocks, Size
<1>4. /\ LogsOf(current) \in Seq(Blocks) /\ Len(LogsOf(current)) = Size(current)
      /\ \A k \in 1 .. Size(current) : LogsOf(current)[k] = Frontier + k - 1
  <2>1. \A k \in 1 .. Size(current) : current.from + k - 1 \in Blocks
    BY <1>3, SizesAssumption DEF Blocks
  <2>2. PICK n \in Nat : n = Size(current)
    BY <1>3
  <2>3. PICK s : s = [k \in 1 .. n |-> current.from + k - 1]
    OBVIOUS
  <2>4. LogsOf(current) = s
    BY <2>2, <2>3 DEF LogsOf
  <2>5. \A k \in 1 .. n : s[k] = current.from + k - 1 /\ s[k] \in Blocks
    BY <2>1, <2>2, <2>3
  <2>6. s \in Seq(Blocks) /\ Len(s) = n
    BY <2>2, <2>3, <2>5
  <2>7. QED
    BY <1>2, <2>2, <2>4, <2>5, <2>6
<1>5. /\ logs' \in Seq(Blocks) /\ Len(logs') = Len(logs) + Size(current)
      /\ \A k \in 1 .. Len(logs) + Size(current) :
           logs'[k] = IF k <= Len(logs) THEN logs[k] ELSE LogsOf(current)[k - Len(logs)]
  BY <1>1, <1>4, ConcatProperties DEF FetchInv, TypeOK
<1>0. ask.start \in Nat /\ Len(logs) \in Nat /\ Frontier \in Nat
  BY AskFacts DEF FetchInv
<1>6. Frontier' = current.to + 1
  <2>1. Frontier = ask.start + Len(logs) /\ Frontier' = ask.start + Len(logs')
    BY <1>1 DEF Frontier
  <2>2. Len(logs') = Len(logs) + (current.to - current.from + 1)
    BY <1>3, <1>5
  <2>3. Len(logs') = Len(logs) + (current.to - (ask.start + Len(logs)) + 1)
    BY <1>2, <2>1, <2>2
  <2>4. ask.start + Len(logs') = current.to + 1
    <3>1. PICK a \in Nat, n \in Nat, b \in Nat : a = ask.start /\ n = Len(logs) /\ b = current.to
      BY <1>0, <1>3
    <3>2. Len(logs') = n + (b - (a + n) + 1)
      BY <2>3, <3>1
    <3>3. a + (n + (b - (a + n) + 1)) = b + 1
      OBVIOUS
    <3>4. QED
      BY <3>1, <3>2, <3>3
  <2>5. QED
    BY <2>1, <2>4
<1>7. LogsInOrder'
  <2>1. ASSUME NEW k \in 1 .. Len(logs')
        PROVE  logs'[k] = ask.start + k - 1
    <3>1. CASE k <= Len(logs)
      <4>1. k \in 1 .. Len(logs) /\ k \in 1 .. Len(logs) + Size(current)
        BY <1>3, <3>1, AskFacts DEF FetchInv
      <4>2. logs[k] = ask.start + k - 1
        BY <4>1 DEF FetchInv, LogsInOrder
      <4>3. QED
        BY <1>5, <3>1, <4>1, <4>2
    <3>2. CASE k > Len(logs)
      <4>1. k - Len(logs) \in 1 .. Size(current)
        BY <1>0, <1>3, <1>5, <3>2
      <4>2. logs'[k] = Frontier + (k - Len(logs)) - 1
        BY <1>3, <1>4, <1>5, <3>2, <4>1, AskFacts DEF FetchInv
      <4>3. QED
        BY <4>2, AskFacts DEF FetchInv, Frontier
    <3>3. QED
      BY <3>1, <3>2, <1>3, <1>5, AskFacts DEF FetchInv
  <2>2. logs' = [k \in 1 .. Len(logs') |-> logs'[k]]
    BY <1>5
  <2>3. QED
    BY <1>1, <2>1, <2>2 DEF LogsInOrder
<1>8. TypeOK'
  BY <1>1, <1>5 DEF FetchInv, TypeOK
<1>9. Tiling'
  BY <1>1, <1>2, <1>6 DEF Tiling, Tiles
<1>10. AttemptsCounted'
  <2>1. Len(attempted) \in Nat
    BY DEF FetchInv, TypeOK
  <2>2. queue # <<>> => queue[1].attempt = 1
    BY <1>1 DEF FetchInv, AttemptsCounted
  <2>3. QED
    BY <1>1, <2>1, <2>2 DEF FetchInv, AttemptsCounted, LastAttempts
<1>11. QED
  BY <1>7, <1>8, <1>9, <1>10 DEF FetchInv

LEMMA SplitStep ==
  ASSUME FetchInv, Split
  PROVE  FetchInv'
<1> DEFINE first == Halves(current)[1]
           second == Halves(current)[2]
<1>1. /\ pc = "calling" /\ pc' = "looping" /\ Size(current) > MinWindowSize
      /\ queue' = Halves(current) \o queue
      /\ UNCHANGED <<ask, next, current, attempted, logs>>
  BY DEF Split
<1>2. /\ current \in Attempts /\ queue \in Seq(Attempts)
      /\ current.from = Frontier /\ Tiles(queue, current.to + 1, ask.end)
      /\ ask.end \in Int
  BY <1>1, AskFacts DEF FetchInv, Tiling, TypeOK
<1>3. /\ first \in Attempts /\ second \in Attempts
      /\ first.from = current.from /\ second.to = current.to
      /\ first.from <= first.to /\ second.from <= second.to
      /\ second.from = first.to + 1
      /\ first.attempt = 1 /\ second.attempt = 1
      /\ queue' = <<first>> \o (<<second>> \o queue)
  BY <1>1, <1>2, HalvesFacts
<1> HIDE DEF first, second
<1>4. /\ <<second>> \o queue \in Seq(Attempts)
      /\ Len(<<second>> \o queue) = Len(queue) + 1
      /\ (<<second>> \o queue)[1] = second
      /\ \A k \in 2 .. Len(queue) + 1 : (<<second>> \o queue)[k] = queue[k - 1]
      /\ Tiles(<<second>> \o queue, first.to + 1, ask.end)
  BY <1>2, <1>3, TilesCons
<1>5. /\ queue' \in Seq(Attempts)
      /\ Len(queue') = Len(queue) + 2
      /\ queue'[1] = first
      /\ \A k \in 2 .. Len(queue) + 2 : queue'[k] = (<<second>> \o queue)[k - 1]
      /\ Tiles(queue', Frontier, ask.end)
  <2> DEFINE q == <<second>> \o queue
  <2>1. q \in Seq(Attempts) /\ Len(q) = Len(queue) + 1 /\ Tiles(q, first.to + 1, ask.end)
        /\ queue' = <<first>> \o q /\ Len(queue) \in Nat
    BY <1>2, <1>3, <1>4
  <2> HIDE DEF q
  <2>2. /\ <<first>> \o q \in Seq(Attempts)
        /\ Len(<<first>> \o q) = Len(q) + 1
        /\ (<<first>> \o q)[1] = first
        /\ \A k \in 2 .. Len(q) + 1 : (<<first>> \o q)[k] = q[k - 1]
        /\ Tiles(<<first>> \o q, first.from, ask.end)
    BY <1>2, <1>3, <2>1, TilesCons
  <2>3. Len(q) + 1 = Len(queue) + 2
    BY <2>1
  <2>4. QED
    BY <1>2, <1>3, <2>1, <2>2, <2>3 DEF q
<1>6. TypeOK' /\ LogsInOrder' /\ Tiling'
  BY <1>1, <1>2, <1>5 DEF FetchInv, TypeOK, LogsInOrder, Tiling, Frontier, Tiles
<1>7. AttemptsCounted'
  <2>1. Len(attempted) \in Nat /\ Len(queue) \in Nat
    BY DEF FetchInv, TypeOK
  <2>2. \A k \in 1 .. Len(queue) : queue[k].attempt = 1
    BY <1>1 DEF FetchInv, AttemptsCounted
  <2>3. ASSUME NEW k \in 2 .. Len(queue) + 2 PROVE queue'[k].attempt = 1
    <3>1. CASE k = 2
      BY <1>3, <1>4, <1>5, <2>1, <3>1
    <3>2. CASE k > 2
      <4>1. k - 1 \in 2 .. Len(queue) + 1 /\ (k - 1) - 1 \in 1 .. Len(queue)
        BY <2>1, <3>2
      <4>2. QED
        BY <1>4, <1>5, <2>2, <4>1
    <3>3. QED
      BY <3>1, <3>2
  <2>4. LastAttempts(queue[1].attempt - 1, queue[1])'
    BY <1>1, <1>3, <1>5, <2>1 DEF LastAttempts
  <2>5. QED
    BY <1>1, <1>5, <2>1, <2>3, <2>4 DEF AttemptsCounted
<1>8. QED
  BY <1>6, <1>7 DEF FetchInv

LEMMA RetryStep ==
  ASSUME FetchInv, Retry
  PROVE  FetchInv'
<1> DEFINE w == [current EXCEPT !.attempt = @ + 1]
<1>1. /\ pc = "calling" /\ pc' = "looping" /\ current.attempt < MaxAttempts
      /\ queue' = <<w>> \o queue
      /\ UNCHANGED <<ask, next, current, attempted, logs>>
  BY DEF Retry
<1>2. /\ current \in Attempts /\ queue \in Seq(Attempts)
      /\ current.from = Frontier /\ current.from <= current.to
      /\ Tiles(queue, current.to + 1, ask.end) /\ ask.end \in Int
  BY <1>1, AskFacts DEF FetchInv, Tiling, TypeOK
<1>3. /\ w \in Attempts /\ w.from = current.from /\ w.to = current.to
      /\ w.attempt = current.attempt + 1 /\ w.attempt - 1 = current.attempt
      /\ Window(w) = Window(current)
  <2>1. /\ current.from \in Blocks /\ current.to \in Blocks
        /\ current.attempt \in Nat /\ current.attempt + 1 \in 1 .. MaxAttempts
    BY <1>1, <1>2, SizesAssumption DEF Attempts
  <2>2. w = [from |-> current.from, to |-> current.to, attempt |-> current.attempt + 1]
    BY <1>2 DEF Attempts
  <2>3. w.from = current.from /\ w.to = current.to /\ w.attempt = current.attempt + 1
    BY <2>2
  <2>4. w \in Attempts
    BY <2>1, <2>2 DEF Attempts
  <2>5. QED
    BY <2>1, <2>3, <2>4 DEF Window
<1> HIDE DEF w
<1>4. /\ queue' \in Seq(Attempts)
      /\ Len(queue') = Len(queue) + 1
      /\ queue'[1] = w
      /\ \A k \in 2 .. Len(queue) + 1 : queue'[k] = queue[k - 1]
      /\ Tiles(queue', Frontier, ask.end)
  BY <1>1, <1>2, <1>3, TilesCons
<1>5. TypeOK' /\ LogsInOrder' /\ Tiling'
  BY <1>1, <1>2, <1>4 DEF FetchInv, TypeOK, LogsInOrder, Tiling, Frontier, Tiles
<1>6. AttemptsCounted'
  <2>1. Len(queue) \in Nat
    BY DEF FetchInv, TypeOK
  <2>2. \A k \in 1 .. Len(queue) : queue[k].attempt = 1
    BY <1>1 DEF FetchInv, AttemptsCounted
  <2>3. \A k \in 2 .. Len(queue) + 1 : k - 1 \in 1 .. Len(queue)
    BY <2>1
  <2>4. \A k \in 2 .. Len(queue) + 1 : queue'[k].attempt = 1
    BY <1>4, <2>2, <2>3
  <2>5. LastAttempts(current.attempt, current)
    BY <1>1 DEF FetchInv, AttemptsCounted
  <2>6. LastAttempts(queue[1].attempt - 1, queue[1])'
    BY <1>1, <1>3, <1>4, <2>5 DEF LastAttempts
  <2>7. QED
    BY <1>1, <1>4, <2>1, <2>4, <2>6 DEF AttemptsCounted
<1>7. QED
  BY <1>5, <1>6 DEF FetchInv

LEMMA EndStep ==
  ASSUME FetchInv, GiveUp \/ Return
  PROVE  FetchInv'
<1>1. UNCHANGED <<ask, next, queue, current, attempted, logs>>
      /\ pc' \in {"done", "failed"}
  BY DEF GiveUp, Return
<1>2. TypeOK' /\ LogsInOrder'
  BY <1>1 DEF FetchInv, TypeOK, LogsInOrder
<1>3. CASE GiveUp
  <2>1. pc = "calling" /\ pc' = "failed" /\ Size(current) <= MinWindowSize
        /\ current.attempt = MaxAttempts
    BY <1>3 DEF GiveUp
  <2>2. Tiling'
    BY <2>1 DEF Tiling
  <2>3. AttemptsCounted'
    BY <1>1, <2>1 DEF FetchInv, AttemptsCounted, LastAttempts
  <2>4. QED
    BY <1>2, <2>2, <2>3 DEF FetchInv
<1>4. CASE Return
  <2>1. pc = "looping" /\ pc' = "done" /\ Len(queue) = 0
    BY <1>4 DEF Return
  <2>2. Frontier = ask.end + 1
    BY <2>1 DEF FetchInv, Tiling, Tiles
  <2>3. Tiling'
    BY <1>1, <2>1, <2>2 DEF Tiling, Frontier
  <2>4. AttemptsCounted'
    BY <1>1, <2>1 DEF FetchInv, AttemptsCounted
  <2>5. QED
    BY <1>2, <2>3, <2>4 DEF FetchInv
<1>5. QED
  BY <1>3, <1>4

(* The strengthened invariant is inductive.                                 *)
THEOREM FetchInvariance == Spec => []FetchInv
<1>1. Init => FetchInv
  <2> SUFFICES ASSUME Init PROVE FetchInv
    OBVIOUS
  <2>1. ask \in Asks /\ next = ask.start /\ queue = <<>> /\ attempted = <<>> /\ logs = <<>>
        /\ pc = "cutting" /\ current = [from |-> 0, to |-> 0, attempt |-> 1]
    BY DEF Init
  <2>2. TypeOK
    BY <2>1, SizesAssumption DEF TypeOK, Asks, Blocks, Attempts
  <2>3. Tiling
    BY <2>1, SizesAssumption DEF Tiling, Tiles, Asks, Blocks
  <2>4. LogsInOrder /\ AttemptsCounted
    BY <2>1 DEF LogsInOrder, AttemptsCounted
  <2>5. QED
    BY <2>2, <2>3, <2>4 DEF FetchInv
<1>2. FetchInv /\ [Next]_vars => FetchInv'
  <2> SUFFICES ASSUME FetchInv, [Next]_vars PROVE FetchInv'
    OBVIOUS
  <2>1. CASE UNCHANGED vars
    BY <2>1 DEF vars, FetchInv, TypeOK, Tiling, Tiles, Frontier, LogsInOrder, AttemptsCounted,
                LastAttempts
  <2>2. QED
    BY <2>1, CutStep, AllCutStep, ShiftStep, DeliverStep, SplitStep, RetryStep, EndStep
       DEF Next
<1>3. QED
  BY <1>1, <1>2, PTL DEF Spec

(* The type invariant of the fetch.                                         *)
THEOREM FetchTyped == Spec => []TypeOK
<1>1. FetchInv => TypeOK
  BY DEF FetchInv
<1>2. QED
  BY <1>1, FetchInvariance, PTL

(* However fetchLogsWithAdaptiveRetry splits and retries, what it has       *)
(* received is the beginning of the range, in order and without repeats.    *)
THEOREM InOrder == Spec => []LogsInOrder
<1>1. FetchInv => LogsInOrder
  BY DEF FetchInv
<1>2. QED
  BY <1>1, FetchInvariance, PTL

(* When it returns, that beginning is the whole range.                      *)
THEOREM Whole == Spec => []ReturnsWholeRange
<1>1. FetchInv => ReturnsWholeRange
  BY AskFacts DEF FetchInv, Tiling, Frontier, ReturnsWholeRange
<1>2. QED
  BY <1>1, FetchInvariance, PTL

(* When it throws, the smallest window it could make of the failing part    *)
(* was refused maxAttemptsPerWindow times in succession.                    *)
THEOREM AtFloor == Spec => []GivesUpAtFloor
<1>1. FetchInv => GivesUpAtFloor
  BY DEF FetchInv, AttemptsCounted, LastAttempts, GivesUpAtFloor
<1>2. QED
  BY <1>1, FetchInvariance, PTL
=============================================================================
