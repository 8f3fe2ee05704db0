------------------------ MODULE Dissemination_proofs ------------------------
(***************************************************************************)
(* The unique-id bootstrap, for any number of ranks, any program of        *)
(* collectives and whatever times out.                                     *)
(*                                                                         *)
(* Two inductive invariants lie on each other.  InitInv holds whatever     *)
(* times out: only the rank before connects to a rank that has no ring     *)
(* yet, so the ring is closed as the root planned it, and until a rank has *)
(* every address the stream to it holds those of its init only, in the     *)
(* order in which they go around.                                          *)
(*                                                                         *)
(* InTimeInv holds as long as nothing times out and counts: the slices in  *)
(* a stream are those the sender's calls have sent less those the reader's *)
(* have read, and what of a round waits at a rank, accepted or not, is     *)
(* what one has sent of it and the other not received, although the tags   *)
(* are the same in every barrier.  In round k of a barrier a rank knows of *)
(* the Shift[k] ranks before it that they have come, and a message of the  *)
(* round tells it of as many before the sender.                            *)
(***************************************************************************)
EXTENDS UidBootstrap, CoreBarrierPromise, FiniteSetTheorems, SequenceTheorems, WellFoundedInduction, TLAPS

\* Where a rank is in its init, in a gather (the first is the one of the init) and
\* in a barrier.
Joining == {"idle", "connect", "version", "next", "ring"}
Gathering == {"gatherSend", "gatherRecv"}
Meeting == {"barrierSend", "barrierRecv"}
Places == Joining \cup Gathering \cup Meeting \cup {"ready", "closed", "failed"}

\* What streams and lists of connections hold, and where the root may be.
Slices == [call : Nat, owner : Ranks]
Messages == [from : Ranks, tag : Nat]
Roots == [at : {"absent", "collect", "version", "info", "answer", "ended"}, client : Ranks]

\* The variables hold what their types say.
TypeOK ==
  /\ root \in Roots
  /\ rootBacklog \in Seq(Ranks)
  /\ pc \in [Ranks -> Places]
  /\ next \in [Ranks -> 0..nranks]
  /\ backlog \in [Ranks -> Seq(Messages)]
  /\ unexpected \in [Ranks -> Seq(Messages)]
  /\ ring \in [Ranks -> 0..nranks]
  /\ stream \in [Ranks -> Seq(Slices)]
  /\ out \in [Ranks -> [Ranks -> [call : Nat, owner : 0..nranks]]]
  /\ peers \in [Ranks -> [Ranks -> 0..nranks]]
  /\ step \in [Ranks -> Nat]
  /\ calls \in [Ranks -> 0..Len(Program)]
  /\ done \in [Ranks -> -1..Len(Program)]
  /\ timeOuts \in Nat
  /\ refused \subseteq Ranks

-----------------------------------------------------------------------------
\* The gather of the init is call 0.
Kind(k) == IF k = 0 THEN "gather" ELSE Program[k]

\* A rank's place and what it has done so far.
PlaceIs(r) ==
  /\ next[r] \in {nranks, Next(r)}
  /\ ring[r] \in {nranks, Minus(r, 1)}
  /\ pc[r] \in Joining => ring[r] = nranks /\ done[r] = -1 /\ step[r] = 0
  /\ pc[r] \in {"ring"} => next[r] = Next(r)
  /\ ring[r] = nranks => stream[r] = <<>> /\ pc[r] \in Joining \cup {"failed"} /\ step[r] = 0
  /\ pc[r] \in Gathering => Kind(calls[r]) = "gather" /\ step[r] < nranks - 1 /\ next[r] = Next(r)
  /\ pc[r] \in Gathering => out[r][Minus(r, step[r])].owner \in Ranks
  /\ pc[r] \in Meeting => calls[r] > 0 /\ Kind(calls[r]) = "barrier"
  /\ done[r] = -1 => calls[r] = 0 /\ pc[r] \in Joining \cup Gathering \cup {"failed"}
  /\ done[r] >= 0 => next[r] = Next(r) /\ pc[r] \notin Joining \cup {"failed"} /\ peers[r] = [s \in Ranks |-> s]
  /\ done[r] >= 0 /\ calls[r] = 0 => pc[r] \in {"ready", "closed"}
  /\ step[r] < nranks

\* Who connects to a rank that has no ring yet is the one before it.
RingIsFree(r) ==
  ring[r] = nranks =>
    \A i \in DOMAIN backlog[r] : backlog[r][i] = [from |-> Minus(r, 1), tag |-> 0]

\* Data of a rank are about only when it has its ring.
Heard ==
  /\ \A q \in Ranks : done[q] >= 0 => \A s \in Ranks : ring[s] # nranks
  /\ \A q \in Ranks : \A i \in DOMAIN stream[q] : ring[stream[q][i].owner] # nranks
  /\ \A q, s \in Ranks : out[q][s].owner # nranks => ring[out[q][s].owner] # nranks

\* The gather of the init between a rank and the one before it.
Addresses(r) ==
  LET p == Minus(r, 1)
  IN  done[r] = -1 =>
        /\ pc[r] \in Gathering =>
             \A d \in 0..step[r] : out[r][Minus(r, d)] = Slice(0, Minus(r, d))
        /\ \A i \in 1..Len(stream[p]) :
             step[r] + i < nranks => stream[p][i] = Slice(0, Minus(p, step[r] + i - 1))
        /\ done[p] >= 0 => step[r] + Len(stream[p]) >= nranks - 1
        /\ done[p] = -1 /\ pc[p] = "gatherSend" => step[r] + Len(stream[p]) = step[p]
        /\ done[p] = -1 /\ pc[p] = "gatherRecv" => step[r] + Len(stream[p]) = step[p] + 1
        /\ ring[p] = nranks => step[r] = 0

\* The inductive invariant of the init, which no timeout disturbs.
InitInv ==
  /\ TypeOK /\ Heard
  /\ \A r \in Ranks : PlaceIs(r) /\ RingIsFree(r) /\ Addresses(r)

-----------------------------------------------------------------------------
\* The collectives of a kind before call k.
Before(kind, k) == Cardinality({j \in 0..k - 1 : Kind(j) = kind})

\* The rounds of a barrier.
Rounds == {k \in 0..nranks : Shift[k] < nranks}

\* A rank in time has failed in nothing and returned from each call before its last.
InTime(r) ==
  /\ pc[r] # "failed" /\ refused = {}
  /\ pc[r] \in {"ready", "closed"} => done[r] = calls[r]
  /\ pc[r] \in Gathering \cup Meeting => done[r] = calls[r] - 1
  /\ pc[r] \in Meeting => Shift[step[r]] < nranks
  /\ pc[r] = "closed" => calls[r] = Len(Program)

\* The slices a rank has sent to and read from the ring.
SlicesBefore(k) == (nranks - 1) * Before("gather", k)
SlicesSent(r) ==
  IF pc[r] \in {"ready", "closed"} THEN SlicesBefore(calls[r] + 1)
  ELSE SlicesBefore(calls[r]) + (IF pc[r] = "gatherSend" THEN step[r]
                                 ELSE IF pc[r] = "gatherRecv" THEN step[r] + 1 ELSE 0)
SlicesRead(r) ==
  IF pc[r] \in {"ready", "closed"} THEN SlicesBefore(calls[r] + 1)
  ELSE SlicesBefore(calls[r]) + (IF pc[r] \in Gathering THEN step[r] ELSE 0)

\* What is in the stream to a rank: what was sent and not read, each slice at the
\* place of its step in its gather.
StreamIs(r) ==
  LET p == Minus(r, 1)
  IN  /\ Len(stream[p]) = SlicesSent(p) - SlicesRead(r)
      /\ \A k \in 0..Len(Program), d \in 0..nranks - 2, i \in 1..Len(stream[p]) :
           Kind(k) = "gather" /\ SlicesBefore(k) + d = SlicesRead(r) + i - 1
             => stream[p][i] = Slice(k, Minus(p, d))

\* What a gather has so far, and in the end.
OutIs(r) ==
  /\ pc[r] \in Gathering =>
       \A d \in 0..step[r] : out[r][Minus(r, d)] = Slice(calls[r], Minus(r, d))
  /\ pc[r] = "ready" /\ Kind(calls[r]) = "gather" =>
       \A s \in Ranks : out[r][s] = Slice(calls[r], s)

\* How often a message is in a list of connections.
Count(seq, m) == Cardinality({i \in DOMAIN seq : seq[i] = m})

\* The messages of a round a rank has sent and received.
SentIn(r, k) ==
  Before("barrier", calls[r])
  + IF \/ pc[r] \in Meeting /\ (k < step[r] \/ (k = step[r] /\ pc[r] = "barrierRecv"))
       \/ pc[r] \in {"ready", "closed"} /\ Kind(calls[r]) = "barrier" THEN 1 ELSE 0
ReceivedIn(r, k) ==
  Before("barrier", calls[r])
  + IF \/ pc[r] \in Meeting /\ k < step[r]
       \/ pc[r] \in {"ready", "closed"} /\ Kind(calls[r]) = "barrier" THEN 1 ELSE 0

\* The messages that come to a rank: one from each round, and the one for the ring.
RoundMessage(r, k) == [from |-> Minus(r, Shift[k]), tag |-> k + 1]
RingMessage(r) == [from |-> Minus(r, 1), tag |-> 0]

\* A rank has connected to the next one.
Connected(r) == pc[r] \notin Joining \ {"ring"}

\* What came to a rank and was not taken is what was sent in each round less what
\* was received, in either list, and the connection for the ring.
MessagesAre(r) ==
  /\ \A k \in Rounds :
       Count(backlog[r], RoundMessage(r, k)) + Count(unexpected[r], RoundMessage(r, k))
         = SentIn(Minus(r, Shift[k]), k) - ReceivedIn(r, k)
  /\ Count(backlog[r], RingMessage(r)) =
       (IF Connected(Minus(r, 1)) THEN 1 ELSE 0) - (IF ring[r] # nranks THEN 1 ELSE 0)
  /\ \A i \in DOMAIN backlog[r] :
       \/ backlog[r][i] = RingMessage(r)
       \/ \E k \in Rounds : backlog[r][i] = RoundMessage(r, k)
  /\ \A i \in DOMAIN unexpected[r] : \E k \in Rounds : unexpected[r][i] = RoundMessage(r, k)

\* Who has come to the barrier a rank is in, or has passed.
CameTo(r) ==
  /\ pc[r] \in Meeting =>
       \A d \in 0..nranks - 1 : d < Shift[step[r]] => calls[Minus(r, d)] >= calls[r]
  /\ \A j \in 1..Len(Program), q \in Ranks :
       /\ Kind(j) = "barrier"
       /\ j < calls[r] \/ (j = calls[r] /\ pc[r] \in {"ready", "closed"})
       => calls[q] >= j

\* The inductive invariant as long as nothing times out.
AllInTime ==
  \A r \in Ranks : InTime(r) /\ StreamIs(r) /\ OutIs(r) /\ MessagesAre(r) /\ CameTo(r)

InTimeInv == timeOuts = 0 => AllInTime
-----------------------------------------------------------------------------
(* Shifts, and ranks around the ring. *)

\* Induction, for a set of numbers.
LEMMA InductionOnSets ==
  ASSUME NEW S, 0 \in S, \A n \in Nat : n \in S => n + 1 \in S
  PROVE  Nat \subseteq S
<1> DEFINE R == OpToRel(<, Nat)
           T == Nat \ S
<1>1. IsWellFoundedOn(R, Nat)
  BY NatLessThanWellFounded
<1>2. \A x, y \in Nat : <<x, y>> \in R <=> x < y
  BY DEF OpToRel
<1> HIDE DEF R
<1>3. SUFFICES ASSUME T # {} PROVE FALSE
  OBVIOUS
<1>4. PICK x \in T : \A y \in T : ~(<<y, x>> \in R)
  <2>1. T \subseteq Nat
    OBVIOUS
  <2> HIDE DEF T
  <2> QED BY <1>1, <1>3, <2>1, WFMin
<1>5. x # 0 /\ x - 1 \in Nat /\ x - 1 < x
  OBVIOUS
<1>6. x - 1 \notin T
  BY <1>2, <1>4, <1>5
<1>7. x - 1 \in S /\ x = (x - 1) + 1
  BY <1>5, <1>6
<1> QED BY <1>5, <1>7

\* The shifts of the first rounds.
Doubles(f, n) == \A k \in 0..n : f[k] = IF k = 0 THEN 1 ELSE 2 * f[k - 1]

\* Whatever doubles up to a round is the same up to it.
LEMMA DoublesOnce ==
  ASSUME NEW f, NEW g, NEW n \in Nat, Doubles(f, n), Doubles(g, n)
  PROVE  \A k \in 0..n : f[k] = g[k]
<1> DEFINE S == {k \in Nat : k <= n => f[k] = g[k]}
<1>1. 0 \in S
  BY DEF Doubles
<1>2. ASSUME NEW k \in Nat, k \in S PROVE k + 1 \in S
  <2> SUFFICES ASSUME k + 1 <= n PROVE f[k + 1] = g[k + 1]
    OBVIOUS
  <2>1. f[k] = g[k] /\ k + 1 \in 0..n /\ k + 1 # 0 /\ (k + 1) - 1 = k
    BY <1>2
  <2> QED BY <2>1 DEF Doubles
<1> HIDE DEF S
<1>3. Nat \subseteq S
  BY <1>1, <1>2, InductionOnSets
<1> QED BY <1>3 DEF S

\* There is something that doubles,
LEMMA DoublesExist == \A n \in Nat : \E f : Doubles(f, n)
<1> DEFINE S == {n \in Nat : \E f : Doubles(f, n)}
<1>1. 0 \in S
  <2>1. Doubles([k \in {0} |-> 1], 0)
    BY DEF Doubles
  <2> QED BY <2>1
<1>2. ASSUME NEW n \in Nat, n \in S PROVE n + 1 \in S
  <2>1. PICK f : Doubles(f, n)
    BY <1>2
  <2> DEFINE g == [k \in 0..n + 1 |-> IF k <= n THEN f[k] ELSE 2 * f[n]]
  <2>2. \A k \in 0..n : g[k] = f[k]
    OBVIOUS
  <2>3. g[n + 1] = 2 * g[n]
    OBVIOUS
  <2> HIDE DEF g
  <2>4. ASSUME NEW k \in 0..n + 1 PROVE g[k] = IF k = 0 THEN 1 ELSE 2 * g[k - 1]
    <3>1. CASE k = n + 1
      BY <2>3, <3>1
    <3>2. CASE k \in 0..n
      <4>1. g[k] = f[k] /\ (k # 0 => g[k - 1] = f[k - 1])
        BY <2>2, <3>2
      <4>2. f[k] = IF k = 0 THEN 1 ELSE 2 * f[k - 1]
        BY <2>1, <3>2 DEF Doubles
      <4> QED BY <4>1, <4>2
    <3> QED BY <3>1, <3>2
  <2>5. Doubles(g, n + 1)
    BY <2>4 DEF Doubles
  <2> QED BY <2>5
<1> HIDE DEF S
<1>3. Nat \subseteq S
  BY <1>1, <1>2, InductionOnSets
<1> QED BY <1>3 DEF S

\* and the shifts do.
LEMMA ShiftDoubles ==
  /\ Shift[0] = 1
  /\ \A k \in Nat : Shift[k + 1] = 2 * Shift[k]
<1> DEFINE up(n) == CHOOSE f : Doubles(f, n)
           h == [k \in Nat |-> up(k)[k]]
<1>1. ASSUME NEW n \in Nat PROVE Doubles(up(n), n)
  BY DoublesExist
<1> HIDE DEF up
<1>2. ASSUME NEW k \in Nat PROVE h[k] = IF k = 0 THEN 1 ELSE 2 * h[k - 1]
  <2>1. CASE k = 0
    BY <1>1, <2>1 DEF Doubles
  <2>2. CASE k # 0
    <3>1. k - 1 \in Nat
      BY <2>2
    <3>2. up(k)[k] = 2 * up(k)[k - 1]
      BY <1>1, <2>2 DEF Doubles
    <3>3. Doubles(up(k), k - 1)
      BY <1>1, <3>1 DEF Doubles
    <3>4. Doubles(up(k - 1), k - 1)
      BY <1>1, <3>1
    <3>5. up(k)[k - 1] = up(k - 1)[k - 1]
      BY <3>1, <3>3, <3>4, DoublesOnce
    <3> QED BY <2>2, <3>1, <3>2, <3>5
  <2> QED BY <2>1, <2>2
<1>3. h = [k \in Nat |-> h[k]]
  OBVIOUS
<1> HIDE DEF h
<1>4. h = [k \in Nat |-> IF k = 0 THEN 1 ELSE 2 * h[k - 1]]
  BY <1>2, <1>3
<1>5. Shift = [k \in Nat |-> IF k = 0 THEN 1 ELSE 2 * Shift[k - 1]]
  BY <1>4 DEF Shift
<1>6. Shift[0] = 1
  BY <1>5
<1>7. ASSUME NEW k \in Nat PROVE Shift[k + 1] = 2 * Shift[k]
  <2>1. k + 1 \in Nat /\ k + 1 # 0 /\ (k + 1) - 1 = k
    OBVIOUS
  <2> QED BY <1>5, <2>1
<1> QED BY <1>6, <1>7

\* A shift is larger than the number of its round,
LEMMA ShiftIsLarge == \A k \in Nat : Shift[k] \in Nat /\ Shift[k] > k
<1> DEFINE S == {k \in Nat : Shift[k] \in Nat /\ Shift[k] > k}
<1>1. 0 \in S
  BY ShiftDoubles
<1>2. ASSUME NEW k \in Nat, k \in S PROVE k + 1 \in S
  BY <1>2, ShiftDoubles
<1> HIDE DEF S
<1>3. Nat \subseteq S
  BY <1>1, <1>2, InductionOnSets
<1> QED BY <1>3 DEF S

\* and not smaller than that of a round before.
LEMMA ShiftGrows == \A j, k \in Nat : j <= k => Shift[j] <= Shift[k]
<1> SUFFICES ASSUME NEW j \in Nat PROVE \A k \in Nat : j <= k => Shift[j] <= Shift[k]
  OBVIOUS
<1> DEFINE S == {k \in Nat : j <= k => Shift[j] <= Shift[k]}
<1>1. 0 \in S
  <2>1. j <= 0 => j = 0
    OBVIOUS
  <2>2. Shift[0] <= Shift[0]
    BY ShiftIsLarge
  <2> QED BY <2>1, <2>2
<1>2. ASSUME NEW k \in Nat, k \in S PROVE k + 1 \in S
  <2>1. Shift[k] \in Nat /\ Shift[j] \in Nat /\ Shift[k + 1] = 2 * Shift[k]
    BY ShiftDoubles, ShiftIsLarge
  <2>2. j <= k + 1 => j <= k \/ j = k + 1
    OBVIOUS
  <2> QED BY <1>2, <2>1, <2>2
<1> HIDE DEF S
<1>3. Nat \subseteq S
  BY <1>1, <1>2, InductionOnSets
<1> QED BY <1>3 DEF S

\* Going on or back in a ring of n passes the end at most once.
LEMMA AroundTheRing ==
  ASSUME NEW n \in Nat \ {0}, NEW r \in 0..n - 1, NEW d \in 0..n
  PROVE  /\ (r + n - d) % n = IF d <= r THEN r - d ELSE r + n - d
         /\ (r + d) % n = IF r + d < n THEN r + d ELSE r + d - n
<1>1. \A x \in Int : 0 <= x /\ x < n => x % n = x /\ (x + n) % n = x
  OBVIOUS
<1>2. d <= r => r - d >= 0 /\ r - d < n /\ r + n - d = (r - d) + n
  OBVIOUS
<1>3. ~(d <= r) => r + n - d >= 0 /\ r + n - d < n
  OBVIOUS
<1>4. ~(r + d < n) => r + d - n >= 0 /\ r + d - n < n /\ r + d = (r + d - n) + n
  OBVIOUS
<1>5. r + d < n => (r + d) % n = r + d
  BY <1>1
<1>6. ~(r + d < n) => (r + d) % n = r + d - n
  BY <1>1, <1>4
<1>7. d <= r => (r + n - d) % n = r - d
  BY <1>1, <1>2
<1>8. ~(d <= r) => (r + n - d) % n = r + n - d
  BY <1>1, <1>3
<1> QED BY <1>5, <1>6, <1>7, <1>8

\* Who is d before and who is next.
LEMMA MinusIs ==
  ASSUME NEW r \in Ranks, NEW d \in 0..nranks
  PROVE  /\ Minus(r, d) = IF d <= r THEN r - d ELSE r + nranks - d
         /\ Minus(r, d) \in Ranks
         /\ Next(r) = IF r + 1 < nranks THEN r + 1 ELSE 0
         /\ Next(r) \in Ranks
<1>1. nranks \in Nat \ {0} /\ r \in 0..nranks - 1 /\ 1 \in 0..nranks
  BY UidAssumption DEF Ranks
<1>2. Minus(r, d) = IF d <= r THEN r - d ELSE r + nranks - d
  BY <1>1, AroundTheRing DEF Minus
<1>3. Next(r) = IF r + 1 < nranks THEN r + 1 ELSE r + 1 - nranks
  BY <1>1, AroundTheRing DEF Next
<1> QED BY <1>1, <1>2, <1>3 DEF Ranks

\* The ring has one rank before each and one after,
LEMMA RingOfRanks ==
  /\ \A r \in Ranks : /\ Next(r) \in Ranks /\ Minus(r, 1) \in Ranks
                      /\ Minus(Next(r), 1) = r /\ Next(Minus(r, 1)) = r
                      /\ Minus(r, 1) # r /\ Next(r) # r /\ Minus(r, 0) = r
  /\ \A r \in Ranks, d \in 0..nranks : Minus(r, d) \in Ranks
<1>1. nranks \in Nat /\ nranks >= 2 /\ Ranks = 0..nranks - 1
  BY UidAssumption DEF Ranks
<1>2. ASSUME NEW r \in Ranks
      PROVE  /\ Next(r) \in Ranks /\ Minus(r, 1) \in Ranks
             /\ Minus(Next(r), 1) = r /\ Next(Minus(r, 1)) = r
             /\ Minus(r, 1) # r /\ Next(r) # r /\ Minus(r, 0) = r
  <2>1. 1 \in 0..nranks /\ 0 \in 0..nranks
    BY <1>1
  <2>2. /\ Minus(r, 1) = IF 1 <= r THEN r - 1 ELSE r + nranks - 1
        /\ Minus(r, 1) \in Ranks
        /\ Next(r) = IF r + 1 < nranks THEN r + 1 ELSE 0
        /\ Next(r) \in Ranks
    BY <2>1, MinusIs
  <2>3. Minus(Next(r), 1) = IF 1 <= Next(r) THEN Next(r) - 1 ELSE Next(r) + nranks - 1
    BY <2>1, <2>2, MinusIs
  <2>4. Next(Minus(r, 1)) = IF Minus(r, 1) + 1 < nranks THEN Minus(r, 1) + 1 ELSE 0
    BY <2>1, <2>2, MinusIs
  <2>5. Minus(r, 0) = r
    <3>1. Minus(r, 0) = IF 0 <= r THEN r - 0 ELSE r + nranks - 0
      BY <2>1, MinusIs
    <3> QED BY <1>1, <3>1
  <2> QED BY <1>1, <2>2, <2>3, <2>4, <2>5
<1> QED BY <1>2, MinusIs

\* and every rank is somewhere before each.
LEMMA BackAround ==
  /\ \A r \in Ranks, s \in Ranks : \E d \in 0..nranks - 1 : s = Minus(r, d)
  /\ \A r \in Ranks, d, e \in 0..nranks - 1 : Minus(r, d) = Minus(r, e) => d = e
  /\ \A r \in Ranks, d, e \in 0..nranks - 1 : d + e < nranks => Minus(Minus(r, d), e) = Minus(r, d + e)
<1>1. nranks \in Nat /\ nranks >= 2 /\ Ranks = 0..nranks - 1
  BY UidAssumption DEF Ranks
<1>2. ASSUME NEW r \in Ranks, NEW s \in Ranks PROVE \E d \in 0..nranks - 1 : s = Minus(r, d)
  <2> DEFINE d == IF s <= r THEN r - s ELSE r + nranks - s
  <2>1. d \in 0..nranks - 1 /\ d \in 0..nranks
    BY <1>1
  <2>2. Minus(r, d) = IF d <= r THEN r - d ELSE r + nranks - d
    BY <2>1, MinusIs
  <2>3. s = Minus(r, d)
    BY <1>1, <2>2
  <2> HIDE DEF d
  <2> QED BY <2>1, <2>3
<1>3. ASSUME NEW r \in Ranks, NEW d \in 0..nranks - 1, NEW e \in 0..nranks - 1
      PROVE  /\ Minus(r, d) = Minus(r, e) => d = e
             /\ d + e < nranks => Minus(Minus(r, d), e) = Minus(r, d + e)
  <2>1. d \in 0..nranks /\ e \in 0..nranks
    BY <1>1
  <2>2. /\ Minus(r, d) = (IF d <= r THEN r - d ELSE r + nranks - d) /\ Minus(r, d) \in Ranks
        /\ Minus(r, e) = IF e <= r THEN r - e ELSE r + nranks - e
    BY <2>1, MinusIs
  <2>3. Minus(Minus(r, d), e) = IF e <= Minus(r, d) THEN Minus(r, d) - e ELSE Minus(r, d) + nranks - e
    BY <2>1, <2>2, MinusIs
  <2>4. ASSUME d + e < nranks
        PROVE  Minus(r, d + e) = IF d + e <= r THEN r - (d + e) ELSE r + nranks - (d + e)
    <3>1. d + e \in 0..nranks
      BY <1>1, <2>4
    <3> QED BY <3>1, MinusIs
  <2> QED BY <1>1, <2>2, <2>3, <2>4
<1> QED BY <1>2, <1>3
-----------------------------------------------------------------------------
(* The init, whatever times out. *)

\* The invariant holds at the start.
LEMMA InitInvAtStart == Init => InitInv
<1> SUFFICES ASSUME Init PROVE InitInv
  OBVIOUS
<1> USE UidAssumption DEF Init
<1>1. nranks \in Nat /\ nranks >= 2 /\ 0 \in Ranks /\ 0 \in 0..nranks /\ nranks \in 0..nranks
      /\ Len(Program) \in Nat /\ nranks \notin Ranks
  BY DEF Ranks
<1>2. TypeOK
  BY <1>1 DEF TypeOK, Roots, Places, Joining, Empty, Slice, Messages, Slices
<1>3. Heard
  BY <1>1 DEF Heard, Empty, Slice
<1>4. ASSUME NEW r \in Ranks PROVE PlaceIs(r) /\ RingIsFree(r) /\ Addresses(r)
  <2>1. Minus(r, 1) \in Ranks
    BY RingOfRanks
  <2>2. PlaceIs(r)
    BY <1>1, <2>1 DEF PlaceIs, Joining, Gathering, Meeting
  <2>3. RingIsFree(r) /\ Addresses(r)
    BY <1>1, <2>1 DEF RingIsFree, Addresses, Gathering
  <2> QED BY <2>2, <2>3
<1> QED BY <1>2, <1>3, <1>4 DEF InitInv

\* What the steps have in common that only lead to the connection to the ring.
OnTheWay ==
  /\ \E r \in Ranks : \/ pc' = pc
                      \/ pc[r] \in Joining \ {"ring"} /\ pc' = [pc EXCEPT ![r] = "connect"]
                      \/ pc[r] \in Joining \ {"ring"} /\ pc' = [pc EXCEPT ![r] = "version"]
                      \/ pc[r] \in Joining \ {"ring"} /\ pc' = [pc EXCEPT ![r] = "next"]
  /\ next' = next \/ \E r \in Ranks : next' = [next EXCEPT ![r] = Next(r)]
  /\ timeOuts' \in Nat
  /\ UNCHANGED <<backlog, unexpected, ring, stream, out, peers, step, calls, done, refused>>

\* The root and who talks to it.
LEMMA RootStepsAre ==
  ASSUME TypeOK,
         \/ RootStep \/ RootTimesOut \/ RootLosesClient
         \/ \E r \in Ranks : Start(r) \/ ConnectToRoot(r) \/ Introduce(r)
  PROVE  OnTheWay /\ TypeOK'
<1>1. 0 \in Ranks /\ nranks - 1 \in Ranks /\ nranks \in Nat
  BY UidAssumption DEF Ranks
<1>2. \A r \in Ranks : Next(r) \in 0..nranks
  <2>1. \A r \in Ranks : Next(r) \in Ranks
    BY RingOfRanks
  <2> QED BY <1>1, <2>1 DEF Ranks
<1>3. /\ root \in Roots /\ rootBacklog \in Seq(Ranks) /\ timeOuts \in Nat
      /\ pc \in [Ranks -> Places] /\ next \in [Ranks -> 0..nranks]
  BY DEF TypeOK
<1>4. SUFFICES /\ root' \in Roots /\ rootBacklog' \in Seq(Ranks) /\ timeOuts' \in Nat
               /\ next' \in [Ranks -> 0..nranks] /\ pc' \in [Ranks -> Places]
               /\ OnTheWay
  BY DEF TypeOK, OnTheWay
<1>5. \A at, c : at \in {"absent", "collect", "version", "info", "answer", "ended"} /\ c \in Ranks
        => [at |-> at, client |-> c] \in Roots /\ [root EXCEPT !.at = at] \in Roots
           /\ [root EXCEPT !.client = c] \in Roots
  BY <1>3 DEF Roots
<1>6. root.client \in Ranks /\ (rootBacklog # <<>> => Head(rootBacklog) \in Ranks /\ Tail(rootBacklog) \in Seq(Ranks))
  BY <1>3 DEF Roots
<1>7. CASE RootAccept
  BY <1>1, <1>3, <1>5, <1>6, <1>7 DEF RootAccept, failures, OnTheWay
<1>8. CASE RootCollect
  BY <1>1, <1>3, <1>5, <1>6, <1>8 DEF RootCollect, failures, OnTheWay
<1>9. CASE RootAnswer
  <2>1. next' = [next EXCEPT ![root.client] = Next(root.client)]
    BY <1>9 DEF RootAnswer
  <2>2. root.client # nranks - 1 => root.client + 1 \in Ranks
    BY <1>1, <1>6 DEF Ranks
  <2>3. root' \in Roots
    <3>1. CASE root.client = nranks - 1
      BY <1>1, <1>5, <1>9, <3>1 DEF RootAnswer
    <3>2. CASE root.client # nranks - 1
      BY <1>5, <1>9, <2>2, <3>2 DEF RootAnswer
    <3> QED BY <3>1, <3>2
  <2> QED BY <1>1, <1>2, <1>3, <1>6, <1>9, <2>1, <2>3 DEF RootAnswer, failures, OnTheWay
<1>10. CASE RootTimesOut
  BY <1>1, <1>3, <1>5, <1>10, SMTT(40) DEF RootTimesOut, failures, OnTheWay
<1>11. CASE RootLosesClient
  BY <1>1, <1>3, <1>5, <1>11 DEF RootLosesClient, failures, OnTheWay
<1>12. ASSUME NEW r \in Ranks, Start(r) \/ ConnectToRoot(r) \/ Introduce(r)
       PROVE  /\ root' \in Roots /\ rootBacklog' \in Seq(Ranks) /\ timeOuts' \in Nat
              /\ next' \in [Ranks -> 0..nranks] /\ pc' \in [Ranks -> Places]
              /\ OnTheWay
  <2>1. CASE Start(r)
    BY <1>3, <1>5, <2>1 DEF Start, CreateRoot, Goto, Joining, Places, failures, OnTheWay
  <2>2. CASE ConnectToRoot(r)
    <3>1. Append(rootBacklog, r) \in Seq(Ranks)
      BY <1>3
    <3> QED BY <1>3, <1>5, <2>2, <3>1 DEF ConnectToRoot, Goto, Joining, Places, failures, OnTheWay
  <2>3. CASE Introduce(r)
    BY <1>3, <1>5, <2>3 DEF Introduce, Goto, Joining, Places, failures, OnTheWay
  <2> QED BY <1>12, <2>1, <2>2, <2>3
<1> QED BY <1>7, <1>8, <1>9, <1>10, <1>11, <1>12 DEF RootStep

\* Those steps keep the invariant.
LEMMA OnTheWayKeeps ==
  ASSUME InitInv, OnTheWay, TypeOK'
  PROVE  InitInv'
<1> USE DEF InitInv
<1>1. Heard'
  BY DEF Heard, OnTheWay
<1>2. ASSUME NEW r \in Ranks PROVE PlaceIs(r)' /\ RingIsFree(r)' /\ Addresses(r)'
  <2>1. Minus(r, 1) \in Ranks
    BY RingOfRanks
  <2>2. RingIsFree(r)'
    BY DEF RingIsFree, OnTheWay
  <2>3. pc'[r] = pc[r] \/ (pc[r] \in Joining /\ pc'[r] \in Joining \ {"ring"})
    BY DEF TypeOK, OnTheWay, Joining
  <2>4. next'[r] = next[r] \/ next'[r] = Next(r)
    <3>1. next \in [Ranks -> 0..nranks]
      BY DEF TypeOK
    <3> QED BY <3>1 DEF OnTheWay
  <2>5. PlaceIs(r)'
    BY <2>3, <2>4 DEF PlaceIs, OnTheWay, Joining, Gathering, Meeting
  <2>6. pc'[Minus(r, 1)] = pc[Minus(r, 1)]
        \/ (pc[Minus(r, 1)] \in Joining /\ pc'[Minus(r, 1)] \in Joining)
    BY <2>1 DEF TypeOK, OnTheWay, Joining
  <2>7. Addresses(r)'
    BY <2>1, <2>3, <2>6 DEF Addresses, OnTheWay, Joining, Gathering
  <2> QED BY <2>2, <2>5, <2>7
<1> QED BY <1>1, <1>2

\* The connection to the next rank is that rank's ring.
LEMMA ConnectToNextKeeps ==
  ASSUME InitInv, NEW r \in Ranks, ConnectToNext(r)
  PROVE  InitInv'
<1> DEFINE n == Next(r)
           m == [from |-> r, tag |-> 0]
<1>1. n \in Ranks /\ Minus(n, 1) = r /\ n # r
  BY RingOfRanks
<1>2. TypeOK /\ Heard /\ \A q \in Ranks : PlaceIs(q) /\ RingIsFree(q) /\ Addresses(q)
  BY DEF InitInv
<1>3. next[r] = n /\ pc[r] = "next"
  BY <1>2 DEF ConnectToNext, PlaceIs
<1>4. backlog' = [backlog EXCEPT ![n] = Append(@, m)] /\ pc' = [pc EXCEPT ![r] = "ring"]
  BY <1>3 DEF ConnectToNext, Connect, Goto
<1>5. UNCHANGED <<root, rootBacklog, next, unexpected, ring, stream, out, peers, step, calls, done, timeOuts, refused>>
  BY DEF ConnectToNext, rendezvous, failures
<1>6. m \in Messages /\ Append(backlog[n], m) \in Seq(Messages)
  <2>1. backlog[n] \in Seq(Messages)
    BY <1>1, <1>2 DEF TypeOK
  <2>2. m \in Messages
    BY DEF Messages
  <2> HIDE DEF m, n
  <2> QED BY <2>1, <2>2
<1> HIDE DEF n, m
<1>7. TypeOK'
  BY <1>1, <1>2, <1>4, <1>5, <1>6 DEF TypeOK, Places, Joining
<1>8. Heard'
  BY <1>2, <1>5 DEF Heard
<1>9. ASSUME NEW q \in Ranks PROVE PlaceIs(q)' /\ RingIsFree(q)' /\ Addresses(q)'
  <2>1. Minus(q, 1) \in Ranks
    BY RingOfRanks
  <2>2. PlaceIs(q)'
    <3>1. PlaceIs(q) /\ pc'[q] = IF q = r THEN "ring" ELSE pc[q]
      BY <1>2, <1>4 DEF TypeOK
    <3> QED BY <1>3, <1>5, <3>1 DEF PlaceIs, Joining, Gathering, Meeting, n
  <2>3. RingIsFree(q)'
    <3>1. RingIsFree(q) /\ backlog'[q] = (IF q = n THEN Append(backlog[q], m) ELSE backlog[q])
          /\ backlog[q] \in Seq(Messages)
      BY <1>2, <1>4 DEF TypeOK
    <3>2. CASE q = n
      <4>1. m = [from |-> Minus(q, 1), tag |-> 0]
        BY <1>1, <3>2 DEF m
      <4> QED BY <1>5, <3>1, <3>2, <4>1 DEF RingIsFree
    <3>3. CASE q # n
      BY <1>5, <3>1, <3>3 DEF RingIsFree
    <3> QED BY <3>2, <3>3
  <2>4. Addresses(q)'
    <3>1. \A s \in Ranks : pc'[s] = IF s = r THEN "ring" ELSE pc[s]
      BY <1>2, <1>4 DEF TypeOK
    <3>2. Addresses(q)
      BY <1>2
    <3> QED BY <1>3, <1>5, <2>1, <3>1, <3>2 DEF Addresses, Gathering
  <2> QED BY <2>2, <2>3, <2>4
<1> QED BY <1>7, <1>8, <1>9 DEF InitInv

\* The first connection is that of the rank before.
LEMMA AcceptRingKeeps ==
  ASSUME InitInv, NEW r \in Ranks, AcceptRing(r)
  PROVE  InitInv'
<1> DEFINE p == Minus(r, 1)
<1>1. p \in Ranks /\ p # r /\ Minus(r, 0) = r /\ nranks \in Nat /\ nranks >= 2 /\ p # nranks /\ r # nranks
  <2>1. p \in Ranks /\ p # r /\ Minus(r, 0) = r
    BY RingOfRanks
  <2>2. nranks \in Nat /\ nranks >= 2 /\ \A q \in Ranks : q # nranks
    BY UidAssumption DEF Ranks
  <2> HIDE DEF p
  <2> QED BY <2>1, <2>2
<1>2. TypeOK /\ Heard /\ \A q \in Ranks : PlaceIs(q) /\ RingIsFree(q) /\ Addresses(q)
  BY DEF InitInv
<1>3. pc[r] = "ring" /\ backlog[r] # <<>> /\ ring[r] = nranks /\ done[r] = -1 /\ step[r] = 0
      /\ calls[r] = 0 /\ next[r] = Next(r) /\ stream[r] = <<>>
  BY <1>2 DEF AcceptRing, Accept, PlaceIs, Joining
<1>4. Head(backlog[r]).from = p
  <2>1. backlog[r] \in Seq(Messages)
    BY <1>2 DEF TypeOK
  <2>2. Head(backlog[r]) = backlog[r][1] /\ 1 \in DOMAIN backlog[r]
    BY <1>3, <2>1
  <2>3. RingIsFree(r)
    BY <1>2
  <2>4. backlog[r][1] = [from |-> Minus(r, 1), tag |-> 0]
    BY <1>3, <2>2, <2>3 DEF RingIsFree
  <2> QED BY <2>2, <2>4
<1>5. /\ ring' = [ring EXCEPT ![r] = p] /\ pc' = [pc EXCEPT ![r] = "gatherSend"]
      /\ out' = [out EXCEPT ![r][r] = Slice(0, r)]
      /\ backlog' = [backlog EXCEPT ![r] = Tail(@)]
  BY <1>4 DEF AcceptRing, Accept, Goto
<1>6. UNCHANGED <<root, rootBacklog, next, unexpected, stream, peers, step, calls, done, timeOuts, refused>>
  BY DEF AcceptRing, rendezvous, failures
<1> HIDE DEF p
<1>7. TypeOK'
  <2>1. Tail(backlog[r]) \in Seq(Messages) /\ Slice(0, r) \in [call : Nat, owner : 0..nranks] /\ p \in 0..nranks
    BY <1>1, <1>2, <1>3 DEF TypeOK, Slice, Ranks
  <2>2. out' \in [Ranks -> [Ranks -> [call : Nat, owner : 0..nranks]]]
    BY <1>2, <1>5, <2>1 DEF TypeOK
  <2> QED BY <1>1, <1>2, <1>5, <1>6, <2>1, <2>2 DEF TypeOK, Places, Gathering
<1>8. \A q \in Ranks : ring'[q] = IF q = r THEN p ELSE ring[q]
  BY <1>2, <1>5 DEF TypeOK
<1>9. \A q, s \in Ranks : out'[q][s] = IF q = r /\ s = r THEN Slice(0, r) ELSE out[q][s]
  BY <1>2, <1>5 DEF TypeOK
<1>10. Heard'
  <2>1. \A q \in Ranks : \A i \in DOMAIN stream'[q] : ring'[stream'[q][i].owner] # nranks
    <3> SUFFICES ASSUME NEW q \in Ranks, NEW i \in DOMAIN stream[q]
                 PROVE  ring'[stream[q][i].owner] # nranks
      BY <1>6
    <3>1. stream[q] \in Seq(Slices)
      BY <1>2 DEF TypeOK
    <3>2. stream[q][i] \in Slices
      BY <3>1
    <3>3. stream[q][i].owner \in Ranks
      BY <3>2 DEF Slices
    <3> QED BY <1>1, <1>2, <1>8, <3>3 DEF Heard
  <2>2. \A q \in Ranks : done'[q] >= 0 => \A s \in Ranks : ring'[s] # nranks
    BY <1>1, <1>2, <1>6, <1>8 DEF Heard
  <2>3. ASSUME NEW q \in Ranks, NEW s \in Ranks, out'[q][s].owner # nranks
        PROVE  ring'[out'[q][s].owner] # nranks
    <3>1. CASE q = r /\ s = r
      BY <1>1, <1>8, <1>9, <3>1 DEF Slice
    <3>2. CASE ~(q = r /\ s = r)
      <4>1. out'[q][s] = out[q][s] /\ out[q][s] \in [call : Nat, owner : 0..nranks]
        BY <1>2, <1>9, <3>2 DEF TypeOK
      <4>2. out[q][s].owner \in 0..nranks
        BY <4>1
      <4>3. out[q][s].owner \in Ranks
        BY <1>1, <2>3, <4>1, <4>2 DEF Ranks
      <4> QED BY <1>1, <1>2, <1>8, <2>3, <4>1, <4>3 DEF Heard
    <3> QED BY <3>1, <3>2
  <2> QED BY <2>1, <2>2, <2>3 DEF Heard
<1>11. ASSUME NEW q \in Ranks PROVE PlaceIs(q)' /\ RingIsFree(q)' /\ Addresses(q)'
  <2>1. Minus(q, 1) \in Ranks
    BY RingOfRanks
  <2>2. pc'[q] = (IF q = r THEN "gatherSend" ELSE pc[q]) /\ PlaceIs(q)
    BY <1>2, <1>5 DEF TypeOK
  <2>3. PlaceIs(q)'
    <3>1. CASE q = r
      BY <1>1, <1>3, <1>6, <1>8, <1>9, <2>2, <3>1 DEF PlaceIs, Joining, Gathering, Meeting, Kind, Slice, p
    <3>2. CASE q # r
      <4>1. out'[q] = out[q] /\ ring'[q] = ring[q] /\ pc'[q] = pc[q]
        BY <1>2, <1>5, <3>2 DEF TypeOK
      <4> QED BY <1>6, <2>2, <4>1 DEF PlaceIs
    <3> QED BY <3>1, <3>2
  <2>4. RingIsFree(q)'
    <3>1. CASE q = r
      BY <1>1, <1>8, <3>1 DEF RingIsFree
    <3>2. CASE q # r
      <4>1. backlog'[q] = backlog[q] /\ RingIsFree(q)
        BY <1>2, <1>5, <3>2 DEF TypeOK
      <4> QED BY <1>8, <3>2, <4>1 DEF RingIsFree
    <3> QED BY <3>1, <3>2
  <2>5. Addresses(q)'
    <3>1. Addresses(q) /\ Addresses(r)
      BY <1>2
    <3>2. \A s \in Ranks : pc'[s] = IF s = r THEN "gatherSend" ELSE pc[s]
      BY <1>2, <1>5 DEF TypeOK
    <3>3. CASE q = r
      <4>1. \A d \in 0..step[r] : out'[r][Minus(r, d)] = Slice(0, Minus(r, d))
        BY <1>1, <1>3, <1>9
      <4>2. pc'[Minus(r, 1)] = pc[Minus(r, 1)] /\ (ring'[Minus(r, 1)] = ring[Minus(r, 1)])
        BY <1>1, <1>8, <3>2 DEF p
      <4> QED BY <1>3, <1>6, <3>1, <3>3, <4>1, <4>2 DEF Addresses, Gathering
    <3>4. CASE q # r /\ Minus(q, 1) # r
      <4>1. out'[q] = out[q] /\ pc'[q] = pc[q] /\ pc'[Minus(q, 1)] = pc[Minus(q, 1)]
            /\ ring'[Minus(q, 1)] = ring[Minus(q, 1)]
        BY <1>2, <1>5, <1>8, <2>1, <3>2, <3>4 DEF TypeOK
      <4> QED BY <1>6, <3>1, <4>1 DEF Addresses, Gathering
    <3>5. CASE q # r /\ Minus(q, 1) = r
      <4>1. out'[q] = out[q] /\ pc'[q] = pc[q] /\ pc'[r] = "gatherSend" /\ ring'[r] # nranks
        BY <1>1, <1>2, <1>5, <1>8, <2>1, <3>2, <3>5 DEF TypeOK
      <4>2. done[q] = -1 => step[q] = 0 /\ Len(stream[r]) = 0
        BY <1>3, <3>1, <3>5 DEF Addresses
      <4> QED BY <1>3, <1>6, <3>1, <3>5, <4>1, <4>2 DEF Addresses, Gathering
    <3> QED BY <3>3, <3>4, <3>5
  <2> QED BY <2>3, <2>4, <2>5
<1> QED BY <1>7, <1>10, <1>11 DEF InitInv

\* A rank leaves a call: it has failed in the init, or goes on, or closes.
LEMMA LeavingKeeps ==
  ASSUME InitInv, NEW r \in Ranks, NEW at,
         \/ at = "failed" /\ done[r] = -1
         \/ at \in {"ready", "closed"} /\ done[r] # -1,
         pc' = [pc EXCEPT ![r] = at],
         timeOuts' \in Nat, refused' \subseteq Ranks,
         UNCHANGED <<root, rootBacklog, next, backlog, unexpected, ring, stream, out,
                     peers, step, calls, done>>
  PROVE  InitInv'
<1>1. TypeOK /\ Heard /\ \A q \in Ranks : PlaceIs(q) /\ RingIsFree(q) /\ Addresses(q)
  BY DEF InitInv
<1>2. pc \in [Ranks -> Places] /\ done[r] \in -1..Len(Program) /\ at \in Places /\ Len(Program) \in Nat
  BY <1>1, UidAssumption, SMTT(40) DEF TypeOK, Places
<1>3. TypeOK'
  BY <1>1, <1>2 DEF TypeOK
<1>4. Heard'
  BY <1>1 DEF Heard
<1>5. \A q \in Ranks : pc'[q] = IF q = r THEN at ELSE pc[q]
  BY <1>2
<1>6. ASSUME NEW q \in Ranks PROVE PlaceIs(q)' /\ RingIsFree(q)' /\ Addresses(q)'
  <2>1. Minus(q, 1) \in Ranks
    BY RingOfRanks
  <2>2. PlaceIs(q) /\ RingIsFree(q) /\ Addresses(q)
    BY <1>1
  <2>3. PlaceIs(q)'
    BY <1>2, <1>5, <2>2 DEF PlaceIs, Joining, Gathering, Meeting
  <2>4. RingIsFree(q)'
    BY <2>2 DEF RingIsFree
  <2>5. Addresses(q)'
    BY <1>2, <1>5, <2>1, <2>2 DEF Addresses, Gathering
  <2> QED BY <2>3, <2>4, <2>5
<1> QED BY <1>3, <1>4, <1>6 DEF InitInv

\* A step inside a barrier: everybody has the ring by then.
LEMMA MeetingKeeps ==
  ASSUME InitInv, NEW r \in Ranks, NEW at \in Meeting \cup {"ready"}, NEW k, NEW d,
         pc[r] \in Meeting, pc' = [pc EXCEPT ![r] = at],
         k \in Nat, k < nranks, step' = [step EXCEPT ![r] = k],
         d \in 0..Len(Program), done' = [done EXCEPT ![r] = d],
         backlog' \in [Ranks -> Seq(Messages)], unexpected' \in [Ranks -> Seq(Messages)],
         UNCHANGED <<root, rootBacklog, next, ring, stream, out, peers, calls, timeOuts, refused>>
  PROVE  InitInv'
<1>1. TypeOK /\ Heard /\ \A q \in Ranks : PlaceIs(q) /\ RingIsFree(q) /\ Addresses(q)
  BY DEF InitInv
<1>2. /\ pc \in [Ranks -> Places] /\ step \in [Ranks -> Nat] /\ done \in [Ranks -> -1..Len(Program)]
      /\ calls[r] \in Nat /\ Len(Program) \in Nat
  <2>1. Len(Program) \in Nat
    BY UidAssumption
  <2>2. /\ pc \in [Ranks -> Places] /\ step \in [Ranks -> Nat] /\ done \in [Ranks -> -1..Len(Program)]
        /\ calls \in [Ranks -> 0..Len(Program)]
    BY <1>1 DEF TypeOK
  <2> QED BY <2>1, <2>2
<1>3. done[r] >= 0 /\ calls[r] > 0
  <2>1. PlaceIs(r) /\ done[r] \in -1..Len(Program)
    BY <1>1, <1>2
  <2> QED BY <1>2, <2>1 DEF PlaceIs, Meeting
<1>4. \A q \in Ranks : ring[q] # nranks
  BY <1>1, <1>3 DEF Heard
<1>5. /\ \A q \in Ranks : pc'[q] = IF q = r THEN at ELSE pc[q]
      /\ \A q \in Ranks : step'[q] = IF q = r THEN k ELSE step[q]
      /\ \A q \in Ranks : done'[q] = IF q = r THEN d ELSE done[q]
  BY <1>2
<1>6. TypeOK'
  <2>1. pc' \in [Ranks -> Places]
    BY <1>2 DEF Places
  <2>2. step' \in [Ranks -> Nat] /\ done' \in [Ranks -> -1..Len(Program)]
    BY <1>2
  <2> QED BY <1>1, <2>1, <2>2 DEF TypeOK
<1>7. Heard'
  BY <1>1, <1>4 DEF Heard
<1>8. ASSUME NEW q \in Ranks PROVE PlaceIs(q)' /\ RingIsFree(q)' /\ Addresses(q)'
  <2>1. Minus(q, 1) \in Ranks
    BY RingOfRanks
  <2>2. PlaceIs(q) /\ RingIsFree(q) /\ Addresses(q) /\ PlaceIs(r)
    BY <1>1
  <2>3. PlaceIs(q)'
    <3>1. CASE q # r
      BY <1>5, <2>2, <3>1 DEF PlaceIs
    <3>2. CASE q = r
      BY <1>2, <1>3, <1>4, <1>5, <2>2, <3>2 DEF PlaceIs, Joining, Gathering, Meeting
    <3> QED BY <3>1, <3>2
  <2>4. RingIsFree(q)'
    BY <1>4 DEF RingIsFree
  <2>5. Addresses(q)'
    <3>1. CASE q = r
      <4>1. done'[q] # -1
        BY <1>5, <3>1
      <4> QED BY <4>1 DEF Addresses
    <3>2. CASE q # r
      BY <1>2, <1>3, <1>4, <1>5, <2>1, <2>2, <3>2, SMTT(40) DEF Addresses, Gathering
    <3> QED BY <3>1, <3>2
  <2> QED BY <2>3, <2>4, <2>5
<1> QED BY <1>6, <1>7, <1>8 DEF InitInv

\* Numbers have a least one.
LEMMA LeastIs ==
  ASSUME NEW I, I \subseteq Nat, I # {}
  PROVE  Min(I) \in I /\ \A y \in I : Min(I) <= y
<1> DEFINE R == OpToRel(<, Nat)
<1>1. IsWellFoundedOn(R, Nat)
  BY NatLessThanWellFounded
<1>2. \A x, y \in Nat : <<x, y>> \in R <=> x < y
  BY DEF OpToRel
<1> HIDE DEF R
<1>3. PICK x \in I : \A y \in I : ~(<<y, x>> \in R)
  BY <1>1, WFMin
<1>4. ASSUME NEW y \in I PROVE x <= y
  <2>1. x \in Nat /\ y \in Nat /\ ~(<<y, x>> \in R)
    BY <1>3
  <2>2. ~(y < x)
    BY <1>2, <2>1
  <2> QED BY <2>1, <2>2
<1> QED BY <1>4 DEF Min

\* Taking the first of the connections put aside leaves connections.
LEMMA RemoveFirstIsSeq ==
  ASSUME NEW S, NEW s \in Seq(S), NEW e
  PROVE  RemoveFirst(s, e) \in Seq(S)
<1>1. CASE \E i \in 1..Len(s) : s[i] = e
  <2> DEFINE i == SelectInSeq(s, LAMBDA v : v = e)
  <2>1. RemoveFirst(s, e) = SubSeq(s, 1, i - 1) \o SubSeq(s, i + 1, Len(s))
    BY <1>1 DEF RemoveFirst, RemoveAt
  <2> DEFINE I == {j \in 1..Len(s) : s[j] = e}
  <2>2. I # {} /\ i = Min(I)
    BY <1>1 DEF SelectInSeq
  <2>3. Min(I) \in I
    <3>1. I \subseteq Nat /\ I # {}
      BY <2>2
    <3> HIDE DEF I
    <3> QED BY <3>1, LeastIs
  <2>4. i \in 1..Len(s)
    BY <2>2, <2>3
  <2> HIDE DEF i
  <2>5. SubSeq(s, 1, i - 1) \in Seq(S) /\ SubSeq(s, i + 1, Len(s)) \in Seq(S)
    BY <2>4, SubSeqProperties
  <2> QED BY <2>1, <2>5
<1>2. CASE ~\E i \in 1..Len(s) : s[i] = e
  BY <1>2 DEF RemoveFirst
<1> QED BY <1>1, <1>2

\* The end of a round keeps the invariant: there are fewer rounds than ranks.
LEMMA RoundDoneKeeps ==
  ASSUME InitInv, NEW r \in Ranks, pc[r] = "barrierRecv", RoundDone(r),
         backlog' \in [Ranks -> Seq(Messages)], unexpected' \in [Ranks -> Seq(Messages)],
         UNCHANGED <<root, rootBacklog, next, ring, stream, out, peers, calls, timeOuts, refused>>
  PROVE  InitInv'
<1>1. TypeOK /\ PlaceIs(r)
  BY DEF InitInv
<1>2. /\ step[r] \in Nat /\ step[r] < nranks /\ calls[r] \in 0..Len(Program) /\ done[r] \in -1..Len(Program)
      /\ calls[r] > 0 /\ step \in [Ranks -> Nat] /\ done \in [Ranks -> -1..Len(Program)]
      /\ Len(Program) \in Nat /\ nranks \in Nat
  BY <1>1, UidAssumption, SMTT(40) DEF TypeOK, PlaceIs, Meeting
<1>3. done[r] # -1
  BY <1>1, <1>2 DEF PlaceIs
<1>4. CASE 2 * Mask(r) < nranks
  <2>1. Shift[step[r] + 1] = 2 * Shift[step[r]] /\ step[r] + 1 < Shift[step[r] + 1]
        /\ Shift[step[r]] \in Nat /\ Shift[step[r] + 1] \in Nat
    <3>1. step[r] + 1 \in Nat
      BY <1>2
    <3>2. step[r] + 1 < Shift[step[r] + 1] /\ Shift[step[r]] \in Nat /\ Shift[step[r] + 1] \in Nat
      BY <1>2, <3>1, ShiftIsLarge
    <3> QED BY <1>2, <3>2, ShiftDoubles
  <2>2. step[r] + 1 \in Nat /\ step[r] + 1 < nranks
    BY <1>2, <1>4, <2>1 DEF Mask
  <2>3. /\ step' = [step EXCEPT ![r] = step[r] + 1]
        /\ pc' = [pc EXCEPT ![r] = "barrierSend"]
        /\ done' = [done EXCEPT ![r] = done[r]]
    BY <1>2, <1>4 DEF RoundDone, Goto
  <2>4. "barrierSend" \in Meeting \cup {"ready"} /\ pc[r] \in Meeting /\ done[r] \in 0..Len(Program)
    BY <1>2, <1>3 DEF Meeting
  <2> QED BY <2>2, <2>3, <2>4, MeetingKeeps
<1>5. CASE ~(2 * Mask(r) < nranks)
  <2>1. /\ step' = [step EXCEPT ![r] = step[r]]
        /\ pc' = [pc EXCEPT ![r] = "ready"]
        /\ done' = [done EXCEPT ![r] = calls[r]]
    BY <1>2, <1>5 DEF RoundDone, Goto
  <2>2. "ready" \in Meeting \cup {"ready"} /\ pc[r] \in Meeting
    BY DEF Meeting
  <2> QED BY <1>2, <2>1, <2>2, MeetingKeeps
<1> QED BY <1>4, <1>5

\* A slice is sent around: it is that of the rank which many back.
LEMMA GatherSendKeeps ==
  ASSUME InitInv, NEW r \in Ranks, GatherSend(r)
  PROVE  InitInv'
<1> DEFINE x == out[r][Minus(r, step[r])]
<1>1. TypeOK /\ Heard /\ \A q \in Ranks : PlaceIs(q) /\ RingIsFree(q) /\ Addresses(q)
  BY DEF InitInv
<1>2. /\ pc[r] = "gatherSend" /\ pc \in [Ranks -> Places] /\ stream \in [Ranks -> Seq(Slices)]
      /\ step \in [Ranks -> Nat] /\ done \in [Ranks -> -1..Len(Program)]
      /\ nranks \in Nat /\ nranks >= 2
      /\ \A q \in Ranks : q \in Int /\ q # nranks
  <2>1. nranks \in Nat /\ nranks >= 2 /\ \A q \in Ranks : q \in Int /\ q # nranks
    BY UidAssumption DEF Ranks
  <2>2. /\ pc \in [Ranks -> Places] /\ stream \in [Ranks -> Seq(Slices)]
        /\ step \in [Ranks -> Nat] /\ done \in [Ranks -> -1..Len(Program)]
    BY <1>1 DEF TypeOK
  <2> QED BY <2>1, <2>2 DEF GatherSend
<1>3. /\ pc' = [pc EXCEPT ![r] = "gatherRecv"]
      /\ stream' = [stream EXCEPT ![r] = Append(stream[r], x)]
  BY DEF GatherSend, Goto
<1>4. UNCHANGED <<root, rootBacklog, next, backlog, unexpected, ring, out, peers, step, calls,
                  done, timeOuts, refused>>
  BY DEF GatherSend, rendezvous, failures
<1>5. step[r] < nranks - 1 /\ step[r] \in Nat /\ step[r] \in 0..nranks /\ x.owner \in Ranks
      /\ ring[r] # nranks
  <2>1. step[r] \in Nat /\ PlaceIs(r)
    BY <1>1, <1>2
  <2>2. step[r] < nranks - 1 /\ x.owner \in Ranks /\ ring[r] # nranks
    BY <1>2, <2>1 DEF PlaceIs, Gathering, Joining
  <2> HIDE DEF x
  <2> QED BY <1>2, <2>1, <2>2
<1>6. x \in Slices /\ ring[x.owner] # nranks
  <2>1. Minus(r, step[r]) \in Ranks
    BY <1>5, MinusIs
  <2>2. x \in [call : Nat, owner : 0..nranks]
    BY <1>1, <2>1 DEF TypeOK
  <2>3. ring[x.owner] # nranks
    BY <1>1, <1>2, <1>5, <2>1 DEF Heard
  <2> HIDE DEF x
  <2> QED BY <1>5, <2>2, <2>3 DEF Slices
<1>7. done[r] = -1 => x = Slice(0, Minus(r, step[r]))
  <2>1. Addresses(r) /\ step[r] \in 0..step[r]
    BY <1>1, <1>5
  <2> QED BY <1>2, <2>1 DEF Addresses, Gathering
<1> HIDE DEF x
<1>8. /\ \A q \in Ranks : pc'[q] = IF q = r THEN "gatherRecv" ELSE pc[q]
      /\ \A q \in Ranks : stream'[q] = IF q = r THEN Append(stream[r], x) ELSE stream[q]
  BY <1>2, <1>3
<1>9. TypeOK'
  <2>1. stream' \in [Ranks -> Seq(Slices)]
    BY <1>2, <1>3, <1>6
  <2>2. pc' \in [Ranks -> Places]
    BY <1>2, <1>3 DEF Places, Gathering
  <2> QED BY <1>1, <1>4, <2>1, <2>2 DEF TypeOK
<1>10. Heard'
  <2>1. ASSUME NEW q \in Ranks, NEW i \in DOMAIN stream'[q]
        PROVE  ring'[stream'[q][i].owner] # nranks
    <3>1. CASE q # r
      BY <1>1, <1>4, <1>8, <2>1, <3>1 DEF Heard
    <3>2. CASE q = r
      <4>1. stream[r] \in Seq(Slices)
        BY <1>2
      <4>2. stream'[q][i] = x \/ (i \in DOMAIN stream[r] /\ stream'[q][i] = stream[r][i])
        <5>1. stream'[q] = Append(stream[r], x)
          BY <1>8, <3>2
        <5>2. i \in 1..Len(stream[r]) + 1
          BY <1>6, <2>1, <4>1, <5>1
        <5> QED BY <1>6, <4>1, <5>1, <5>2
      <4> QED BY <1>1, <1>4, <1>6, <4>2 DEF Heard
    <3> QED BY <3>1, <3>2
  <2> QED BY <1>1, <1>4, <2>1 DEF Heard
<1>11. ASSUME NEW q \in Ranks PROVE PlaceIs(q)' /\ RingIsFree(q)' /\ Addresses(q)'
  <2>1. Minus(q, 1) \in Ranks
    BY RingOfRanks
  <2>2. PlaceIs(q) /\ RingIsFree(q) /\ Addresses(q)
    BY <1>1
  <2>3. PlaceIs(q)'
    <3>1. CASE q = r
      <4>1. pc'[q] = "gatherRecv"
        BY <1>8, <3>1
      <4> QED BY <1>2, <1>4, <1>5, <2>2, <3>1, <4>1 DEF PlaceIs, Joining, Gathering, Meeting
    <3>2. CASE q # r
      BY <1>4, <1>8, <2>2, <3>2 DEF PlaceIs
    <3> QED BY <3>1, <3>2
  <2>4. RingIsFree(q)'
    BY <1>4, <2>2 DEF RingIsFree
  <2>5. CASE Minus(q, 1) # r
    <3>1. stream'[Minus(q, 1)] = stream[Minus(q, 1)] /\ pc'[Minus(q, 1)] = pc[Minus(q, 1)]
      BY <1>8, <2>1, <2>5
    <3>2. pc'[q] \in Gathering <=> pc[q] \in Gathering
      BY <1>2, <1>8 DEF Gathering
    <3>3. Addresses(q)'
      BY <1>4, <2>2, <3>1, <3>2 DEF Addresses
    <3> QED BY <2>3, <2>4, <3>3
  <2>6. CASE Minus(q, 1) = r
    <3>1. q # r
      BY <2>6, RingOfRanks
    <3>2. pc'[q] = pc[q] /\ pc'[r] = "gatherRecv" /\ stream'[r] = Append(stream[r], x)
      BY <1>8, <3>1
    <3>3. stream[r] \in Seq(Slices) /\ step[q] \in Nat /\ done[r] \in -1..Len(Program)
      BY <1>2
    <3>4. Len(stream'[r]) = Len(stream[r]) + 1 /\ Len(stream[r]) \in Nat
      BY <1>6, <3>2, <3>3
    <3>5. SUFFICES ASSUME done[q] = -1 PROVE Addresses(q)'
      BY <1>4, <2>3, <2>4 DEF Addresses
    <3>6. /\ \A i \in 1..Len(stream[r]) :
                step[q] + i < nranks => stream[r][i] = Slice(0, Minus(r, step[q] + i - 1))
          /\ done[r] >= 0 => step[q] + Len(stream[r]) >= nranks - 1
          /\ done[r] = -1 => step[q] + Len(stream[r]) = step[r]
      BY <1>2, <2>2, <2>6, <3>5 DEF Addresses
    <3>7. ASSUME NEW i \in 1..Len(stream'[r]), step[q] + i < nranks
          PROVE  stream'[r][i] = Slice(0, Minus(r, step[q] + i - 1))
      <4>1. CASE i \in 1..Len(stream[r])
        <5>1. stream'[r][i] = stream[r][i]
          BY <1>6, <3>2, <3>3, <4>1
        <5> QED BY <3>6, <3>7, <4>1, <5>1
      <4>2. CASE i = Len(stream[r]) + 1
        <5>1. stream'[r][i] = x
          BY <1>6, <3>2, <3>3, <4>2
        <5>2. done[r] = -1
          BY <1>2, <3>3, <3>4, <3>6, <3>7, <4>2
        <5>3. step[q] + i - 1 = step[r]
          BY <1>5, <3>3, <3>4, <3>6, <4>2, <5>2
        <5> QED BY <1>7, <5>1, <5>2, <5>3
      <4> QED BY <3>4, <3>7, <4>1, <4>2
    <3>8. /\ done[r] >= 0 => step[q] + Len(stream'[r]) >= nranks - 1
          /\ done[r] = -1 => step[q] + Len(stream'[r]) = step[r] + 1
      <4>1. /\ step[q] \in Int /\ Len(stream[r]) \in Int /\ nranks \in Int
            /\ Len(stream'[r]) = Len(stream[r]) + 1
        BY <1>2, <3>3, <3>4
      <4>2. /\ done[r] >= 0 => step[q] + Len(stream[r]) >= nranks - 1
            /\ done[r] = -1 => step[q] + Len(stream[r]) = step[r]
        BY <3>6
      <4> QED BY <1>5, <4>1, <4>2
    <3> QED BY <1>4, <1>5, <2>2, <2>6, <3>2, <3>5, <3>7, <3>8 DEF Addresses
  <2> QED BY <2>3, <2>4, <2>5, <2>6
<1> QED BY <1>9, <1>10, <1>11 DEF InitInv

\* A rank calls its next collective: its gather starts with its own slice.
LEMMA EnterKeeps ==
  ASSUME InitInv, NEW r \in Ranks, Enter(r)
  PROVE  InitInv'
<1> DEFINE k == calls[r] + 1
           gathers == Program[k] = "gather"
<1>1. TypeOK /\ Heard /\ \A q \in Ranks : PlaceIs(q) /\ RingIsFree(q) /\ Addresses(q)
  BY DEF InitInv
<1>2. /\ pc[r] = "ready" /\ pc \in [Ranks -> Places] /\ step \in [Ranks -> Nat]
      /\ calls \in [Ranks -> 0..Len(Program)] /\ done \in [Ranks -> -1..Len(Program)]
      /\ out \in [Ranks -> [Ranks -> [call : Nat, owner : 0..nranks]]]
  BY <1>1 DEF TypeOK, Enter
<1>3. /\ nranks \in Nat /\ nranks >= 2 /\ Len(Program) \in Nat /\ r # nranks /\ r \in 0..nranks
      /\ \A j \in 1..Len(Program) : Program[j] \in {"gather", "barrier"}
  BY UidAssumption DEF Ranks
<1>4. calls[r] < Len(Program) /\ calls[r] \in Nat /\ k \in 1..Len(Program) /\ k \in Nat /\ k # 0
  BY <1>2, <1>3 DEF Enter
<1>5. Kind(k) = Program[k] /\ (~gathers => Kind(k) = "barrier")
  BY <1>3, <1>4 DEF Kind
<1>6. done[r] \in 0..Len(Program) /\ ring[r] # nranks
  <2>1. PlaceIs(r) /\ done[r] \in -1..Len(Program)
    BY <1>1, <1>2
  <2>2. done[r] # -1 /\ ring[r] # nranks
    BY <1>2, <2>1 DEF PlaceIs, Joining, Gathering
  <2> QED BY <1>3, <2>1, <2>2
<1>7. /\ calls' = [calls EXCEPT ![r] = k] /\ step' = [step EXCEPT ![r] = 0]
      /\ pc' = [pc EXCEPT ![r] = IF gathers THEN "gatherSend" ELSE "barrierSend"]
      /\ out' = IF gathers THEN [out EXCEPT ![r] = [Empty EXCEPT ![r] = Slice(k, r)]] ELSE out
  BY <1>2 DEF Enter, Goto
<1>8. UNCHANGED <<root, rootBacklog, next, backlog, unexpected, ring, stream, peers, done, timeOuts, refused>>
  BY DEF Enter, rendezvous, failures
<1> HIDE DEF k, gathers
<1>9. /\ \A q \in Ranks : calls'[q] = IF q = r THEN k ELSE calls[q]
      /\ \A q \in Ranks : step'[q] = IF q = r THEN 0 ELSE step[q]
      /\ \A q \in Ranks : pc'[q] = IF q = r THEN (IF gathers THEN "gatherSend" ELSE "barrierSend") ELSE pc[q]
  BY <1>2, <1>7
<1>10. \A q, s \in Ranks :
         out'[q][s] = IF q = r /\ gathers
                      THEN IF s = r THEN Slice(k, r) ELSE Slice(0, nranks) ELSE out[q][s]
  BY <1>2, <1>7 DEF Empty
<1>11. TypeOK'
  <2>1. /\ calls' \in [Ranks -> 0..Len(Program)] /\ step' \in [Ranks -> Nat]
    BY <1>2, <1>4, <1>7
  <2>2. pc' \in [Ranks -> Places]
    BY <1>2, <1>7 DEF Places, Gathering, Meeting
  <2>3. out' \in [Ranks -> [Ranks -> [call : Nat, owner : 0..nranks]]]
    <3>1. Slice(k, r) \in [call : Nat, owner : 0..nranks] /\ Slice(0, nranks) \in [call : Nat, owner : 0..nranks]
      BY <1>3, <1>4 DEF Slice
    <3>2. [Empty EXCEPT ![r] = Slice(k, r)] \in [Ranks -> [call : Nat, owner : 0..nranks]]
      BY <3>1 DEF Empty
    <3> QED BY <1>2, <1>7, <3>2
  <2> QED BY <1>1, <1>8, <2>1, <2>2, <2>3 DEF TypeOK
<1>12. Heard'
  <2>1. ASSUME NEW q \in Ranks, NEW s \in Ranks, out'[q][s].owner # nranks
        PROVE  ring'[out'[q][s].owner] # nranks
    <3>1. CASE q = r /\ gathers
      BY <1>6, <1>8, <1>10, <2>1, <3>1 DEF Slice
    <3>2. CASE ~(q = r /\ gathers)
      BY <1>1, <1>8, <1>10, <2>1, <3>2 DEF Heard
    <3> QED BY <3>1, <3>2
  <2> QED BY <1>1, <1>8, <2>1 DEF Heard
<1>13. ASSUME NEW q \in Ranks PROVE PlaceIs(q)' /\ RingIsFree(q)' /\ Addresses(q)'
  <2>1. Minus(q, 1) \in Ranks /\ Minus(q, 0) = q
    BY RingOfRanks
  <2>2. PlaceIs(q) /\ RingIsFree(q) /\ Addresses(q)
    BY <1>1
  <2>3. PlaceIs(q)'
    <3>1. CASE q = r
      <4>1. /\ calls'[q] = k /\ step'[q] = 0 /\ done'[q] \in 0..Len(Program) /\ ring'[q] # nranks
            /\ pc'[q] = IF gathers THEN "gatherSend" ELSE "barrierSend"
            /\ next'[q] = next[q] /\ ring'[q] = ring[q] /\ stream'[q] = stream[q] /\ peers'[q] = peers[q]
        BY <1>6, <1>8, <1>9, <3>1
      <4>2. gathers => out'[q][Minus(q, step'[q])].owner \in Ranks
        BY <1>10, <2>1, <3>1, <4>1 DEF Slice
      <4>3. gathers => Kind(calls'[q]) = "gather"
        BY <1>5, <4>1 DEF gathers
      <4>4. ~gathers => Kind(calls'[q]) = "barrier"
        BY <1>5, <4>1
      <4>5. /\ next[q] = Next(q) /\ ring[q] \in {nranks, Minus(q, 1)} /\ peers[q] = [s \in Ranks |-> s]
        BY <1>2, <1>3, <1>6, <2>2, <3>1 DEF PlaceIs
      <4> QED BY <1>3, <1>4, <4>1, <4>2, <4>3, <4>4, <4>5 DEF PlaceIs, Joining, Gathering, Meeting
    <3>2. CASE q # r
      <4>1. out'[q] = out[q]
        BY <1>2, <1>7, <3>2
      <4> QED BY <1>8, <1>9, <2>2, <3>2, <4>1 DEF PlaceIs
    <3> QED BY <3>1, <3>2
  <2>4. RingIsFree(q)'
    BY <1>8, <2>2 DEF RingIsFree
  <2>5. Addresses(q)'
    <3>1. CASE q = r
      <4>1. done'[q] # -1
        BY <1>6, <1>8, <3>1
      <4> QED BY <4>1 DEF Addresses
    <3>2. CASE q # r
      <4>1. out'[q] = out[q] /\ step'[q] = step[q] /\ pc'[q] = pc[q]
        BY <1>2, <1>7, <1>9, <3>2
      <4>2. done[Minus(q, 1)] = -1 =>
              pc'[Minus(q, 1)] = pc[Minus(q, 1)] /\ step'[Minus(q, 1)] = step[Minus(q, 1)]
        BY <1>6, <1>9, <2>1
      <4> QED BY <1>8, <2>2, <4>1, <4>2 DEF Addresses
    <3> QED BY <3>1, <3>2
  <2> QED BY <2>3, <2>4, <2>5
<1> QED BY <1>11, <1>12, <1>13 DEF InitInv

\* A slice comes from the rank before, at last the one of the next rank; by then
\* everybody has the ring.
LEMMA GatherRecvKeeps ==
  ASSUME InitInv, NEW r \in Ranks, GatherRecv(r)
  PROVE  InitInv'
<1> DEFINE p == Minus(r, 1)
           to == Minus(r, step[r] + 1)
           y == Head(stream[p])
           last == ~(step[r] + 1 < nranks - 1)
<1>1. TypeOK /\ Heard /\ \A q \in Ranks : PlaceIs(q) /\ RingIsFree(q) /\ Addresses(q)
  BY DEF InitInv
<1>2. /\ pc[r] = "gatherRecv" /\ pc \in [Ranks -> Places] /\ stream \in [Ranks -> Seq(Slices)]
      /\ step \in [Ranks -> Nat] /\ done \in [Ranks -> -1..Len(Program)]
      /\ calls \in [Ranks -> 0..Len(Program)] /\ peers \in [Ranks -> [Ranks -> 0..nranks]]
      /\ out \in [Ranks -> [Ranks -> [call : Nat, owner : 0..nranks]]]
  BY <1>1 DEF TypeOK, GatherRecv
<1>3. nranks \in Nat /\ nranks >= 2 /\ Len(Program) \in Nat /\ \A q \in Ranks : q \in 0..nranks /\ q # nranks
  BY UidAssumption DEF Ranks
<1>4. p \in Ranks /\ p # r
  BY RingOfRanks
<1>5. /\ step[r] \in Nat /\ step[r] < nranks - 1 /\ step[r] + 1 \in 0..nranks
      /\ ring[r] = p /\ next[r] = Next(r)
  <2>1. step[r] \in Nat /\ PlaceIs(r)
    BY <1>1, <1>2
  <2>2. step[r] < nranks - 1 /\ ring[r] = p /\ next[r] = Next(r)
    BY <1>2, <2>1 DEF PlaceIs, Gathering, Joining
  <2> HIDE DEF p
  <2> QED BY <1>3, <2>1, <2>2
<1>6. to \in Ranks
  BY <1>5, MinusIs
<1>7. /\ stream[p] # <<>>
      /\ out' = [out EXCEPT ![r][to] = y] /\ stream' = [stream EXCEPT ![p] = Tail(stream[p])]
      /\ step' = IF last THEN step ELSE [step EXCEPT ![r] = step[r] + 1]
      /\ pc' = [pc EXCEPT ![r] = IF last THEN "ready" ELSE "gatherSend"]
      /\ done' = IF last THEN [done EXCEPT ![r] = calls[r]] ELSE done
      /\ peers' = IF last /\ calls[r] = 0
                  THEN [peers EXCEPT ![r] = [s \in Ranks |-> out'[r][s].owner]] ELSE peers
  BY <1>5 DEF GatherRecv, Goto
<1>8. UNCHANGED <<root, rootBacklog, next, backlog, unexpected, ring, calls, timeOuts, refused>>
  BY DEF GatherRecv, rendezvous, failures
<1>9. /\ stream[p] \in Seq(Slices) /\ Len(stream[p]) \in Nat /\ Len(stream[p]) >= 1
      /\ y = stream[p][1] /\ Tail(stream[p]) \in Seq(Slices)
      /\ Len(Tail(stream[p])) = Len(stream[p]) - 1
      /\ \A i \in 1..Len(stream[p]) - 1 : Tail(stream[p])[i] = stream[p][i + 1] /\ i + 1 \in 1..Len(stream[p])
  <2>1. stream[p] \in Seq(Slices)
    BY <1>2, <1>4
  <2> QED BY <1>7, <2>1
<1>10. /\ y \in [call : Nat, owner : 0..nranks] /\ y.owner \in Ranks /\ y.owner # nranks
       /\ ring[y.owner] # nranks
  <2>1. y \in Slices /\ 1 \in DOMAIN stream[p]
    BY <1>9
  <2>2. ring[y.owner] # nranks
    BY <1>1, <1>4, <1>9, <2>1 DEF Heard
  <2> HIDE DEF y
  <2> QED BY <1>3, <2>1, <2>2 DEF Slices
<1> HIDE DEF p, to, y, last
<1>11. /\ \A q \in Ranks : pc'[q] = IF q = r THEN (IF last THEN "ready" ELSE "gatherSend") ELSE pc[q]
       /\ \A q \in Ranks : stream'[q] = IF q = p THEN Tail(stream[p]) ELSE stream[q]
       /\ \A q \in Ranks : step'[q] = IF q = r /\ ~last THEN step[r] + 1 ELSE step[q]
       /\ \A q \in Ranks : done'[q] = IF q = r /\ last THEN calls[r] ELSE done[q]
  BY <1>2, <1>7
<1>12. \A q, s \in Ranks : out'[q][s] = IF q = r /\ s = to THEN y ELSE out[q][s]
  BY <1>2, <1>7
<1>13. calls[r] \in Nat /\ done[r] \in -1..Len(Program) /\ (done[r] = -1 <=> calls[r] = 0)
  <2>1. PlaceIs(r) /\ calls[r] \in 0..Len(Program) /\ done[r] \in -1..Len(Program)
    BY <1>1, <1>2
  <2> QED BY <1>2, <1>3, <2>1 DEF PlaceIs
<1>14. TypeOK'
  <2>1. /\ pc' \in [Ranks -> Places] /\ stream' \in [Ranks -> Seq(Slices)] /\ step' \in [Ranks -> Nat]
        /\ done' \in [Ranks -> -1..Len(Program)]
    <3>1. pc' \in [Ranks -> Places]
      BY <1>2, <1>7 DEF Places, Gathering
    <3>2. stream' \in [Ranks -> Seq(Slices)]
      BY <1>2, <1>7, <1>9
    <3>3. step' \in [Ranks -> Nat]
      BY <1>2, <1>5, <1>7
    <3>4. calls[r] \in -1..Len(Program)
      BY <1>2, <1>3
    <3>5. done' \in [Ranks -> -1..Len(Program)]
      BY <1>2, <1>7, <3>4
    <3> QED BY <3>1, <3>2, <3>3, <3>5
  <2>2. out' \in [Ranks -> [Ranks -> [call : Nat, owner : 0..nranks]]]
    BY <1>2, <1>7, <1>10
  <2>3. peers' \in [Ranks -> [Ranks -> 0..nranks]]
    <3>1. \A s \in Ranks : out'[r][s] \in [call : Nat, owner : 0..nranks]
      BY <2>2
    <3>2. \A s \in Ranks : out'[r][s].owner \in 0..nranks
      BY <3>1
    <3> QED BY <1>2, <1>7, <3>2
  <2> QED BY <1>1, <1>8, <2>1, <2>2, <2>3 DEF TypeOK
\* What the gather of the init has by now.
<1>15. done[r] = -1 => \A d \in 0..step[r] + 1 : out'[r][Minus(r, d)] = Slice(0, Minus(r, d))
  <2> SUFFICES ASSUME done[r] = -1, NEW d \in 0..step[r] + 1
               PROVE  out'[r][Minus(r, d)] = Slice(0, Minus(r, d))
    OBVIOUS
  <2>1. Addresses(r) /\ pc[r] \in Gathering
    BY <1>1, <1>2 DEF Gathering
  <2>2. d \in 0..nranks /\ d \in 0..nranks - 1 /\ step[r] + 1 \in 0..nranks - 1
    BY <1>3, <1>5
  <2>3. Minus(r, d) \in Ranks
    BY <2>2, MinusIs
  <2>4. CASE d = step[r] + 1
    <3>1. stream[p][1] = Slice(0, Minus(p, step[r] + 1 - 1))
      <4>1. 1 \in 1..Len(stream[p]) /\ step[r] + 1 < nranks
        BY <1>3, <1>5, <1>9
      <4> QED BY <2>1, <4>1 DEF Addresses, p
    <3>2. Minus(p, step[r]) = Minus(r, step[r] + 1)
      <4>1. 1 \in 0..nranks - 1 /\ step[r] \in 0..nranks - 1 /\ 1 + step[r] < nranks /\ 1 + step[r] = step[r] + 1
        BY <1>3, <1>5
      <4> QED BY <4>1, BackAround DEF p
    <3>3. step[r] + 1 - 1 = step[r]
      BY <1>5
    <3> QED BY <1>9, <1>12, <2>3, <2>4, <3>1, <3>2, <3>3 DEF to
  <2>5. CASE d # step[r] + 1
    <3>1. Minus(r, d) # to
      BY <2>2, <2>5, BackAround DEF to
    <3>2. d \in 0..step[r]
      BY <1>5, <2>5
    <3> QED BY <1>12, <2>1, <2>3, <3>1, <3>2 DEF Addresses
  <2> QED BY <2>4, <2>5
<1>16. last /\ done[r] = -1 => \A s \in Ranks : out'[r][s] = Slice(0, s)
  <2> SUFFICES ASSUME last, done[r] = -1, NEW s \in Ranks PROVE out'[r][s] = Slice(0, s)
    OBVIOUS
  <2>1. PICK d \in 0..nranks - 1 : s = Minus(r, d)
    BY BackAround
  <2>2. d \in 0..step[r] + 1
    BY <1>3, <1>5 DEF last
  <2> QED BY <1>15, <2>1, <2>2
<1>17. Heard'
  <2>1. ASSUME NEW q \in Ranks, NEW i \in DOMAIN stream'[q]
        PROVE  ring'[stream'[q][i].owner] # nranks
    <3>1. CASE q # p
      BY <1>1, <1>8, <1>11, <2>1, <3>1 DEF Heard
    <3>2. CASE q = p
      <4>1. stream'[q] = Tail(stream[p])
        BY <1>4, <1>11, <3>2
      <4>2. i \in 1..Len(stream[p]) - 1
        BY <1>9, <2>1, <4>1
      <4>3. stream'[q][i] = stream[p][i + 1] /\ i + 1 \in DOMAIN stream[p]
        BY <1>9, <4>1, <4>2
      <4> QED BY <1>1, <1>4, <1>8, <4>3 DEF Heard
    <3> QED BY <3>1, <3>2
  <2>2. ASSUME NEW q \in Ranks, NEW s \in Ranks, out'[q][s].owner # nranks
        PROVE  ring'[out'[q][s].owner] # nranks
    BY <1>1, <1>8, <1>10, <1>12, <2>2 DEF Heard
  <2>3. ASSUME NEW q \in Ranks, done'[q] >= 0, NEW s \in Ranks PROVE ring'[s] # nranks
    <3>1. CASE done[q] >= 0
      BY <1>1, <1>8, <3>1 DEF Heard
    <3>2. CASE ~(done[q] >= 0)
      <4>1. q = r /\ last /\ done[r] = -1
        BY <1>11, <1>13, <2>3, <3>2
      <4>2. out'[r][s].owner = s /\ s # nranks
        <5>1. out'[r][s] = Slice(0, s)
          BY <1>16, <4>1
        <5>2. out'[q][s] = Slice(0, s)
          BY <4>1, <5>1
        <5> QED BY <1>3, <4>1, <5>1, <5>2 DEF Slice
      <4> QED BY <2>2, <4>2
    <3> QED BY <3>1, <3>2
  <2> QED BY <2>1, <2>2, <2>3 DEF Heard
<1>18. ASSUME NEW q \in Ranks PROVE PlaceIs(q)' /\ RingIsFree(q)' /\ Addresses(q)'
  <2>1. Minus(q, 1) \in Ranks
    BY RingOfRanks
  <2>2. PlaceIs(q) /\ RingIsFree(q) /\ Addresses(q)
    BY <1>1
  <2>3. stream[q] = <<>> => stream'[q] = <<>>
    BY <1>7, <1>11
  <2>4. PlaceIs(q)'
    <3>1. CASE q # r
      <4>1. out'[q] = out[q] /\ peers'[q] = peers[q]
        BY <1>2, <1>7, <3>1
      <4> QED BY <1>8, <1>11, <2>2, <2>3, <3>1, <4>1 DEF PlaceIs
    <3>2. CASE q = r /\ ~last
      <4>1. /\ pc'[r] = "gatherSend" /\ step'[r] = step[r] + 1 /\ done'[r] = done[r] /\ calls'[r] = calls[r]
            /\ next'[r] = next[r] /\ ring'[r] = ring[r] /\ peers'[r] = peers[r]
        BY <1>7, <1>8, <1>11, <3>2
      <4>2. out'[r][Minus(r, step'[r])].owner \in Ranks
        BY <1>6, <1>10, <1>12, <4>1 DEF to
      <4>3. step[r] + 1 < nranks - 1 /\ step'[r] < nranks /\ ring'[r] # nranks
        BY <1>3, <1>4, <1>5, <3>2, <4>1 DEF last
      <4> QED BY <1>2, <1>5, <2>2, <3>2, <4>1, <4>2, <4>3 DEF PlaceIs, Joining, Gathering, Meeting
    <3>3. CASE q = r /\ last
      <4>1. /\ pc'[r] = "ready" /\ step'[r] = step[r] /\ done'[r] = calls[r] /\ calls'[r] = calls[r]
            /\ next'[r] = next[r] /\ ring'[r] = ring[r]
        BY <1>7, <1>8, <1>11, <3>3
      <4>2. peers'[r] = [s \in Ranks |-> s]
        <5>1. CASE done[r] = -1
          <6>1. peers'[r] = [s \in Ranks |-> out'[r][s].owner]
            BY <1>2, <1>7, <1>13, <3>3, <5>1
          <6>2. \A s \in Ranks : out'[r][s].owner = s
            <7> SUFFICES ASSUME NEW s \in Ranks PROVE out'[r][s].owner = s
              OBVIOUS
            <7>1. out'[r][s] = Slice(0, s)
              BY <1>16, <3>3, <5>1
            <7>2. Slice(0, s).owner = s
              BY DEF Slice
            <7> QED BY <7>1, <7>2
          <6> QED BY <6>1, <6>2
        <5>2. CASE done[r] # -1
          <6>1. peers' = peers /\ done[r] >= 0
            BY <1>7, <1>13, <5>2
          <6> QED BY <2>2, <3>3, <6>1 DEF PlaceIs
        <5> QED BY <5>1, <5>2
      <4>3. ring'[r] # nranks
        BY <1>3, <1>4, <1>5, <4>1
      <4>4. done'[r] >= 0 /\ done'[r] # -1 /\ step'[r] < nranks /\ next'[r] = Next(r)
        BY <1>3, <1>5, <1>13, <4>1
      <4>5. ring'[r] \in {nranks, Minus(r, 1)}
        BY <1>5, <4>1 DEF p
      <4> QED BY <3>3, <4>1, <4>2, <4>3, <4>4, <4>5 DEF PlaceIs, Joining, Gathering, Meeting
    <3> QED BY <3>1, <3>2, <3>3
  <2>5. RingIsFree(q)'
    BY <1>8, <2>2 DEF RingIsFree
  <2>6. CASE q # r /\ Minus(q, 1) # r
    <3>1. Minus(q, 1) # p
      BY <2>1, <2>6, RingOfRanks DEF p
    <3>2. /\ stream'[Minus(q, 1)] = stream[Minus(q, 1)] /\ pc'[Minus(q, 1)] = pc[Minus(q, 1)]
          /\ step'[Minus(q, 1)] = step[Minus(q, 1)] /\ done'[Minus(q, 1)] = done[Minus(q, 1)]
          /\ pc'[q] = pc[q] /\ step'[q] = step[q] /\ done'[q] = done[q]
      BY <1>11, <2>1, <2>6, <3>1
    <3>3. out'[q] = out[q]
      BY <1>2, <1>7, <2>6
    <3>4. Addresses(q)'
      BY <1>8, <2>2, <3>2, <3>3 DEF Addresses
    <3> QED BY <2>4, <2>5, <3>4
  <2>7. CASE q # r /\ Minus(q, 1) = r
    <3>1. /\ stream'[r] = stream[r] /\ pc'[q] = pc[q] /\ step'[q] = step[q] /\ done'[q] = done[q]
          /\ step[q] \in Nat /\ Len(stream[r]) \in Nat
      <4>1. stream[r] \in Seq(Slices) /\ step[q] \in Nat
        BY <1>2
      <4> QED BY <1>4, <1>11, <2>7, <4>1
    <3>2. out'[q] = out[q]
      BY <1>2, <1>7, <2>7
    <3>3. SUFFICES ASSUME done[q] = -1 PROVE Addresses(q)'
      BY <1>8, <2>4, <2>5, <3>1 DEF Addresses
    <3>4. /\ pc[q] \in Gathering => \A d \in 0..step[q] : out[q][Minus(q, d)] = Slice(0, Minus(q, d))
          /\ \A i \in 1..Len(stream[r]) :
               step[q] + i < nranks => stream[r][i] = Slice(0, Minus(r, step[q] + i - 1))
          /\ done[r] >= 0 => step[q] + Len(stream[r]) >= nranks - 1
          /\ done[r] = -1 => step[q] + Len(stream[r]) = step[r] + 1
          /\ ring[r] = nranks => step[q] = 0
      BY <1>2, <2>2, <2>7, <3>3 DEF Addresses
    <3>5. CASE last
      <4>1. pc'[r] = "ready" /\ done'[r] = calls[r] /\ step[q] + Len(stream[r]) >= nranks - 1
        BY <1>3, <1>5, <1>11, <1>13, <3>1, <3>4, <3>5 DEF last
      <4> QED BY <1>8, <1>13, <2>7, <3>1, <3>2, <3>3, <3>4, <4>1 DEF Addresses
    <3>6. CASE ~last
      <4>1. pc'[r] = "gatherSend" /\ done'[r] = done[r] /\ step'[r] = step[r] + 1
        BY <1>11, <3>6
      <4> QED BY <1>8, <2>7, <3>1, <3>2, <3>3, <3>4, <4>1 DEF Addresses
    <3> QED BY <3>5, <3>6
  <2>8. CASE q = r
    <3>1. CASE last
      <4>1. done'[r] # -1
        BY <1>11, <1>13, <3>1
      <4> QED BY <2>4, <2>5, <2>8, <4>1 DEF Addresses
    <3>2. CASE ~last
      <4>1. /\ pc'[r] = "gatherSend" /\ step'[r] = step[r] + 1 /\ done'[r] = done[r]
            /\ stream'[p] = Tail(stream[p])
            /\ pc'[p] = pc[p] /\ step'[p] = step[p] /\ done'[p] = done[p] /\ ring'[p] = ring[p]
        BY <1>4, <1>8, <1>11, <3>2
      <4>2. SUFFICES ASSUME done[r] = -1 PROVE Addresses(r)'
        BY <2>4, <2>5, <2>8, <4>1 DEF Addresses
      <4>3. /\ \A i \in 1..Len(stream[p]) :
                 step[r] + i < nranks => stream[p][i] = Slice(0, Minus(p, step[r] + i - 1))
            /\ done[p] >= 0 => step[r] + Len(stream[p]) >= nranks - 1
            /\ done[p] = -1 /\ pc[p] = "gatherSend" => step[r] + Len(stream[p]) = step[p]
            /\ done[p] = -1 /\ pc[p] = "gatherRecv" => step[r] + Len(stream[p]) = step[p] + 1
        BY <2>2, <2>8, <4>2 DEF Addresses, p
      <4>4. ring[p] # nranks
        BY <1>1, <1>4, <1>7 DEF PlaceIs
      <4>5. \A d \in 0..step'[r] : out'[r][Minus(r, d)] = Slice(0, Minus(r, d))
        BY <1>15, <4>1, <4>2
      <4>6. ASSUME NEW i \in 1..Len(stream'[p]), step'[r] + i < nranks
            PROVE  stream'[p][i] = Slice(0, Minus(p, step'[r] + i - 1))
        <5>1. i \in 1..Len(stream[p]) - 1 /\ i \in Int
          BY <1>9, <4>1, <4>6
        <5>2. stream'[p][i] = stream[p][i + 1] /\ i + 1 \in 1..Len(stream[p])
          BY <1>9, <4>1, <5>1
        <5>3. step[r] + (i + 1) < nranks /\ step[r] + (i + 1) - 1 = step'[r] + i - 1
          <6>1. i \in Int /\ step[r] \in Int /\ nranks \in Int /\ step'[r] = step[r] + 1 /\ step'[r] + i < nranks
            BY <1>3, <1>5, <4>1, <4>6, <5>1
          <6> QED BY <6>1
        <5> QED BY <4>3, <5>2, <5>3
      <4>7. step'[r] + Len(stream'[p]) = step[r] + Len(stream[p])
        BY <1>5, <1>9, <4>1
      <4> QED BY <4>1, <4>2, <4>3, <4>4, <4>5, <4>6, <4>7 DEF Addresses, p
    <3> QED BY <3>1, <3>2
  <2> QED BY <2>6, <2>7, <2>8
<1> QED BY <1>14, <1>17, <1>18 DEF InitInv

\* Every step keeps the invariant of the init.
LEMMA InitInvKept ==
  ASSUME InitInv, [NextStep]_vars
  PROVE  InitInv'
<1>1. TypeOK /\ \A q \in Ranks : PlaceIs(q)
  BY DEF InitInv
<1>2. backlog \in [Ranks -> Seq(Messages)] /\ unexpected \in [Ranks -> Seq(Messages)] /\ timeOuts \in Nat
      /\ step \in [Ranks -> Nat] /\ done \in [Ranks -> -1..Len(Program)] /\ refused \subseteq Ranks
  BY <1>1 DEF TypeOK
<1>3. CASE RootStep \/ RootTimesOut \/ RootLosesClient
  BY <1>1, <1>3, RootStepsAre, OnTheWayKeeps
<1>4. ASSUME NEW r \in Ranks, Start(r) \/ ConnectToRoot(r) \/ Introduce(r) PROVE InitInv'
  BY <1>1, <1>4, RootStepsAre, OnTheWayKeeps
<1>5. ASSUME NEW r \in Ranks, BarrierSend(r) PROVE InitInv'
  <2> DEFINE to == peers[r][Destination(r)]
             m == [from |-> r, tag |-> Tag(r)]
  <2>1. /\ pc[r] = "barrierSend" /\ pc' = [pc EXCEPT ![r] = "barrierRecv"]
        /\ backlog' = [backlog EXCEPT ![to] = Append(@, m)] /\ unexpected' = unexpected
    BY <1>5 DEF BarrierSend, Connect, Goto
  <2>2. UNCHANGED <<root, rootBacklog, next, ring, stream, out, peers, step, calls, done, timeOuts, refused>>
    BY <1>5 DEF BarrierSend, rendezvous, failures
  <2>3. m \in Messages
    <3>1. Tag(r) \in Nat
      BY <1>2 DEF Tag
    <3> QED BY <3>1 DEF Messages
  <2> HIDE DEF to, m
  <2>4. backlog' \in [Ranks -> Seq(Messages)]
    <3>1. to \in Ranks => Append(backlog[to], m) \in Seq(Messages)
      BY <1>2, <2>3
    <3> QED BY <1>2, <2>1, <3>1
  <2>5. step[r] \in Nat /\ step[r] < nranks /\ done[r] \in 0..Len(Program)
    <3>1. done[r] # -1 /\ step[r] < nranks
      BY <1>1, <2>1 DEF PlaceIs, Joining, Gathering, Meeting
    <3>2. Len(Program) \in Nat
      BY UidAssumption
    <3> QED BY <1>2, <3>1, <3>2
  <2>6. step' = [step EXCEPT ![r] = step[r]] /\ done' = [done EXCEPT ![r] = done[r]]
    BY <1>2, <2>2
  <2>7. pc[r] \in Meeting /\ "barrierRecv" \in Meeting \cup {"ready"}
    BY <2>1 DEF Meeting
  <2> QED BY <1>2, <2>1, <2>2, <2>4, <2>5, <2>6, <2>7, MeetingKeeps
<1>6. ASSUME NEW r \in Ranks, DequeueUnexpected(r) PROVE InitInv'
  <2>1. RemoveFirst(unexpected[r], Wanted(r)) \in Seq(Messages)
    BY <1>2, RemoveFirstIsSeq
  <2>2. unexpected' \in [Ranks -> Seq(Messages)] /\ backlog' \in [Ranks -> Seq(Messages)]
    BY <1>2, <1>6, <2>1 DEF DequeueUnexpected
  <2>3. /\ pc[r] = "barrierRecv" /\ RoundDone(r)
        /\ UNCHANGED <<root, rootBacklog, next, ring, stream, out, peers, calls, timeOuts, refused>>
    BY <1>6 DEF DequeueUnexpected, rendezvous, failures
  <2> QED BY <2>2, <2>3, RoundDoneKeeps
<1>7. ASSUME NEW r \in Ranks, AcceptExpected(r) PROVE InitInv'
  <2>1. /\ pc[r] = "barrierRecv" /\ backlog[r] # <<>> /\ backlog' = [backlog EXCEPT ![r] = Tail(@)]
        /\ UNCHANGED <<root, rootBacklog, next, ring, stream, out, peers, calls, timeOuts, refused>>
    BY <1>7 DEF AcceptExpected, Accept, rendezvous, failures
  <2>2. backlog' \in [Ranks -> Seq(Messages)] /\ Head(backlog[r]) \in Messages
    <3>1. backlog[r] \in Seq(Messages)
      BY <1>2
    <3>2. Tail(backlog[r]) \in Seq(Messages) /\ Head(backlog[r]) \in Messages
      BY <2>1, <3>1
    <3> QED BY <1>2, <2>1, <3>2
  <2>3. CASE Head(backlog[r]) = Wanted(r)
    <3>1. RoundDone(r) /\ unexpected' = unexpected
      BY <1>7, <2>3 DEF AcceptExpected
    <3> QED BY <1>2, <2>1, <2>2, <3>1, RoundDoneKeeps
  <2>4. CASE Head(backlog[r]) # Wanted(r)
    <3>1. /\ unexpected' = [unexpected EXCEPT ![r] = <<Head(backlog[r])>> \o unexpected[r]]
          /\ UNCHANGED <<step, done, pc>>
      BY <1>7, <2>4 DEF AcceptExpected
    <3>2. unexpected' \in [Ranks -> Seq(Messages)]
      <4>1. <<Head(backlog[r])>> \in Seq(Messages) /\ unexpected[r] \in Seq(Messages)
        BY <1>2, <2>2
      <4>2. <<Head(backlog[r])>> \o unexpected[r] \in Seq(Messages)
        BY <4>1
      <4> QED BY <1>2, <3>1, <4>2
    <3>3. step[r] \in Nat /\ step[r] < nranks /\ done[r] \in 0..Len(Program)
      <4>1. done[r] # -1 /\ step[r] < nranks
        BY <1>1, <2>1 DEF PlaceIs, Joining, Gathering, Meeting
      <4>2. Len(Program) \in Nat
        BY UidAssumption
      <4> QED BY <1>2, <4>1, <4>2
    <3>4. step' = [step EXCEPT ![r] = step[r]] /\ done' = [done EXCEPT ![r] = done[r]]
      BY <1>2, <3>1
    <3>5. pc' = [pc EXCEPT ![r] = "barrierRecv"]
      BY <1>1, <2>1, <3>1 DEF TypeOK
    <3>6. pc[r] \in Meeting /\ "barrierRecv" \in Meeting \cup {"ready"}
      BY <2>1 DEF Meeting
    <3> QED BY <2>1, <2>2, <3>2, <3>3, <3>4, <3>5, <3>6, MeetingKeeps
  <2> QED BY <2>3, <2>4
<1>8. ASSUME NEW r \in Ranks, Refused(r) \/ TimeOut(r) PROVE InitInv'
  <2>1. pc' = [pc EXCEPT ![r] = IF done[r] = -1 THEN "failed" ELSE "ready"]
    BY <1>8 DEF Refused, TimeOut, Goto, AfterError
  <2>2. timeOuts' \in Nat /\ refused' \subseteq Ranks
        /\ UNCHANGED <<root, rootBacklog, next, backlog, unexpected, ring, stream, out,
                       peers, step, calls, done>>
    BY <1>2, <1>8 DEF Refused, TimeOut, rendezvous
  <2>3. CASE done[r] = -1
    BY <2>1, <2>2, <2>3, LeavingKeeps
  <2>4. CASE done[r] # -1
    BY <2>1, <2>2, <2>4, LeavingKeeps
  <2> QED BY <2>3, <2>4
<1>9. ASSUME NEW r \in Ranks, Finalize(r) PROVE InitInv'
  <2>1. /\ pc[r] = "ready" /\ pc' = [pc EXCEPT ![r] = "closed"]
        /\ UNCHANGED <<root, rootBacklog, next, backlog, unexpected, ring, stream, out,
                       peers, step, calls, done, timeOuts, refused>>
    BY <1>9 DEF Finalize, Goto, rendezvous, failures
  <2>2. done[r] # -1
    BY <1>1, <2>1 DEF PlaceIs, Joining, Gathering
  <2> QED BY <1>2, <2>1, <2>2, LeavingKeeps
<1>10. CASE UNCHANGED vars
  <2>1. UNCHANGED <<root, rootBacklog, next, pc, backlog, unexpected, ring, stream, out, peers, step,
                    calls, done, timeOuts, refused>>
    BY <1>10 DEF vars, rendezvous, failures
  <2> QED BY <2>1 DEF InitInv, TypeOK, Heard, PlaceIs, RingIsFree, Addresses
<1> QED
  BY <1>3, <1>4, <1>5, <1>6, <1>7, <1>8, <1>9, <1>10, ConnectToNextKeeps, AcceptRingKeeps,
     GatherSendKeeps, GatherRecvKeeps, EnterKeeps
  DEF NextStep, Step

\* Whatever times out, the messages and the data stay well-formed, a rank holds
\* addresses of ranks only, and its ring is the one the root has planned.
THEOREM UidBootstrapInit == Spec => []InitInv
<1>1. Init => InitInv
  BY InitInvAtStart
<1>2. InitInv /\ [NextStep]_vars => InitInv'
  BY InitInvKept
<1> QED BY <1>1, <1>2, PTL DEF Spec

-----------------------------------------------------------------------------
(* Counting: collectives, slices and messages. *)

\* The calls before one.
LEMMA BeforeIs ==
  ASSUME NEW kind, NEW k \in Nat
  PROVE  /\ Before(kind, k) \in Nat
         /\ Before(kind, k + 1) = Before(kind, k) + IF Kind(k) = kind THEN 1 ELSE 0
<1> DEFINE A == {j \in 0..k - 1 : Kind(j) = kind}
           B == {j \in 0..(k + 1) - 1 : Kind(j) = kind}
<1>1. IsFiniteSet(0..k - 1)
  BY FS_Interval
<1>2. IsFiniteSet(A) /\ Cardinality(A) \in Nat
  BY <1>1, FS_Subset, FS_CardinalityType
<1>3. k \notin A /\ B = IF Kind(k) = kind THEN A \cup {k} ELSE A
  OBVIOUS
<1>4. Before(kind, k) = Cardinality(A) /\ Before(kind, k + 1) = Cardinality(B)
  BY DEF Before
<1> HIDE DEF A, B
<1>5. Cardinality(A \cup {k}) = Cardinality(A) + 1
  BY <1>2, <1>3, FS_AddElement
<1> QED BY <1>2, <1>3, <1>4, <1>5

\* Later there are not fewer,
LEMMA BeforeGrows ==
  ASSUME NEW kind, NEW j \in Nat, NEW k \in Nat, j <= k
  PROVE  Before(kind, j) <= Before(kind, k)
<1> DEFINE S == {n \in Nat : j <= n => Before(kind, j) <= Before(kind, n)}
<1>1. Before(kind, j) \in Nat
  BY BeforeIs
<1>2. 0 \in S
  <2>1. j <= 0 => j = 0
    OBVIOUS
  <2> QED BY <1>1, <2>1
<1>3. ASSUME NEW n \in Nat, n \in S PROVE n + 1 \in S
  <2>1. /\ Before(kind, n) \in Nat /\ Before(kind, n + 1) >= Before(kind, n)
        /\ Before(kind, n + 1) \in Nat
    <3>1. /\ Before(kind, n) \in Nat
          /\ Before(kind, n + 1) = Before(kind, n) + IF Kind(n) = kind THEN 1 ELSE 0
      BY BeforeIs
    <3> QED BY <3>1
  <2>2. j <= n + 1 => j <= n \/ j = n + 1
    OBVIOUS
  <2> QED BY <1>1, <1>3, <2>1, <2>2
<1> HIDE DEF S
<1>4. Nat \subseteq S
  BY <1>2, <1>3, InductionOnSets
<1> QED BY <1>4 DEF S

\* and so for the slices of the gathers, of which each has one less than ranks.
LEMMA SlicesAre ==
  ASSUME NEW k \in Nat
  PROVE  /\ SlicesBefore(k) \in Nat
         /\ SlicesBefore(k + 1) = SlicesBefore(k) + IF Kind(k) = "gather" THEN nranks - 1 ELSE 0
<1>1. /\ Before("gather", k) \in Nat
      /\ Before("gather", k + 1) = Before("gather", k) + IF Kind(k) = "gather" THEN 1 ELSE 0
  BY BeforeIs
<1>2. nranks - 1 \in Nat
  BY UidAssumption
<1>3. \A a, b \in Nat : a * b \in Nat /\ a * (b + 1) = a * b + a /\ a * (b + 0) = a * b
  OBVIOUS
<1> QED BY <1>1, <1>2, <1>3 DEF SlicesBefore

\* They never become fewer.
LEMMA SlicesGrow ==
  ASSUME NEW j \in Nat, NEW k \in Nat, j <= k
  PROVE  SlicesBefore(j) <= SlicesBefore(k)
<1>1. Before("gather", j) \in Nat /\ Before("gather", k) \in Nat /\ nranks - 1 \in Nat
  BY BeforeIs, UidAssumption
<1>2. Before("gather", j) <= Before("gather", k)
  BY BeforeGrows
<1>3. \A a, b, c \in Nat : b <= c => a * b <= a * c
  OBVIOUS
<1> QED BY <1>1, <1>2, <1>3 DEF SlicesBefore

\* The place of a slice in the stream tells its gather and whose it is.
LEMMA SlicesDiffer ==
  ASSUME NEW j \in Nat, NEW k \in Nat, NEW d \in 0..nranks - 2, NEW e \in 0..nranks - 2,
         Kind(j) = "gather", Kind(k) = "gather",
         SlicesBefore(j) + d = SlicesBefore(k) + e
  PROVE  j = k /\ d = e
<1>1. nranks \in Nat /\ nranks >= 2
  BY UidAssumption
<1>2. /\ SlicesBefore(j) \in Nat /\ SlicesBefore(j + 1) = SlicesBefore(j) + (nranks - 1)
      /\ SlicesBefore(k) \in Nat /\ SlicesBefore(k + 1) = SlicesBefore(k) + (nranks - 1)
  BY SlicesAre
<1>3. j < k => SlicesBefore(j + 1) <= SlicesBefore(k)
  <2>1. j < k => j + 1 <= k /\ j + 1 \in Nat
    OBVIOUS
  <2> QED BY <2>1, SlicesGrow
<1>4. k < j => SlicesBefore(k + 1) <= SlicesBefore(j)
  <2>1. k < j => k + 1 <= j /\ k + 1 \in Nat
    OBVIOUS
  <2> QED BY <2>1, SlicesGrow
<1>5. ~(j < k) /\ ~(k < j)
  BY <1>1, <1>2, <1>3, <1>4
<1>6. j = k
  BY <1>5
<1> QED BY <1>1, <1>2, <1>6

\* How many elements of a sequence are e, when one of them is taken out.
LEMMA CountWithout ==
  ASSUME NEW S, NEW s \in Seq(S), NEW t \in Seq(S), NEW i \in 1..Len(s), NEW e,
         Len(s) = Len(t) + 1,
         \A j \in 1..Len(t) : t[j] = IF j < i THEN s[j] ELSE s[j + 1]
  PROVE  /\ Count(s, e) \in Nat /\ Count(t, e) \in Nat
         /\ Count(s, e) = Count(t, e) + IF s[i] = e THEN 1 ELSE 0
<1> DEFINE n == Len(s)
           m == Len(t)
           A == {j \in 1..m : t[j] = e}
           B == {j \in 1..n : s[j] = e}
           C == {j \in 1..n : s[j] = e /\ j # i}
           f == [j \in A |-> IF j < i THEN j ELSE j + 1]
<1>1. n \in Nat /\ m \in Nat /\ n = m + 1 /\ i \in 1..n
  OBVIOUS
<1>2. Count(s, e) = Cardinality(B) /\ Count(t, e) = Cardinality(A)
  <2>1. DOMAIN s = 1..n /\ DOMAIN t = 1..m
    OBVIOUS
  <2> HIDE DEF n, m
  <2> QED BY <2>1 DEF Count
<1> HIDE DEF n, m
<1>3. IsFiniteSet(A) /\ IsFiniteSet(C) /\ Cardinality(A) \in Nat /\ Cardinality(C) \in Nat
  <2>1. IsFiniteSet(1..m) /\ IsFiniteSet(1..n)
    <3>1. 1 \in Int /\ m \in Int /\ n \in Int
      BY <1>1
    <3> QED BY <3>1, FS_Interval
  <2>2. A \subseteq 1..m /\ C \subseteq 1..n
    OBVIOUS
  <2> HIDE DEF A, C
  <2> QED BY <2>1, <2>2, FS_Subset, FS_CardinalityType
<1>4. \A j \in 1..m : t[j] = IF j < i THEN s[j] ELSE s[j + 1]
  BY DEF m
<1>5. f \in Bijection(A, C)
  <2>1. ASSUME NEW j \in A PROVE f[j] \in C
    BY <1>1, <1>4
  <2>2. ASSUME NEW j \in A, NEW k \in A, f[j] = f[k] PROVE j = k
    BY <1>1, <2>2
  <2>3. ASSUME NEW k \in C PROVE \E j \in A : f[j] = k
    <3>1. CASE k < i
      <4>1. k \in A /\ f[k] = k
        BY <1>1, <1>4, <3>1
      <4> QED BY <4>1
    <3>2. CASE ~(k < i)
      <4>1. k - 1 \in 1..m /\ ~(k - 1 < i) /\ (k - 1) + 1 = k
        BY <1>1, <3>2
      <4>2. k - 1 \in A
        BY <1>4, <4>1
      <4>3. f[k - 1] = k
        BY <4>1, <4>2
      <4> QED BY <4>2, <4>3
    <3> QED BY <3>1, <3>2
  <2>4. f \in [A -> C]
    BY <2>1
  <2> HIDE DEF f, A, C
  <2>5. f \in Injection(A, C)
    BY <2>2, <2>4 DEF Injection, IsInjective
  <2>6. f \in Surjection(A, C)
    BY <2>3, <2>4 DEF Surjection
  <2> QED BY <2>5, <2>6 DEF Bijection
<1>6. B = (IF s[i] = e THEN C \cup {i} ELSE C) /\ i \notin C
  BY <1>1
<1> HIDE DEF A, B, C, f
<1>7. Cardinality(A) = Cardinality(C)
  BY <1>3, <1>5, FS_Bijection DEF ExistsBijection
<1>8. Cardinality(C \cup {i}) = Cardinality(C) + 1
  BY <1>3, <1>6, FS_AddElement
<1> QED BY <1>2, <1>3, <1>6, <1>7, <1>8

\* What happens to the number of e's when an element comes, or goes.
LEMMA CountIs ==
  ASSUME NEW S, NEW s \in Seq(S), NEW x \in S, NEW e
  PROVE  /\ Count(s, e) \in Nat
         /\ Count(Append(s, x), e) = Count(s, e) + IF x = e THEN 1 ELSE 0
         /\ Count(<<x>> \o s, e) = Count(s, e) + IF x = e THEN 1 ELSE 0
         /\ s # <<>> => Count(Tail(s), e) = Count(s, e) - IF Head(s) = e THEN 1 ELSE 0
         /\ \A i \in DOMAIN s : s[i] = e => Count(s, e) > 0
<1> DEFINE n == Len(s)
           t == Append(s, x)
           u == <<x>> \o s
<1>1. n \in Nat
  OBVIOUS
<1>2. /\ t \in Seq(S) /\ Len(t) = n + 1 /\ t[n + 1] = x /\ n + 1 \in 1..Len(t)
      /\ \A j \in 1..n : s[j] = IF j < n + 1 THEN t[j] ELSE t[j + 1]
  OBVIOUS
<1>3. /\ u \in Seq(S) /\ Len(u) = n + 1 /\ u[1] = x /\ 1 \in 1..Len(u)
      /\ \A j \in 1..n : s[j] = IF j < 1 THEN u[j] ELSE u[j + 1]
  <2>1. u \in Seq(S) /\ Len(u) = n + 1 /\ u[1] = x
    OBVIOUS
  <2>2. \A j \in 1..n : u[j + 1] = s[j]
    OBVIOUS
  <2> HIDE DEF u, n
  <2> QED BY <1>1, <2>1, <2>2
<1>4. /\ Count(s, e) \in Nat /\ Count(t, e) = Count(s, e) + IF t[n + 1] = e THEN 1 ELSE 0
  <2> HIDE DEF t
  <2> QED BY <1>2, CountWithout
<1>5. Count(u, e) = Count(s, e) + IF u[1] = e THEN 1 ELSE 0
  <2> HIDE DEF u
  <2> QED BY <1>3, CountWithout
<1>6. ASSUME s # <<>>
      PROVE  Count(Tail(s), e) = Count(s, e) - IF Head(s) = e THEN 1 ELSE 0
  <2> DEFINE v == Tail(s)
  <2>1. /\ v \in Seq(S) /\ n = Len(v) + 1 /\ 1 \in 1..n /\ Head(s) = s[1]
        /\ \A j \in 1..Len(v) : v[j] = s[j + 1]
    BY <1>6
  <2> HIDE DEF v
  <2>2. \A j \in 1..Len(v) : v[j] = IF j < 1 THEN s[j] ELSE s[j + 1]
    BY <2>1
  <2>3. /\ Count(s, e) \in Nat /\ Count(v, e) \in Nat
        /\ Count(s, e) = Count(v, e) + IF s[1] = e THEN 1 ELSE 0
    BY <2>1, <2>2, CountWithout
  <2> QED BY <2>1, <2>3 DEF v
<1>7. ASSUME NEW i \in DOMAIN s, s[i] = e PROVE Count(s, e) > 0
  <2> DEFINE B == {j \in DOMAIN s : s[j] = e}
  <2>1. i \in B /\ B \subseteq 1..n
    BY <1>7
  <2>2. IsFiniteSet(1..n)
    <3>1. n \in Int /\ 1 \in Int
      BY <1>1
    <3> HIDE DEF n
    <3> QED BY <3>1, FS_Interval
  <2>3. Count(s, e) = Cardinality(B)
    BY DEF Count
  <2> HIDE DEF B
  <2>4. IsFiniteSet(B)
    BY <2>1, <2>2, FS_Subset
  <2>5. Cardinality(B) \in Nat /\ Cardinality(B) # 0
    BY <2>1, <2>4, FS_CardinalityType, FS_EmptySet
  <2> QED BY <2>3, <2>5
<1> HIDE DEF n, t, u
<1>8. Count(t, e) = Count(s, e) + IF x = e THEN 1 ELSE 0
  BY <1>2, <1>4
<1>9. Count(u, e) = Count(s, e) + IF x = e THEN 1 ELSE 0
  BY <1>3, <1>5
<1> QED BY <1>4, <1>6, <1>7, <1>8, <1>9 DEF t, u

\* The same, for the messages that come,
LEMMA CountMessages ==
  \A s \in Seq(Messages), x \in Messages : \A e :
    /\ Count(s, e) \in Nat
    /\ Count(Append(s, x), e) = Count(s, e) + IF x = e THEN 1 ELSE 0
    /\ Count(<<x>> \o s, e) = Count(s, e) + IF x = e THEN 1 ELSE 0
<1> SUFFICES ASSUME NEW s \in Seq(Messages), NEW x \in Messages, NEW e
             PROVE  /\ Count(s, e) \in Nat
                    /\ Count(Append(s, x), e) = Count(s, e) + IF x = e THEN 1 ELSE 0
                    /\ Count(<<x>> \o s, e) = Count(s, e) + IF x = e THEN 1 ELSE 0
  OBVIOUS
<1> QED BY CountIs

\* and for the first one when it goes.
LEMMA CountFirst ==
  \A s \in Seq(Messages) : \A e :
    s # <<>> => Count(Tail(s), e) = Count(s, e) - IF Head(s) = e THEN 1 ELSE 0
<1> SUFFICES ASSUME NEW s \in Seq(Messages), NEW e, s # <<>>
             PROVE  Count(Tail(s), e) = Count(s, e) - IF Head(s) = e THEN 1 ELSE 0
  OBVIOUS
<1> DEFINE h == Head(s)
<1>1. h \in Messages
  OBVIOUS
<1> HIDE DEF h
<1>2. /\ Count(s, e) \in Nat
      /\ Count(Append(s, h), e) = Count(s, e) + IF h = e THEN 1 ELSE 0
      /\ Count(<<h>> \o s, e) = Count(s, e) + IF h = e THEN 1 ELSE 0
      /\ s # <<>> => Count(Tail(s), e) = Count(s, e) - IF Head(s) = e THEN 1 ELSE 0
      /\ \A i \in DOMAIN s : s[i] = e => Count(s, e) > 0
  BY <1>1, CountIs
<1> QED BY <1>2

\* The first e of a sequence goes.
LEMMA RemoveFirstIs ==
  ASSUME NEW S, NEW s \in Seq(S), NEW x \in ToSet(s), NEW e
  PROVE  /\ Count(RemoveFirst(s, x), e) = Count(s, e) - IF x = e THEN 1 ELSE 0
         /\ \A i \in DOMAIN RemoveFirst(s, x) : \E j \in DOMAIN s : RemoveFirst(s, x)[i] = s[j]
<1> DEFINE I == {j \in 1..Len(s) : s[j] = x}
           i == Min(I)
           t == RemoveFirst(s, x)
           a == SubSeq(s, 1, i - 1)
           b == SubSeq(s, i + 1, Len(s))
<1>1. I # {} /\ I \subseteq Nat
  BY DEF ToSet
<1>2. i \in I
  <2> HIDE DEF I
  <2> QED BY <1>1, LeastIs
<1>3. SelectInSeq(s, LAMBDA v : v = x) = i
  BY <1>1 DEF SelectInSeq
<1>4. t = a \o b
  <2>1. \E j \in 1..Len(s) : s[j] = x
    BY <1>1
  <2>2. RemoveFirst(s, x) = RemoveAt(s, SelectInSeq(s, LAMBDA v : v = x))
    BY <2>1 DEF RemoveFirst
  <2>3. RemoveFirst(s, x) = RemoveAt(s, i)
    BY <1>3, <2>2
  <2> QED BY <2>3 DEF RemoveAt
<1>5. i \in 1..Len(s) /\ s[i] = x /\ Len(s) \in Nat
  BY <1>2
<1> HIDE DEF i, I, t
<1>6. /\ a \in Seq(S) /\ Len(a) = i - 1 /\ \A j \in 1..i - 1 : a[j] = s[j]
      /\ b \in Seq(S) /\ Len(b) = Len(s) - i /\ \A j \in 1..Len(s) - i : b[j] = s[j + i]
  BY <1>5, SubSeqProperties
<1> HIDE DEF a, b
<1>7. /\ t \in Seq(S) /\ Len(t) = Len(s) - 1
      /\ \A j \in 1..Len(t) : t[j] = IF j < i THEN s[j] ELSE s[j + 1]
  <2>1. t \in Seq(S) /\ Len(t) = Len(a) + Len(b)
    BY <1>4, <1>6, ConcatProperties
  <2>2. ASSUME NEW j \in 1..Len(t) PROVE t[j] = IF j < i THEN s[j] ELSE s[j + 1]
    <3>1. j \in 1..Len(a) + Len(b)
      BY <2>1, <2>2
    <3>2. t[j] = IF j <= Len(a) THEN a[j] ELSE b[j - Len(a)]
      BY <1>4, <1>6, <3>1
    <3>3. CASE j < i
      BY <1>5, <1>6, <3>1, <3>2, <3>3
    <3>4. CASE ~(j < i)
      <4>1. ~(j <= Len(a)) /\ j - Len(a) \in 1..Len(s) - i /\ (j - Len(a)) + i = j + 1
        BY <1>5, <1>6, <3>1, <3>4
      <4> QED BY <1>6, <3>2, <3>4, <4>1
    <3> QED BY <3>3, <3>4
  <2> QED BY <1>5, <1>6, <2>1, <2>2
<1>8. Count(t, e) = Count(s, e) - IF x = e THEN 1 ELSE 0
  <2>1. /\ Count(s, e) \in Nat /\ Count(t, e) \in Nat
        /\ Count(s, e) = Count(t, e) + IF s[i] = e THEN 1 ELSE 0
    <3>1. Len(s) = Len(t) + 1
      BY <1>5, <1>7
    <3>2. i \in 1..Len(s) /\ t \in Seq(S)
      BY <1>5, <1>7
    <3>3. \A j \in 1..Len(t) : t[j] = IF j < i THEN s[j] ELSE s[j + 1]
      BY <1>7
    <3> QED BY <3>1, <3>2, <3>3, CountWithout
  <2> QED BY <1>5, <2>1
<1>9. ASSUME NEW k \in DOMAIN t PROVE \E j \in DOMAIN s : t[k] = s[j]
  <2>1. k \in 1..Len(t) /\ k \in DOMAIN s /\ k + 1 \in DOMAIN s
    BY <1>5, <1>7
  <2> QED BY <1>7, <2>1
<1> QED BY <1>8, <1>9 DEF t

-----------------------------------------------------------------------------
(* The collectives, as long as nothing has timed out. *)

\* The numbers in the invariant.
LEMMA NumbersAre ==
  ASSUME TypeOK, NEW r \in Ranks
  PROVE  /\ calls[r] \in Nat /\ calls[r] <= Len(Program) /\ Len(Program) \in Nat
         /\ step[r] \in Nat /\ done[r] \in Int /\ done[r] >= -1
         /\ SlicesSent(r) \in Nat /\ SlicesRead(r) \in Nat /\ Len(stream[r]) \in Nat
         /\ \A k : SentIn(r, k) \in Nat /\ ReceivedIn(r, k) \in Nat
         /\ nranks \in Nat /\ nranks >= 2 /\ r \in Int /\ r # nranks
<1>1. Len(Program) \in Nat /\ nranks \in Nat /\ nranks >= 2 /\ r \in Int /\ r # nranks
  BY UidAssumption DEF Ranks
<1>2. /\ calls[r] \in 0..Len(Program) /\ step[r] \in Nat /\ done[r] \in -1..Len(Program)
      /\ stream[r] \in Seq(Slices)
  BY DEF TypeOK
<1>3. calls[r] \in Nat /\ calls[r] + 1 \in Nat
  BY <1>1, <1>2
<1>4. SlicesBefore(calls[r]) \in Nat /\ SlicesBefore(calls[r] + 1) \in Nat /\ Before("barrier", calls[r]) \in Nat
  BY <1>3, SlicesAre, BeforeIs
<1>5. SlicesSent(r) \in Nat /\ SlicesRead(r) \in Nat
  BY <1>2, <1>4 DEF SlicesSent, SlicesRead
<1>6. \A k : SentIn(r, k) \in Nat /\ ReceivedIn(r, k) \in Nat
  BY <1>4 DEF SentIn, ReceivedIn
<1> QED BY <1>1, <1>2, <1>3, <1>5, <1>6

\* The other ranks do not move.
Others(r) ==
  \A q \in Ranks \ {r} :
    /\ pc'[q] = pc[q] /\ calls'[q] = calls[q] /\ step'[q] = step[q]
    /\ done'[q] = done[q] /\ out'[q] = out[q]

\* What they send and receive stays, and where they are in their calls.
LEMMA OthersStay ==
  ASSUME TypeOK, AllInTime, NEW r \in Ranks, Others(r),
         calls'[r] \in Nat, calls'[r] >= calls[r], refused' = refused,
         NEW q \in Ranks \ {r}
  PROVE  /\ SlicesSent(q)' = SlicesSent(q) /\ SlicesRead(q)' = SlicesRead(q)
         /\ Connected(q)' <=> Connected(q)
         /\ \A k \in Nat : SentIn(q, k)' = SentIn(q, k) /\ ReceivedIn(q, k)' = ReceivedIn(q, k)
         /\ InTime(q)' /\ OutIs(q)' /\ CameTo(q)'
<1>1. /\ pc'[q] = pc[q] /\ calls'[q] = calls[q] /\ step'[q] = step[q]
      /\ done'[q] = done[q] /\ out'[q] = out[q]
  BY DEF Others
<1>2. \A s \in Ranks : calls[s] \in Nat /\ calls'[s] \in Nat /\ calls'[s] >= calls[s]
  <2>1. \A s \in Ranks : calls[s] \in Nat
    BY NumbersAre
  <2> QED BY <2>1 DEF Others
<1>3. InTime(q) /\ OutIs(q) /\ CameTo(q)
  BY DEF AllInTime
<1>4. SlicesSent(q)' = SlicesSent(q) /\ SlicesRead(q)' = SlicesRead(q) /\ (Connected(q)' <=> Connected(q))
  BY <1>1 DEF SlicesSent, SlicesRead, Connected
<1>5. \A k \in Nat : SentIn(q, k)' = SentIn(q, k) /\ ReceivedIn(q, k)' = ReceivedIn(q, k)
  BY <1>1 DEF SentIn, ReceivedIn
<1>6. InTime(q)'
  BY <1>1, <1>3 DEF InTime
<1>7. OutIs(q)'
  BY <1>1, <1>3 DEF OutIs
<1>8. CameTo(q)'
  <2>1. ASSUME pc'[q] \in Meeting, NEW d \in 0..nranks - 1, d < Shift[step'[q]]
        PROVE  calls'[Minus(q, d)] >= calls'[q]
    <3>1. d \in 0..nranks
      BY UidAssumption, <2>1
    <3>2. Minus(q, d) \in Ranks
      BY <3>1, MinusIs
    <3>3. calls[Minus(q, d)] >= calls[q]
      BY <1>1, <1>3, <2>1 DEF CameTo
    <3>4. calls'[Minus(q, d)] >= calls[Minus(q, d)] /\ calls'[Minus(q, d)] \in Nat /\ calls[Minus(q, d)] \in Nat
          /\ calls[q] \in Nat
      BY <1>2, <3>2
    <3> QED BY <1>1, <3>3, <3>4
  <2>2. ASSUME NEW j \in 1..Len(Program), NEW s \in Ranks, Kind(j) = "barrier",
               j < calls'[q] \/ (j = calls'[q] /\ pc'[q] \in {"ready", "closed"})
        PROVE  calls'[s] >= j
    <3>1. calls[s] >= j
      BY <1>1, <1>3, <2>2 DEF CameTo
    <3>2. calls'[s] >= calls[s] /\ calls'[s] \in Nat /\ calls[s] \in Nat /\ j \in Int
      BY <1>2
    <3> QED BY <3>1, <3>2
  <2> QED BY <2>1, <2>2 DEF CameTo
<1> QED BY <1>4, <1>5, <1>6, <1>7, <1>8

\* The streams stay what they are when nobody sends or reads.
LEMMA StreamsStay ==
  ASSUME AllInTime, stream' = stream,
         \A q \in Ranks : SlicesSent(q)' = SlicesSent(q) /\ SlicesRead(q)' = SlicesRead(q)
  PROVE  \A q \in Ranks : StreamIs(q)'
<1> SUFFICES ASSUME NEW q \in Ranks PROVE StreamIs(q)'
  OBVIOUS
<1>1. StreamIs(q) /\ Minus(q, 1) \in Ranks
  BY RingOfRanks DEF AllInTime
<1>2. /\ SlicesRead(q)' = SlicesRead(q)
      /\ SlicesSent(Minus(q, 1))' = SlicesSent(Minus(q, 1))
  BY <1>1
<1> QED BY <1>1, <1>2 DEF StreamIs

\* The rank that is a shift back is one of the ring, and the one a shift ahead.
LEMMA RoundsAre ==
  ASSUME NEW r \in Ranks, NEW k \in Rounds
  PROVE  /\ k \in Nat /\ Shift[k] \in 0..nranks - 1 /\ Shift[k] \in 0..nranks /\ Shift[k] > 0
         /\ Minus(r, Shift[k]) \in Ranks
<1>1. k \in Nat /\ Shift[k] < nranks /\ nranks \in Nat
  BY UidAssumption DEF Rounds
<1>2. Shift[k] \in Nat /\ Shift[k] > k
  BY <1>1, ShiftIsLarge
<1>3. Shift[k] \in 0..nranks - 1 /\ Shift[k] \in 0..nranks /\ Shift[k] > 0
  BY <1>1, <1>2
<1> QED BY <1>1, <1>3, MinusIs

\* The messages stay what they are when nobody sends or receives.
LEMMA MessagesStay ==
  ASSUME AllInTime, UNCHANGED <<backlog, unexpected, ring>>,
         \A q \in Ranks : /\ Connected(q)' <=> Connected(q)
                          /\ \A k \in Nat : SentIn(q, k)' = SentIn(q, k) /\ ReceivedIn(q, k)' = ReceivedIn(q, k)
  PROVE  \A q \in Ranks : MessagesAre(q)'
<1> SUFFICES ASSUME NEW q \in Ranks PROVE MessagesAre(q)'
  OBVIOUS
<1>1. MessagesAre(q) /\ Minus(q, 1) \in Ranks
  BY RingOfRanks DEF AllInTime
<1>2. \A k \in Rounds : /\ SentIn(Minus(q, Shift[k]), k)' = SentIn(Minus(q, Shift[k]), k)
                        /\ ReceivedIn(q, k)' = ReceivedIn(q, k)
  BY RoundsAre
<1>3. Connected(Minus(q, 1))' <=> Connected(Minus(q, 1))
  BY <1>1
<1> QED BY <1>1, <1>2, <1>3 DEF MessagesAre

\* The steps towards the ring matter to none of this.
LEMMA OnTheWayInTime ==
  ASSUME TypeOK, AllInTime, OnTheWay
  PROVE  AllInTime'
<1>1. UNCHANGED <<backlog, unexpected, ring, stream, out, peers, step, calls, done, refused>>
  BY DEF OnTheWay
<1>2. \A q \in Ranks : pc'[q] = pc[q] \/ (pc[q] \in Joining \ {"ring"} /\ pc'[q] \in Joining \ {"ring"})
  BY DEF OnTheWay, TypeOK, Joining
<1>3. ASSUME NEW q \in Ranks
      PROVE  /\ SlicesSent(q)' = SlicesSent(q) /\ SlicesRead(q)' = SlicesRead(q)
             /\ Connected(q)' <=> Connected(q)
             /\ \A k \in Nat : SentIn(q, k)' = SentIn(q, k) /\ ReceivedIn(q, k)' = ReceivedIn(q, k)
             /\ InTime(q)' /\ OutIs(q)' /\ CameTo(q)'
  <2>1. InTime(q) /\ OutIs(q) /\ CameTo(q)
    BY DEF AllInTime
  <2>2. CASE pc'[q] = pc[q]
    BY <1>1, <2>1, <2>2 DEF SlicesSent, SlicesRead, Connected, SentIn, ReceivedIn, InTime, OutIs, CameTo
  <2>3. CASE pc[q] \in Joining \ {"ring"} /\ pc'[q] \in Joining \ {"ring"}
    <3>1. /\ pc[q] \notin {"ready", "closed", "failed", "gatherSend", "gatherRecv", "barrierSend", "barrierRecv"}
          /\ pc'[q] \notin {"ready", "closed", "failed", "gatherSend", "gatherRecv", "barrierSend", "barrierRecv"}
      BY <2>3 DEF Joining
    <3>2. SlicesSent(q)' = SlicesSent(q) /\ SlicesRead(q)' = SlicesRead(q)
      BY <1>1, <3>1 DEF SlicesSent, SlicesRead, Gathering
    <3>3. Connected(q)' <=> Connected(q)
      BY <2>3 DEF Connected
    <3>4. \A k \in Nat : SentIn(q, k)' = SentIn(q, k) /\ ReceivedIn(q, k)' = ReceivedIn(q, k)
      BY <1>1, <3>1 DEF SentIn, ReceivedIn, Meeting
    <3>5. InTime(q)' /\ OutIs(q)' /\ CameTo(q)'
      BY <1>1, <2>1, <3>1 DEF InTime, OutIs, CameTo, Gathering, Meeting
    <3> QED BY <3>2, <3>3, <3>4, <3>5
  <2> QED BY <1>2, <2>2, <2>3
<1>4. \A q \in Ranks : StreamIs(q)'
  BY <1>1, <1>3, StreamsStay
<1>5. \A q \in Ranks : MessagesAre(q)'
  BY <1>1, <1>3, MessagesStay
<1> QED BY <1>3, <1>4, <1>5 DEF AllInTime

\* The message to the next rank is under way, and expected there.
LEMMA ConnectToNextInTime ==
  ASSUME InitInv, AllInTime, NEW r \in Ranks, ConnectToNext(r)
  PROVE  AllInTime'
<1> DEFINE n == Next(r)
           m == [from |-> r, tag |-> 0]
<1>1. n \in Ranks /\ Minus(n, 1) = r /\ \A q \in Ranks : Minus(q, 1) = r => q = n
  BY RingOfRanks
<1>2. TypeOK /\ \A q \in Ranks : PlaceIs(q)
  BY DEF InitInv
<1>3. next[r] = n /\ pc[r] = "next" /\ pc \in [Ranks -> Places] /\ backlog \in [Ranks -> Seq(Messages)]
  BY <1>2 DEF ConnectToNext, PlaceIs, TypeOK
<1>4. backlog' = [backlog EXCEPT ![n] = Append(@, m)] /\ pc' = [pc EXCEPT ![r] = "ring"]
  BY <1>3 DEF ConnectToNext, Connect, Goto
<1>5. UNCHANGED <<unexpected, ring, stream, out, peers, step, calls, done, refused>>
  BY DEF ConnectToNext, rendezvous, failures
<1>6. m \in Messages
  BY DEF Messages
<1>7. /\ Others(r) /\ pc'[r] = "ring" /\ calls'[r] \in Nat /\ calls'[r] >= calls[r]
      /\ InTime(r) /\ OutIs(r) /\ CameTo(r)
  <2>1. calls[r] \in Nat
    BY <1>2, NumbersAre
  <2>2. InTime(r) /\ OutIs(r) /\ CameTo(r)
    BY DEF AllInTime
  <2> QED BY <1>3, <1>4, <1>5, <2>1, <2>2 DEF Others
<1>8. /\ SlicesSent(r)' = SlicesSent(r) /\ SlicesRead(r)' = SlicesRead(r)
      /\ Connected(r)' /\ ~Connected(r)
      /\ \A k \in Nat : SentIn(r, k)' = SentIn(r, k) /\ ReceivedIn(r, k)' = ReceivedIn(r, k)
  BY <1>3, <1>5, <1>7 DEF SlicesSent, SlicesRead, Connected, SentIn, ReceivedIn, Joining, Gathering, Meeting
<1>9. InTime(r)' /\ OutIs(r)' /\ CameTo(r)'
  BY <1>3, <1>5, <1>7 DEF InTime, OutIs, CameTo, Gathering, Meeting
<1>10. ASSUME NEW q \in Ranks
       PROVE  /\ SlicesSent(q)' = SlicesSent(q) /\ SlicesRead(q)' = SlicesRead(q)
              /\ q # r => (Connected(q)' <=> Connected(q))
              /\ \A k \in Nat : SentIn(q, k)' = SentIn(q, k) /\ ReceivedIn(q, k)' = ReceivedIn(q, k)
              /\ InTime(q)' /\ OutIs(q)' /\ CameTo(q)'
  BY <1>2, <1>5, <1>7, <1>8, <1>9, OthersStay
<1>11. \A q \in Ranks : StreamIs(q)'
  BY <1>5, <1>10, StreamsStay
<1> HIDE DEF n, m
<1>12. ASSUME NEW q \in Ranks PROVE MessagesAre(q)'
  <2>1. MessagesAre(q) /\ Minus(q, 1) \in Ranks
    BY RingOfRanks DEF AllInTime
  <2>2. \A k \in Rounds : /\ SentIn(Minus(q, Shift[k]), k)' = SentIn(Minus(q, Shift[k]), k)
                          /\ ReceivedIn(q, k)' = ReceivedIn(q, k)
    BY <1>10, RoundsAre
  <2>3. CASE q # n
    <3>1. backlog'[q] = backlog[q] /\ (Connected(Minus(q, 1))' <=> Connected(Minus(q, 1)))
      BY <1>1, <1>3, <1>4, <1>10, <2>1, <2>3
    <3> QED BY <1>5, <2>1, <2>2, <3>1 DEF MessagesAre
  <2>4. CASE q = n
    <3>1. /\ backlog'[q] = Append(backlog[q], m) /\ backlog[q] \in Seq(Messages) /\ m = RingMessage(q)
          /\ Connected(Minus(q, 1))' /\ ~Connected(Minus(q, 1))
      BY <1>1, <1>3, <1>4, <1>8, <2>4 DEF m, RingMessage
    <3>2. \A e : Count(backlog'[q], e) = Count(backlog[q], e) + IF m = e THEN 1 ELSE 0
      <4>1. ASSUME NEW e
            PROVE  Count(Append(backlog[q], m), e) = Count(backlog[q], e) + IF m = e THEN 1 ELSE 0
        <5>1. m \in Messages /\ backlog[q] \in Seq(Messages)
          BY <1>6, <3>1
        <5> QED BY <5>1, CountMessages
      <4> QED BY <3>1, <4>1
    <3>3. ASSUME NEW k \in Rounds PROVE m # RoundMessage(q, k)
      <4>1. k + 1 # 0
        BY RoundsAre
      <4> QED BY <4>1 DEF m, RoundMessage
    <3>4. \A e : Count(backlog[q], e) \in Nat /\ Count(unexpected[q], e) \in Nat
      <4>1. backlog[q] \in Seq(Messages) /\ unexpected[q] \in Seq(Messages)
        BY <1>2 DEF TypeOK
      <4> QED BY <1>6, <4>1, CountIs
    <3>5. \A k \in Rounds : Count(backlog'[q], RoundMessage(q, k)) = Count(backlog[q], RoundMessage(q, k))
      BY <3>2, <3>3, <3>4
    <3>6. Count(backlog'[q], RingMessage(q)) = Count(backlog[q], RingMessage(q)) + 1
      BY <3>1, <3>2
    <3>7. Count(backlog[q], RingMessage(q)) = 0 - (IF ring[q] # nranks THEN 1 ELSE 0)
      BY <2>1, <3>1 DEF MessagesAre
    <3>8. Count(backlog'[q], RingMessage(q)) = 1 - (IF ring'[q] # nranks THEN 1 ELSE 0)
      BY <1>5, <3>6, <3>7
    <3>9. ASSUME NEW i \in DOMAIN backlog'[q]
          PROVE  backlog'[q][i] = RingMessage(q) \/ \E k \in Rounds : backlog'[q][i] = RoundMessage(q, k)
      <4>1. (i \in DOMAIN backlog[q] /\ backlog'[q][i] = backlog[q][i]) \/ backlog'[q][i] = m
        BY <1>6, <3>1
      <4> QED BY <2>1, <3>1, <4>1 DEF MessagesAre
    <3>10. RingMessage(q)' = RingMessage(q) /\ \A k : RoundMessage(q, k)' = RoundMessage(q, k)
      BY DEF RingMessage, RoundMessage
    <3>11. /\ \A k \in Rounds :
                Count(backlog'[q], RoundMessage(q, k)) + Count(unexpected'[q], RoundMessage(q, k))
                  = SentIn(Minus(q, Shift[k]), k)' - ReceivedIn(q, k)'
           /\ \A i \in DOMAIN unexpected'[q] : \E k \in Rounds : unexpected'[q][i] = RoundMessage(q, k)
      BY <1>5, <2>1, <2>2, <3>5 DEF MessagesAre
    <3> QED BY <3>1, <3>8, <3>9, <3>10, <3>11 DEF MessagesAre
  <2> QED BY <2>3, <2>4
<1> QED BY <1>10, <1>11, <1>12 DEF AllInTime

\* The message of the rank before makes the ring.
LEMMA AcceptRingInTime ==
  ASSUME InitInv, AllInTime, NEW r \in Ranks, AcceptRing(r)
  PROVE  AllInTime'
<1> DEFINE p == Minus(r, 1)
           b == backlog[r]
<1>1. TypeOK /\ PlaceIs(r) /\ RingIsFree(r) /\ InTime(r) /\ OutIs(r) /\ CameTo(r) /\ MessagesAre(r)
  BY DEF InitInv, AllInTime
<1>2. p \in Ranks /\ p # nranks /\ Minus(r, 0) = r
  <2>1. p \in Ranks /\ Minus(r, 0) = r
    BY RingOfRanks
  <2> HIDE DEF p
  <2> QED BY <2>1 , UidAssumption DEF Ranks
<1>3. /\ pc[r] = "ring" /\ b # <<>> /\ b \in Seq(Messages) /\ unexpected[r] \in Seq(Messages)
      /\ pc \in [Ranks -> Places] /\ backlog \in [Ranks -> Seq(Messages)]
      /\ ring \in [Ranks -> 0..nranks]
      /\ out \in [Ranks -> [Ranks -> [call : Nat, owner : 0..nranks]]]
  BY <1>1 DEF AcceptRing, Accept, TypeOK
<1>4. ring[r] = nranks /\ done[r] = -1 /\ step[r] = 0 /\ calls[r] = 0
  BY <1>1, <1>3 DEF PlaceIs, Joining
<1>5. Head(b) = RingMessage(r) /\ Head(b).from = p
  <2>1. Head(b) = b[1] /\ 1 \in DOMAIN b
    BY <1>3
  <2>2. b[1] = [from |-> p, tag |-> 0]
    BY <1>1, <1>4, <2>1 DEF RingIsFree
  <2> QED BY <2>1, <2>2 DEF RingMessage
<1>6. /\ ring' = [ring EXCEPT ![r] = p] /\ pc' = [pc EXCEPT ![r] = "gatherSend"]
      /\ out' = [out EXCEPT ![r][r] = Slice(0, r)]
      /\ backlog' = [backlog EXCEPT ![r] = Tail(b)]
  BY <1>5 DEF AcceptRing, Accept, Goto
<1>7. UNCHANGED <<unexpected, stream, peers, step, calls, done, refused>>
  BY DEF AcceptRing, rendezvous, failures
<1> HIDE DEF p, b
<1>8. /\ pc'[r] = "gatherSend" /\ out'[r][r] = Slice(0, r) /\ backlog'[r] = Tail(b) /\ ring'[r] = p
      /\ Others(r) /\ calls'[r] \in Nat /\ calls'[r] >= calls[r]
      /\ \A q \in Ranks \ {r} : backlog'[q] = backlog[q] /\ ring'[q] = ring[q]
  BY <1>3, <1>4, <1>6, <1>7 DEF Others
<1>9. /\ SlicesSent(r)' = SlicesSent(r) /\ SlicesRead(r)' = SlicesRead(r)
      /\ Connected(r)' <=> Connected(r)
      /\ \A k \in Nat : SentIn(r, k)' = SentIn(r, k) /\ ReceivedIn(r, k)' = ReceivedIn(r, k)
  <2>1. SlicesBefore(0) \in Nat
    BY SlicesAre
  <2>2. calls'[r] = 0 /\ step'[r] = 0
    BY <1>4, <1>7
  <2> QED BY <1>3, <1>4, <1>8, <2>1, <2>2
        DEF SlicesSent, SlicesRead, Connected, SentIn, ReceivedIn, Joining, Gathering, Meeting
<1>10. InTime(r)' /\ OutIs(r)' /\ CameTo(r)'
  <2>1. calls'[r] = 0 /\ step'[r] = 0 /\ done'[r] = -1
    BY <1>4, <1>7
  <2>2. InTime(r)'
    BY <1>1, <1>7, <1>8, <2>1 DEF InTime, Meeting
  <2>3. OutIs(r)'
    BY <1>2, <1>8, <2>1 DEF OutIs, Gathering
  <2>4. CameTo(r)'
    BY <1>1, <1>3, <1>7, <1>8, <2>1 DEF CameTo, Meeting
  <2> QED BY <2>2, <2>3, <2>4
<1>11. ASSUME NEW q \in Ranks
       PROVE  /\ SlicesSent(q)' = SlicesSent(q) /\ SlicesRead(q)' = SlicesRead(q)
              /\ Connected(q)' <=> Connected(q)
              /\ \A k \in Nat : SentIn(q, k)' = SentIn(q, k) /\ ReceivedIn(q, k)' = ReceivedIn(q, k)
              /\ InTime(q)' /\ OutIs(q)' /\ CameTo(q)'
  BY <1>1, <1>7, <1>8, <1>9, <1>10, OthersStay
<1>12. \A q \in Ranks : StreamIs(q)'
  BY <1>7, <1>11, StreamsStay
<1>13. ASSUME NEW q \in Ranks PROVE MessagesAre(q)'
  <2>1. MessagesAre(q) /\ Minus(q, 1) \in Ranks
    BY RingOfRanks DEF AllInTime
  <2>2. /\ \A k \in Rounds : /\ SentIn(Minus(q, Shift[k]), k)' = SentIn(Minus(q, Shift[k]), k)
                             /\ ReceivedIn(q, k)' = ReceivedIn(q, k)
        /\ Connected(Minus(q, 1))' <=> Connected(Minus(q, 1))
    BY <1>11, <2>1, RoundsAre
  <2>3. CASE q # r
    <3>1. backlog'[q] = backlog[q] /\ ring'[q] = ring[q]
      BY <1>8, <2>3
    <3> QED BY <1>7, <2>1, <2>2, <3>1 DEF MessagesAre
  <2>4. CASE q = r
    <3>1. \A e : /\ Count(b, e) \in Nat
                 /\ Count(backlog'[r], e) = Count(b, e) - IF RingMessage(r) = e THEN 1 ELSE 0
      <4>1. Head(b) \in Messages
        BY <1>3
      <4>2. ASSUME NEW e
            PROVE  Count(b, e) \in Nat /\ Count(Tail(b), e) = Count(b, e) - IF Head(b) = e THEN 1 ELSE 0
        BY <1>3, <4>1, CountMessages, CountFirst
      <4> QED BY <1>5, <1>8, <4>2
    <3>2. ASSUME NEW k \in Rounds PROVE RingMessage(r) # RoundMessage(r, k)
      <4>1. k + 1 # 0
        BY RoundsAre
      <4> QED BY <4>1 DEF RingMessage, RoundMessage
    <3>3. \A k \in Rounds : Count(backlog'[r], RoundMessage(r, k)) = Count(b, RoundMessage(r, k))
      BY <3>1, <3>2
    <3>4. Count(backlog'[r], RingMessage(r)) = Count(b, RingMessage(r)) - 1
      BY <3>1
    <3>5. Count(b, RingMessage(r)) = (IF Connected(Minus(r, 1)) THEN 1 ELSE 0) - 0
      BY <1>4, <1>1 DEF MessagesAre, b
    <3>6. Count(backlog'[r], RingMessage(r)) = (IF Connected(Minus(r, 1))' THEN 1 ELSE 0) - 1
      BY <2>2, <2>4, <3>4, <3>5
    <3>7. ASSUME NEW i \in DOMAIN backlog'[r]
          PROVE  backlog'[r][i] = RingMessage(r) \/ \E k \in Rounds : backlog'[r][i] = RoundMessage(r, k)
      <4>1. i + 1 \in DOMAIN b /\ backlog'[r][i] = b[i + 1]
        <5>1. i \in DOMAIN Tail(b) /\ backlog'[r] = Tail(b)
          BY <1>8, <3>7
        <5> QED BY <1>3, <5>1
      <4> QED BY <1>1, <4>1 DEF MessagesAre, b
    <3>8. RingMessage(r)' = RingMessage(r) /\ \A k : RoundMessage(r, k)' = RoundMessage(r, k)
      BY DEF RingMessage, RoundMessage
    <3>9. /\ \A k \in Rounds :
                Count(backlog'[r], RoundMessage(r, k)) + Count(unexpected'[r], RoundMessage(r, k))
                  = SentIn(Minus(r, Shift[k]), k)' - ReceivedIn(r, k)'
          /\ \A i \in DOMAIN unexpected'[r] : \E k \in Rounds : unexpected'[r][i] = RoundMessage(r, k)
      BY <1>1, <1>7, <2>2, <2>4, <3>3 DEF MessagesAre, b
    <3>10. ring'[r] # nranks
      BY <1>2, <1>8
    <3> QED BY <2>4, <3>6, <3>7, <3>8, <3>9, <3>10 DEF MessagesAre
  <2> QED BY <2>3, <2>4
<1> QED BY <1>11, <1>12, <1>13 DEF AllInTime

\* A new call begins where the last one ended.
LEMMA EnterInTime ==
  ASSUME InitInv, AllInTime, NEW r \in Ranks, Enter(r)
  PROVE  AllInTime'
<1> DEFINE k == calls[r] + 1
           gathers == Program[k] = "gather"
<1>1. TypeOK /\ PlaceIs(r) /\ InTime(r) /\ OutIs(r) /\ CameTo(r)
  BY DEF InitInv, AllInTime
<1>2. /\ calls[r] \in Nat /\ calls[r] < Len(Program) /\ k \in Nat /\ k \in 1..Len(Program) /\ k # 0
      /\ calls[r] \in 0..Len(Program)
  BY <1>1, NumbersAre DEF Enter
<1>3. Kind(k) = (IF gathers THEN "gather" ELSE "barrier")
  BY <1>2, UidAssumption DEF Kind
<1>4. /\ pc[r] = "ready" /\ done[r] = calls[r] /\ Minus(r, 0) = r
      /\ pc \in [Ranks -> Places] /\ step \in [Ranks -> Nat] /\ calls \in [Ranks -> 0..Len(Program)]
      /\ out \in [Ranks -> [Ranks -> [call : Nat, owner : 0..nranks]]]
  BY <1>1, RingOfRanks DEF Enter, InTime, TypeOK
<1>5. /\ calls' = [calls EXCEPT ![r] = k] /\ step' = [step EXCEPT ![r] = 0]
      /\ pc' = [pc EXCEPT ![r] = IF gathers THEN "gatherSend" ELSE "barrierSend"]
      /\ out' = IF gathers THEN [out EXCEPT ![r] = [Empty EXCEPT ![r] = Slice(k, r)]] ELSE out
  BY <1>4 DEF Enter, Goto
<1>6. UNCHANGED <<backlog, unexpected, ring, stream, done, refused>>
  BY DEF Enter, rendezvous, failures
<1> HIDE DEF k, gathers
<1>7. /\ calls'[r] = k /\ step'[r] = 0 /\ done'[r] = k - 1
      /\ pc'[r] = IF gathers THEN "gatherSend" ELSE "barrierSend"
      /\ gathers => out'[r][r] = Slice(k, r)
      /\ Others(r) /\ calls'[r] \in Nat /\ calls'[r] >= calls[r]
  <2>1. calls'[r] = k /\ step'[r] = 0 /\ (pc'[r] = IF gathers THEN "gatherSend" ELSE "barrierSend")
    BY <1>4, <1>5
  <2>2. done'[r] = k - 1
    BY <1>2, <1>4, <1>6 DEF k
  <2>3. gathers => out'[r][r] = Slice(k, r)
    BY <1>4, <1>5 DEF Empty
  <2>4. Others(r)
    BY <1>4, <1>5, <1>6 DEF Others
  <2>5. k >= calls[r]
    BY <1>2 DEF k
  <2> QED BY <1>2, <2>1, <2>2, <2>3, <2>4, <2>5
<1>8. /\ SlicesSent(r)' = SlicesSent(r) /\ SlicesRead(r)' = SlicesRead(r)
      /\ Connected(r)' <=> Connected(r)
      /\ \A j \in Nat : SentIn(r, j)' = SentIn(r, j) /\ ReceivedIn(r, j)' = ReceivedIn(r, j)
  <2>1. /\ SlicesBefore(k) \in Nat /\ Before("barrier", calls[r]) \in Nat
        /\ Before("barrier", k) = Before("barrier", calls[r]) + IF Kind(calls[r]) = "barrier" THEN 1 ELSE 0
    BY <1>2, SlicesAre, BeforeIs DEF k
  <2>2. /\ SlicesSent(r) = SlicesBefore(k) /\ SlicesRead(r) = SlicesBefore(k)
        /\ \A j : SentIn(r, j) = Before("barrier", k) /\ ReceivedIn(r, j) = Before("barrier", k)
    BY <1>4, <2>1 DEF SlicesSent, SlicesRead, SentIn, ReceivedIn, Meeting, k
  <2>3. SlicesSent(r)' = SlicesBefore(k) /\ SlicesRead(r)' = SlicesBefore(k)
    BY <1>7, <2>1 DEF SlicesSent, SlicesRead, Gathering
  <2>4. ASSUME NEW j \in Nat
        PROVE  SentIn(r, j)' = Before("barrier", k) /\ ReceivedIn(r, j)' = Before("barrier", k)
    BY <1>2, <1>7, <2>1 DEF SentIn, ReceivedIn, Meeting
  <2>5. Connected(r)' <=> Connected(r)
    BY <1>4, <1>7 DEF Connected, Joining
  <2> QED BY <2>2, <2>3, <2>4, <2>5
<1>9. InTime(r)' /\ OutIs(r)' /\ CameTo(r)'
  <2>1. InTime(r)'
    <3>1. Shift[0] < nranks
      BY UidAssumption, ShiftDoubles
    <3> QED BY <1>1, <1>6, <1>7, <3>1 DEF InTime, Gathering, Meeting
  <2>2. OutIs(r)'
    BY <1>4, <1>7 DEF OutIs, Gathering
  <2>3. CameTo(r)'
    <3>1. ASSUME NEW d \in 0..nranks - 1, d < Shift[step'[r]] PROVE calls'[Minus(r, d)] >= calls'[r]
      <4>1. d = 0
        BY <1>7, <3>1, ShiftDoubles
      <4> QED BY <1>4, <1>7, <4>1
    <3>2. ASSUME NEW j \in 1..Len(Program), NEW q \in Ranks, Kind(j) = "barrier",
                 j < calls'[r] \/ (j = calls'[r] /\ pc'[r] \in {"ready", "closed"})
          PROVE  calls'[q] >= j
      <4>1. j < calls[r] \/ j = calls[r]
        BY <1>2, <1>7, <3>2 DEF k
      <4>2. calls[q] >= j /\ calls[q] \in Nat
        BY <1>1, <1>4, <3>2, <4>1, NumbersAre DEF CameTo
      <4>3. calls'[q] = IF q = r THEN k ELSE calls[q]
        BY <1>4, <1>5
      <4> QED BY <1>2, <4>1, <4>2, <4>3 DEF k
    <3> QED BY <3>1, <3>2 DEF CameTo
  <2> QED BY <2>1, <2>2, <2>3
<1>10. ASSUME NEW q \in Ranks
       PROVE  /\ SlicesSent(q)' = SlicesSent(q) /\ SlicesRead(q)' = SlicesRead(q)
              /\ Connected(q)' <=> Connected(q)
              /\ \A j \in Nat : SentIn(q, j)' = SentIn(q, j) /\ ReceivedIn(q, j)' = ReceivedIn(q, j)
              /\ InTime(q)' /\ OutIs(q)' /\ CameTo(q)'
  BY <1>1, <1>6, <1>7, <1>8, <1>9, OthersStay
<1>11. (\A q \in Ranks : StreamIs(q)') /\ (\A q \in Ranks : MessagesAre(q)')
  BY <1>6, <1>10, StreamsStay, MessagesStay
<1> QED BY <1>10, <1>11 DEF AllInTime

\* The slice that is sent is the next of the stream.
LEMMA GatherSendInTime ==
  ASSUME InitInv, AllInTime, NEW r \in Ranks, GatherSend(r)
  PROVE  AllInTime'
<1> DEFINE n == Next(r)
           x == out[r][Minus(r, step[r])]
<1>1. TypeOK /\ PlaceIs(r) /\ InTime(r) /\ OutIs(r) /\ CameTo(r)
  BY DEF InitInv, AllInTime
<1>2. n \in Ranks /\ Minus(n, 1) = r /\ \A q \in Ranks : Minus(q, 1) = r => q = n
  BY RingOfRanks
<1>3. /\ calls[r] \in Nat /\ calls[r] <= Len(Program) /\ step[r] \in Nat
      /\ nranks \in Nat /\ nranks >= 2
  BY <1>1, NumbersAre
<1>4. /\ pc[r] = "gatherSend" /\ pc \in [Ranks -> Places] /\ stream \in [Ranks -> Seq(Slices)]
      /\ Kind(calls[r]) = "gather" /\ step[r] < nranks - 1 /\ x = Slice(calls[r], Minus(r, step[r]))
  <2>1. pc[r] = "gatherSend" /\ pc \in [Ranks -> Places] /\ stream \in [Ranks -> Seq(Slices)]
    BY <1>1 DEF GatherSend, TypeOK
  <2>2. Kind(calls[r]) = "gather" /\ step[r] < nranks - 1
    BY <1>1, <2>1 DEF PlaceIs, Gathering
  <2>3. step[r] \in 0..step[r]
    BY <1>3
  <2> QED BY <1>1, <2>1, <2>2, <2>3 DEF OutIs, Gathering
<1>5. /\ pc' = [pc EXCEPT ![r] = "gatherRecv"] /\ stream' = [stream EXCEPT ![r] = Append(stream[r], x)]
      /\ UNCHANGED <<backlog, unexpected, ring, out, step, calls, done, refused>>
  BY DEF GatherSend, Goto, rendezvous, failures
<1>6. x \in Slices
  <2>1. Minus(r, step[r]) \in Ranks
    <3>1. step[r] \in 0..nranks
      BY <1>3, <1>4
    <3> QED BY <3>1, MinusIs
  <2> QED BY <1>3, <1>4, <2>1 DEF Slice, Slices
<1> HIDE DEF x, n
<1>7. /\ pc'[r] = "gatherRecv" /\ stream'[r] = Append(stream[r], x)
      /\ \A q \in Ranks \ {r} : stream'[q] = stream[q]
      /\ Others(r) /\ calls'[r] \in Nat /\ calls'[r] >= calls[r]
  BY <1>3, <1>4, <1>5 DEF Others
<1>8. SlicesBefore(calls[r]) \in Nat
  BY <1>3, SlicesAre
<1>9. /\ SlicesSent(r) = SlicesBefore(calls[r]) + step[r] /\ SlicesSent(r)' = SlicesSent(r) + 1
      /\ SlicesRead(r)' = SlicesRead(r)
      /\ Connected(r)' <=> Connected(r)
      /\ \A k \in Nat : SentIn(r, k)' = SentIn(r, k) /\ ReceivedIn(r, k)' = ReceivedIn(r, k)
  <2>1. SlicesSent(r) = SlicesBefore(calls[r]) + step[r] /\ SlicesSent(r)' = SlicesBefore(calls[r]) + (step[r] + 1)
    BY <1>4, <1>5, <1>7 DEF SlicesSent
  <2>2. SlicesRead(r)' = SlicesRead(r) /\ (Connected(r)' <=> Connected(r))
    BY <1>4, <1>5, <1>7 DEF SlicesRead, Connected, Gathering, Joining
  <2>3. \A k \in Nat : SentIn(r, k)' = SentIn(r, k) /\ ReceivedIn(r, k)' = ReceivedIn(r, k)
    BY <1>4, <1>5, <1>7 DEF SentIn, ReceivedIn, Meeting
  <2> QED BY <1>3, <1>8, <2>1, <2>2, <2>3
<1>10. InTime(r)' /\ OutIs(r)' /\ CameTo(r)'
  BY <1>1, <1>4, <1>5, <1>7 DEF InTime, OutIs, CameTo, Gathering, Meeting
<1>11. ASSUME NEW q \in Ranks
       PROVE  /\ q # r => SlicesSent(q)' = SlicesSent(q)
              /\ SlicesRead(q)' = SlicesRead(q)
              /\ Connected(q)' <=> Connected(q)
              /\ \A k \in Nat : SentIn(q, k)' = SentIn(q, k) /\ ReceivedIn(q, k)' = ReceivedIn(q, k)
              /\ InTime(q)' /\ OutIs(q)' /\ CameTo(q)'
  BY <1>1, <1>5, <1>7, <1>9, <1>10, OthersStay
<1>12. \A q \in Ranks : MessagesAre(q)'
  BY <1>5, <1>11, MessagesStay
<1>13. ASSUME NEW q \in Ranks PROVE StreamIs(q)'
  <2>1. StreamIs(q) /\ Minus(q, 1) \in Ranks
    BY RingOfRanks DEF AllInTime
  <2>2. CASE Minus(q, 1) # r
    <3>1. stream'[Minus(q, 1)] = stream[Minus(q, 1)] /\ SlicesSent(Minus(q, 1))' = SlicesSent(Minus(q, 1))
      BY <1>7, <1>11, <2>1, <2>2
    <3> QED BY <1>11, <2>1, <3>1 DEF StreamIs
  <2>3. CASE Minus(q, 1) = r
    <3>1. stream[r] \in Seq(Slices) /\ stream'[r] = Append(stream[r], x)
      BY <1>4, <1>7
    <3>2. /\ Len(stream[r]) = SlicesSent(r) - SlicesRead(q)
          /\ \A k \in 0..Len(Program), d \in 0..nranks - 2, i \in 1..Len(stream[r]) :
               Kind(k) = "gather" /\ SlicesBefore(k) + d = SlicesRead(q) + i - 1
                 => stream[r][i] = Slice(k, Minus(r, d))
      BY <2>1, <2>3 DEF StreamIs
    <3>3. SlicesRead(q) \in Nat /\ SlicesSent(r) \in Nat /\ Len(stream[r]) \in Nat
      BY <1>1, NumbersAre
    <3>4. Len(stream'[r]) = Len(stream[r]) + 1 /\ SlicesRead(q)' = SlicesRead(q)
      BY <1>6, <1>11, <3>1
    <3>5. Len(stream'[r]) = SlicesSent(r)' - SlicesRead(q)'
      BY <1>9, <3>2, <3>3, <3>4
    <3>6. ASSUME NEW k \in 0..Len(Program), NEW d \in 0..nranks - 2, NEW i \in 1..Len(stream'[r]),
                 Kind(k) = "gather", SlicesBefore(k) + d = SlicesRead(q)' + i - 1
          PROVE  stream'[r][i] = Slice(k, Minus(r, d))
      <4>1. CASE i \in 1..Len(stream[r])
        <5>1. stream'[r][i] = stream[r][i]
          BY <1>6, <3>1, <4>1
        <5> QED BY <3>2, <3>4, <3>6, <4>1, <5>1
      <4>2. CASE i = Len(stream[r]) + 1
        <5>1. stream'[r][i] = x
          BY <1>6, <3>1, <4>2
        <5>2. SlicesBefore(k) + d = SlicesBefore(calls[r]) + step[r]
          BY <1>9, <3>2, <3>3, <3>4, <3>6, <4>2
        <5>3. k \in Nat /\ step[r] \in 0..nranks - 2
          BY <1>3, <1>4
        <5>4. k = calls[r] /\ d = step[r]
          BY <1>3, <1>4, <3>6, <5>2, <5>3, SlicesDiffer
        <5> QED BY <1>4, <5>1, <5>4
      <4> QED BY <3>3, <3>4, <3>6, <4>1, <4>2
    <3> QED BY <2>3, <3>5, <3>6 DEF StreamIs
  <2> QED BY <2>2, <2>3
<1> QED BY <1>11, <1>12, <1>13 DEF AllInTime

\* The slice that is read is the one of the rank that many back.
LEMMA GatherRecvInTime ==
  ASSUME InitInv, AllInTime, NEW r \in Ranks, GatherRecv(r)
  PROVE  AllInTime'
<1> DEFINE p == Minus(r, 1)
           to == Minus(r, step[r] + 1)
           y == Head(stream[p])
           last == ~(step[r] + 1 < nranks - 1)
<1>1. TypeOK /\ PlaceIs(r) /\ InTime(r) /\ OutIs(r) /\ CameTo(r) /\ StreamIs(r)
  BY DEF InitInv, AllInTime
<1>2. p \in Ranks /\ p # r /\ \A q \in Ranks : Minus(q, 1) = p => q = r
  BY RingOfRanks
<1>3. /\ calls[r] \in Nat /\ calls[r] <= Len(Program) /\ step[r] \in Nat
      /\ nranks \in Nat /\ nranks >= 2 /\ Len(Program) \in Nat
  BY <1>1, NumbersAre
<1>4. /\ pc[r] = "gatherRecv" /\ pc \in [Ranks -> Places] /\ stream \in [Ranks -> Seq(Slices)]
      /\ step \in [Ranks -> Nat] /\ done \in [Ranks -> -1..Len(Program)]
      /\ out \in [Ranks -> [Ranks -> [call : Nat, owner : 0..nranks]]]
      /\ Kind(calls[r]) = "gather" /\ step[r] < nranks - 1 /\ ring[r] = p
  <2>1. /\ pc[r] = "gatherRecv" /\ pc \in [Ranks -> Places] /\ stream \in [Ranks -> Seq(Slices)]
        /\ step \in [Ranks -> Nat] /\ done \in [Ranks -> -1..Len(Program)]
        /\ out \in [Ranks -> [Ranks -> [call : Nat, owner : 0..nranks]]]
    BY <1>1 DEF GatherRecv, TypeOK
  <2>2. Kind(calls[r]) = "gather" /\ step[r] < nranks - 1 /\ ring[r] = p
    BY <1>1, <2>1 DEF PlaceIs, Gathering, Joining
  <2> QED BY <2>1, <2>2
<1>5. /\ stream[p] # <<>>
      /\ out' = [out EXCEPT ![r][to] = y] /\ stream' = [stream EXCEPT ![p] = Tail(stream[p])]
      /\ step' = IF last THEN step ELSE [step EXCEPT ![r] = step[r] + 1]
      /\ pc' = [pc EXCEPT ![r] = IF last THEN "ready" ELSE "gatherSend"]
      /\ done' = IF last THEN [done EXCEPT ![r] = calls[r]] ELSE done
      /\ UNCHANGED <<backlog, unexpected, ring, calls, refused>>
  BY <1>4 DEF GatherRecv, Goto, rendezvous, failures
<1>6. /\ stream[p] \in Seq(Slices) /\ Len(stream[p]) \in Nat /\ Len(stream[p]) >= 1
      /\ y = stream[p][1] /\ Len(Tail(stream[p])) = Len(stream[p]) - 1
      /\ \A i \in 1..Len(stream[p]) - 1 : Tail(stream[p])[i] = stream[p][i + 1]
  <2>1. stream[p] \in Seq(Slices)
    BY <1>2, <1>4
  <2> QED BY <1>5, <2>1
<1> HIDE DEF p, to, y, last
<1>7. /\ pc'[r] = (IF last THEN "ready" ELSE "gatherSend")
      /\ step'[r] = (IF last THEN step[r] ELSE step[r] + 1)
      /\ done'[r] = (IF last THEN calls[r] ELSE done[r])
      /\ stream'[p] = Tail(stream[p]) /\ \A q \in Ranks \ {p} : stream'[q] = stream[q]
      /\ \A s \in Ranks : out'[r][s] = IF s = to THEN y ELSE out[r][s]
      /\ Others(r) /\ calls'[r] \in Nat /\ calls'[r] >= calls[r] /\ calls'[r] = calls[r]
  <2>1. /\ pc'[r] = (IF last THEN "ready" ELSE "gatherSend")
        /\ step'[r] = (IF last THEN step[r] ELSE step[r] + 1)
        /\ done'[r] = (IF last THEN calls[r] ELSE done[r])
    BY <1>4, <1>5
  <2>2. stream'[p] = Tail(stream[p]) /\ \A q \in Ranks \ {p} : stream'[q] = stream[q]
    BY <1>2, <1>4, <1>5
  <2>3. \A s \in Ranks : out'[r][s] = IF s = to THEN y ELSE out[r][s]
    BY <1>4, <1>5
  <2>4. Others(r)
    BY <1>4, <1>5 DEF Others
  <2> QED BY <1>3, <1>5, <2>1, <2>2, <2>3, <2>4
<1>8. /\ SlicesBefore(calls[r]) \in Nat
      /\ SlicesBefore(calls[r] + 1) = SlicesBefore(calls[r]) + (nranks - 1)
      /\ last => step[r] + 1 = nranks - 1
      /\ ~last => step[r] + 1 < nranks - 1
  <2>1. /\ SlicesBefore(calls[r]) \in Nat
        /\ SlicesBefore(calls[r] + 1) = SlicesBefore(calls[r]) + (nranks - 1)
    <3>1. calls[r] \in Nat /\ Kind(calls[r]) = "gather"
      BY <1>3, <1>4
    <3> QED BY <3>1, SlicesAre
  <2>2. step[r] \in Nat /\ nranks \in Nat /\ step[r] < nranks - 1
    BY <1>3, <1>4
  <2>3. last <=> ~(step[r] + 1 < nranks - 1)
    BY DEF last
  <2>4. ~(step[r] + 1 < nranks - 1) => step[r] + 1 = nranks - 1
    BY <2>2
  <2> QED BY <2>1, <2>3, <2>4
<1>9. /\ SlicesRead(r) = SlicesBefore(calls[r]) + step[r] /\ SlicesRead(r)' = SlicesRead(r) + 1
      /\ SlicesSent(r)' = SlicesSent(r)
      /\ Connected(r)' <=> Connected(r)
      /\ \A k \in Nat : SentIn(r, k)' = SentIn(r, k) /\ ReceivedIn(r, k)' = ReceivedIn(r, k)
  <2>1. /\ SlicesRead(r) = SlicesBefore(calls[r]) + step[r]
        /\ SlicesRead(r)' = SlicesBefore(calls[r]) + (step[r] + 1)
    BY <1>3, <1>4, <1>7, <1>8 DEF SlicesRead, Gathering
  <2>2. SlicesSent(r)' = SlicesSent(r) /\ (Connected(r)' <=> Connected(r))
    BY <1>3, <1>4, <1>7, <1>8 DEF SlicesSent, Connected, Joining
  <2>3. \A k \in Nat : SentIn(r, k)' = SentIn(r, k) /\ ReceivedIn(r, k)' = ReceivedIn(r, k)
    BY <1>4, <1>7 DEF SentIn, ReceivedIn, Meeting
  <2> QED BY <1>3, <1>8, <2>1, <2>2, <2>3
<1>10. y = Slice(calls[r], to)
  <2>1. /\ calls[r] \in 0..Len(Program) /\ step[r] \in 0..nranks - 2 /\ 1 \in 1..Len(stream[p])
        /\ SlicesBefore(calls[r]) + step[r] = SlicesRead(r) + 1 - 1
    <3>1. SlicesRead(r) \in Nat
      BY <1>1, NumbersAre
    <3>2. SlicesBefore(calls[r]) + step[r] = SlicesRead(r) + 1 - 1
      BY <1>9, <3>1
    <3>3. 1 \in 1..Len(stream[p])
      BY <1>6
    <3>4. calls[r] \in 0..Len(Program) /\ step[r] \in 0..nranks - 2
      BY <1>3, <1>4
    <3> QED BY <3>2, <3>3, <3>4
  <2>2. stream[p][1] = Slice(calls[r], Minus(p, step[r]))
    BY <1>1, <1>4, <2>1 DEF StreamIs, p
  <2>3. Minus(p, step[r]) = Minus(r, step[r] + 1)
    <3>1. 1 \in 0..nranks - 1 /\ step[r] \in 0..nranks - 1 /\ 1 + step[r] < nranks /\ 1 + step[r] = step[r] + 1
      BY <1>3, <1>4
    <3> QED BY <3>1, BackAround DEF p
  <2> QED BY <1>6, <2>2, <2>3 DEF to
<1>11. \A d \in 0..step[r] + 1 : out'[r][Minus(r, d)] = Slice(calls[r], Minus(r, d))
  <2> SUFFICES ASSUME NEW d \in 0..step[r] + 1
               PROVE  out'[r][Minus(r, d)] = Slice(calls[r], Minus(r, d))
    OBVIOUS
  <2>1. d \in 0..nranks /\ d \in 0..nranks - 1 /\ step[r] + 1 \in 0..nranks - 1
    BY <1>3, <1>4
  <2>2. Minus(r, d) \in Ranks
    BY <2>1, MinusIs
  <2>3. CASE d = step[r] + 1
    BY <1>7, <1>10, <2>2, <2>3 DEF to
  <2>4. CASE d # step[r] + 1
    <3>1. Minus(r, d) # to
      BY <2>1, <2>4, BackAround DEF to
    <3>2. d \in 0..step[r]
      BY <1>3, <2>4
    <3> QED BY <1>1, <1>4, <1>7, <2>2, <3>1, <3>2 DEF OutIs, Gathering
  <2> QED BY <2>3, <2>4
<1>12. InTime(r)' /\ OutIs(r)' /\ CameTo(r)'
  <2>1. InTime(r)'
    BY <1>1, <1>4, <1>5, <1>7 DEF InTime, Gathering, Meeting
  <2>2. OutIs(r)'
    <3>1. CASE last
      <4>1. ASSUME NEW s \in Ranks PROVE out'[r][s] = Slice(calls[r], s)
        <5>1. PICK d \in 0..nranks - 1 : s = Minus(r, d)
          BY BackAround
        <5>2. d \in 0..step[r] + 1
          BY <1>3, <1>8, <3>1
        <5> QED BY <1>11, <5>1, <5>2
      <4> QED BY <1>7, <3>1, <4>1 DEF OutIs, Gathering
    <3>2. CASE ~last
      BY <1>7, <1>11, <3>2 DEF OutIs, Gathering
    <3> QED BY <3>1, <3>2
  <2>3. CameTo(r)'
    <3>1. pc'[r] \notin Meeting /\ calls' = calls
      BY <1>5, <1>7 DEF Meeting
    <3>2. \A j : Kind(j) = "barrier" => j # calls[r]
      BY <1>4
    <3> QED BY <1>1, <3>1, <3>2 DEF CameTo
  <2> QED BY <2>1, <2>2, <2>3
<1>13. ASSUME NEW q \in Ranks
       PROVE  /\ SlicesSent(q)' = SlicesSent(q)
              /\ q # r => SlicesRead(q)' = SlicesRead(q)
              /\ Connected(q)' <=> Connected(q)
              /\ \A k \in Nat : SentIn(q, k)' = SentIn(q, k) /\ ReceivedIn(q, k)' = ReceivedIn(q, k)
              /\ InTime(q)' /\ OutIs(q)' /\ CameTo(q)'
  BY <1>1, <1>5, <1>7, <1>9, <1>12, OthersStay
<1>14. \A q \in Ranks : MessagesAre(q)'
  BY <1>5, <1>13, MessagesStay
<1>15. ASSUME NEW q \in Ranks PROVE StreamIs(q)'
  <2>1. StreamIs(q) /\ Minus(q, 1) \in Ranks
    BY RingOfRanks DEF AllInTime
  <2>2. CASE q # r
    <3>1. /\ stream'[Minus(q, 1)] = stream[Minus(q, 1)] /\ SlicesRead(q)' = SlicesRead(q)
          /\ SlicesSent(Minus(q, 1))' = SlicesSent(Minus(q, 1))
      BY <1>2, <1>7, <1>13, <2>1, <2>2
    <3> QED BY <2>1, <3>1 DEF StreamIs
  <2>3. CASE q = r
    <3>1. /\ Len(stream[p]) = SlicesSent(p) - SlicesRead(r)
          /\ \A k \in 0..Len(Program), d \in 0..nranks - 2, i \in 1..Len(stream[p]) :
               Kind(k) = "gather" /\ SlicesBefore(k) + d = SlicesRead(r) + i - 1
                 => stream[p][i] = Slice(k, Minus(p, d))
      BY <1>1 DEF StreamIs, p
    <3>2. SlicesRead(r) \in Nat /\ SlicesSent(p) \in Nat
      BY <1>1, <1>2, NumbersAre
    <3>3. Len(stream'[p]) = SlicesSent(p)' - SlicesRead(r)'
      BY <1>2, <1>6, <1>7, <1>9, <1>13, <3>1, <3>2
    <3>4. ASSUME NEW k \in 0..Len(Program), NEW d \in 0..nranks - 2, NEW i \in 1..Len(stream'[p]),
                 Kind(k) = "gather", SlicesBefore(k) + d = SlicesRead(r)' + i - 1
          PROVE  stream'[p][i] = Slice(k, Minus(p, d))
      <4>1. i \in 1..Len(stream[p]) - 1 /\ i + 1 \in 1..Len(stream[p])
        BY <1>6, <1>7, <3>4
      <4>2. stream'[p][i] = stream[p][i + 1]
        BY <1>6, <1>7, <4>1
      <4>3. SlicesBefore(k) + d = SlicesRead(r) + (i + 1) - 1
        BY <1>9, <3>2, <3>4, <4>1
      <4> QED BY <3>1, <3>4, <4>1, <4>2, <4>3
    <3> QED BY <2>3, <3>3, <3>4 DEF StreamIs, p
  <2> QED BY <2>2, <2>3
<1> QED BY <1>13, <1>14, <1>15 DEF AllInTime

\* One rank is that many back from exactly one other.
LEMMA RoundBack ==
  ASSUME NEW r \in Ranks, NEW k \in Rounds
  PROVE  /\ (r + Shift[k]) % nranks \in Ranks
         /\ Minus((r + Shift[k]) % nranks, Shift[k]) = r
         /\ \A q \in Ranks : Minus(q, Shift[k]) = r => q = (r + Shift[k]) % nranks
<1> DEFINE s == Shift[k]
           t == (r + s) % nranks
<1>1. s \in 0..nranks - 1 /\ s \in 0..nranks
  BY RoundsAre
<1> HIDE DEF s
<1>2. r \in 0..nranks - 1 /\ nranks \in Nat \ {0} /\ Ranks = 0..nranks - 1
  BY UidAssumption DEF Ranks
<1>3. t = IF r + s < nranks THEN r + s ELSE r + s - nranks
  BY <1>1, <1>2, AroundTheRing
<1> HIDE DEF t
<1>4. t \in Ranks
  BY <1>1, <1>2, <1>3
<1>5. ASSUME NEW q \in Ranks PROVE Minus(q, s) = IF s <= q THEN q - s ELSE q + nranks - s
  BY <1>1, MinusIs
<1>6. Minus(t, s) = r
  <2>1. Minus(t, s) = IF s <= t THEN t - s ELSE t + nranks - s
    BY <1>4, <1>5
  <2> QED BY <1>1, <1>2, <1>3, <2>1
<1>7. ASSUME NEW q \in Ranks, Minus(q, s) = r PROVE q = t
  <2>1. r = IF s <= q THEN q - s ELSE q + nranks - s
    BY <1>5, <1>7
  <2>2. q \in 0..nranks - 1
    BY <1>2
  <2> QED BY <1>1, <1>2, <1>3, <2>1, <2>2
<1> QED BY <1>4, <1>6, <1>7 DEF s, t

\* The message of a round goes to the rank a shift ahead.
LEMMA BarrierSendInTime ==
  ASSUME InitInv, AllInTime, NEW r \in Ranks, BarrierSend(r)
  PROVE  AllInTime'
<1> DEFINE k == step[r]
           to == (r + Shift[k]) % nranks
           m == [from |-> r, tag |-> k + 1]
<1>1. TypeOK /\ PlaceIs(r) /\ InTime(r) /\ OutIs(r) /\ CameTo(r)
  BY DEF InitInv, AllInTime
<1>2. /\ calls[r] \in Nat /\ k \in Nat /\ nranks \in Nat /\ nranks >= 2 /\ done[r] \in Int /\ done[r] >= -1
  BY <1>1, NumbersAre
<1>3. /\ pc[r] = "barrierSend" /\ pc \in [Ranks -> Places]
      /\ backlog \in [Ranks -> Seq(Messages)] /\ unexpected \in [Ranks -> Seq(Messages)]
  BY <1>1 DEF BarrierSend, TypeOK
<1>4. k \in Rounds /\ peers[r] = [s \in Ranks |-> s]
  <2>1. k < nranks /\ Shift[k] < nranks /\ calls[r] > 0
    BY <1>1, <1>3 DEF PlaceIs, InTime, Meeting
  <2>2. done[r] # -1
    BY <1>1, <1>2, <2>1 DEF PlaceIs
  <2>3. done[r] >= 0
    BY <1>2, <2>2
  <2>4. k \in 0..nranks
    BY <1>2, <2>1
  <2> QED BY <1>1, <2>1, <2>3, <2>4 DEF PlaceIs, Rounds
<1>5. /\ to \in Ranks /\ Minus(to, Shift[k]) = r
      /\ \A q \in Ranks : Minus(q, Shift[k]) = r => q = to
  BY <1>4, RoundBack
<1>6. /\ backlog' = [backlog EXCEPT ![to] = Append(@, m)] /\ pc' = [pc EXCEPT ![r] = "barrierRecv"]
      /\ UNCHANGED <<unexpected, ring, stream, out, step, calls, done, refused>>
  <2>1. peers[r][Destination(r)] = to
    <3>1. Destination(r) = to
      BY DEF Destination, Mask
    <3> HIDE DEF to
    <3> QED BY <1>4, <1>5, <3>1
  <2>2. Tag(r) = k + 1
    BY DEF Tag
  <2> HIDE DEF to, k
  <2> QED BY <2>1, <2>2 DEF BarrierSend, Connect, Goto, rendezvous, failures
<1>7. m \in Messages /\ m = RoundMessage(to, k)
  <2>1. k + 1 \in Nat
    BY <1>2
  <2> HIDE DEF to, k
  <2> QED BY <1>5, <2>1 DEF Messages, RoundMessage
<1>8. ASSUME NEW q \in Ranks, NEW j \in Rounds, RoundMessage(q, j) = m PROVE j = k
  <2>1. j + 1 = k + 1
    BY <1>8 DEF RoundMessage
  <2>2. j \in Nat
    BY RoundsAre
  <2> QED BY <1>2, <2>1, <2>2
<1>9. \A q \in Ranks : RingMessage(q) # m
  <2>1. k + 1 # 0
    BY <1>2
  <2> QED BY <2>1 DEF RingMessage
<1> HIDE DEF k, to, m
<1>10. /\ pc'[r] = "barrierRecv" /\ backlog'[to] = Append(backlog[to], m)
       /\ \A q \in Ranks \ {to} : backlog'[q] = backlog[q]
       /\ Others(r) /\ calls'[r] \in Nat /\ calls'[r] >= calls[r] /\ calls'[r] = calls[r]
  BY <1>2, <1>3, <1>5, <1>6 DEF Others
<1>11. /\ SlicesSent(r)' = SlicesSent(r) /\ SlicesRead(r)' = SlicesRead(r)
       /\ Connected(r)' <=> Connected(r)
       /\ \A j \in Nat : /\ SentIn(r, j)' = SentIn(r, j) + IF j = k THEN 1 ELSE 0
                         /\ ReceivedIn(r, j)' = ReceivedIn(r, j)
  <2>1. SlicesSent(r)' = SlicesSent(r) /\ SlicesRead(r)' = SlicesRead(r) /\ (Connected(r)' <=> Connected(r))
    BY <1>3, <1>6, <1>10 DEF SlicesSent, SlicesRead, Connected, Gathering, Joining
  <2>2. Before("barrier", calls[r]) \in Nat
    BY <1>2, BeforeIs
  <2>3. step[r] = k /\ step'[r] = k
    BY <1>6 DEF k
  <2>4. ASSUME NEW j \in Nat
        PROVE  /\ SentIn(r, j)' = SentIn(r, j) + IF j = k THEN 1 ELSE 0
               /\ ReceivedIn(r, j)' = ReceivedIn(r, j)
    BY <1>2, <1>3, <1>10, <2>2, <2>3 DEF SentIn, ReceivedIn, Meeting
  <2> QED BY <2>1, <2>4
<1>12. InTime(r)' /\ OutIs(r)' /\ CameTo(r)'
  BY <1>1, <1>3, <1>6, <1>10 DEF InTime, OutIs, CameTo, Gathering, Meeting
<1>13. ASSUME NEW q \in Ranks
       PROVE  /\ SlicesSent(q)' = SlicesSent(q) /\ SlicesRead(q)' = SlicesRead(q)
              /\ Connected(q)' <=> Connected(q)
              /\ \A j \in Nat : /\ SentIn(q, j)' = SentIn(q, j) + IF q = r /\ j = k THEN 1 ELSE 0
                                /\ ReceivedIn(q, j)' = ReceivedIn(q, j)
              /\ InTime(q)' /\ OutIs(q)' /\ CameTo(q)'
  <2>1. \A j \in Nat : SentIn(q, j) \in Nat
    BY <1>1, NumbersAre
  <2>2. CASE q = r
    BY <1>11, <1>12, <2>2
  <2>3. CASE q # r
    <3>1. /\ SlicesSent(q)' = SlicesSent(q) /\ SlicesRead(q)' = SlicesRead(q)
          /\ Connected(q)' <=> Connected(q)
          /\ \A j \in Nat : SentIn(q, j)' = SentIn(q, j) /\ ReceivedIn(q, j)' = ReceivedIn(q, j)
          /\ InTime(q)' /\ OutIs(q)' /\ CameTo(q)'
      BY <1>1, <1>6, <1>10, <2>3, OthersStay
    <3>2. \A j \in Nat : SentIn(q, j)' = SentIn(q, j) + IF q = r /\ j = k THEN 1 ELSE 0
      BY <2>1, <2>3, <3>1
    <3> QED BY <3>1, <3>2
  <2> QED BY <2>2, <2>3
<1>14. \A q \in Ranks : StreamIs(q)'
  BY <1>6, <1>13, StreamsStay
<1>15. ASSUME NEW q \in Ranks PROVE MessagesAre(q)'
  <2>1. MessagesAre(q) /\ Minus(q, 1) \in Ranks
    BY RingOfRanks DEF AllInTime
  <2>2. Connected(Minus(q, 1))' <=> Connected(Minus(q, 1))
    BY <1>13, <2>1
  <2>3. /\ backlog[q] \in Seq(Messages) /\ unexpected[q] \in Seq(Messages)
        /\ backlog'[q] = IF q = to THEN Append(backlog[q], m) ELSE backlog[q]
    BY <1>3, <1>10
  <2>4. ASSUME NEW e
        PROVE  /\ Count(backlog[q], e) \in Nat /\ Count(unexpected[q], e) \in Nat
               /\ Count(backlog'[q], e) = Count(backlog[q], e) + IF q = to /\ m = e THEN 1 ELSE 0
    <3>1. /\ Count(backlog[q], e) \in Nat /\ Count(unexpected[q], e) \in Nat
          /\ Count(Append(backlog[q], m), e) = Count(backlog[q], e) + IF m = e THEN 1 ELSE 0
      <4>1. backlog[q] \in Seq(Messages) /\ unexpected[q] \in Seq(Messages)
        BY <2>3
      <4>2. m \in Messages
        BY <1>7
      <4> QED BY <4>1, <4>2, CountMessages
    <3> QED BY <2>3, <3>1
  <2>5. ASSUME NEW j \in Rounds
        PROVE  Count(backlog'[q], RoundMessage(q, j)) + Count(unexpected[q], RoundMessage(q, j))
                 = SentIn(Minus(q, Shift[j]), j)' - ReceivedIn(q, j)'
    <3>1. j \in Nat /\ Minus(q, Shift[j]) \in Ranks
      BY RoundsAre
    <3>2. /\ SentIn(Minus(q, Shift[j]), j)'
               = SentIn(Minus(q, Shift[j]), j) + IF Minus(q, Shift[j]) = r /\ j = k THEN 1 ELSE 0
          /\ ReceivedIn(q, j)' = ReceivedIn(q, j)
      BY <1>13, <3>1
    <3>3. SentIn(Minus(q, Shift[j]), j) \in Nat /\ ReceivedIn(q, j) \in Nat
      BY <1>1, <3>1, NumbersAre
    <3>4. (Minus(q, Shift[j]) = r /\ j = k) <=> (q = to /\ m = RoundMessage(q, j))
      BY <1>5, <1>7, <1>8
    <3>5. /\ Count(backlog[q], RoundMessage(q, j)) \in Nat /\ Count(unexpected[q], RoundMessage(q, j)) \in Nat
          /\ Count(backlog'[q], RoundMessage(q, j))
               = Count(backlog[q], RoundMessage(q, j)) + IF q = to /\ m = RoundMessage(q, j) THEN 1 ELSE 0
      BY <2>4
    <3>6. Count(backlog[q], RoundMessage(q, j)) + Count(unexpected[q], RoundMessage(q, j))
            = SentIn(Minus(q, Shift[j]), j) - ReceivedIn(q, j)
      BY <2>1 DEF MessagesAre
    <3> QED BY <3>2, <3>3, <3>4, <3>5, <3>6
  <2>6. Count(backlog'[q], RingMessage(q)) = Count(backlog[q], RingMessage(q))
    BY <1>9, <2>4
  <2>7. ASSUME NEW i \in DOMAIN backlog'[q]
        PROVE  backlog'[q][i] = RingMessage(q) \/ \E j \in Rounds : backlog'[q][i] = RoundMessage(q, j)
    <3>1. CASE q = to
      <4>1. (i \in DOMAIN backlog[q] /\ backlog'[q][i] = backlog[q][i]) \/ backlog'[q][i] = m
        BY <1>7, <2>3, <3>1
      <4> QED BY <1>4, <1>7, <2>1, <3>1, <4>1 DEF MessagesAre
    <3>2. CASE q # to
      BY <2>1, <2>3, <3>2 DEF MessagesAre
    <3> QED BY <3>1, <3>2
  <2>8. RingMessage(q)' = RingMessage(q) /\ \A j : RoundMessage(q, j)' = RoundMessage(q, j)
    BY DEF RingMessage, RoundMessage
  <2> QED BY <1>6, <2>1, <2>2, <2>5, <2>6, <2>7, <2>8 DEF MessagesAre
<1> QED BY <1>13, <1>14, <1>15 DEF AllInTime

\* The message of a round tells of all the ranks the round is about: of the
\* shift before the rank, who had come, and of the shift before the sender.
LEMMA MessageTells ==
  ASSUME InitInv, AllInTime, NEW r \in Ranks, pc[r] = "barrierRecv",
         Count(backlog[r], Wanted(r)) + Count(unexpected[r], Wanted(r)) > 0
  PROVE  \A d \in 0..nranks - 1 : d < 2 * Shift[step[r]] => calls[Minus(r, d)] >= calls[r]
<1> DEFINE k == step[r]
           s == Minus(r, Shift[k])
           b == Before("barrier", calls[r])
<1>1. TypeOK /\ PlaceIs(r) /\ InTime(r) /\ CameTo(r) /\ MessagesAre(r)
  BY DEF InitInv, AllInTime
<1>2. /\ calls[r] \in Nat /\ calls[r] <= Len(Program) /\ Len(Program) \in Nat /\ k \in Nat
      /\ nranks \in Nat /\ nranks >= 2
  BY <1>1, NumbersAre
<1>3. k \in Rounds /\ Kind(calls[r]) = "barrier" /\ calls[r] > 0
  <2>1. k < nranks /\ Shift[k] < nranks /\ Kind(calls[r]) = "barrier" /\ calls[r] > 0
    BY <1>1 DEF PlaceIs, InTime, Meeting
  <2>2. k \in 0..nranks
    BY <1>2, <2>1
  <2> QED BY <2>1, <2>2 DEF Rounds
<1>4. Shift[k] \in 0..nranks - 1 /\ s \in Ranks
  BY <1>3, RoundsAre
<1>5. Wanted(r) = RoundMessage(r, k)
  BY DEF Wanted, RoundMessage, Source, Mask, Tag
<1>6. TypeOK /\ PlaceIs(s) /\ InTime(s) /\ CameTo(s)
  BY <1>4 DEF InitInv, AllInTime
<1>7. calls[s] \in Nat /\ step[s] \in Nat
  BY <1>4, <1>6, NumbersAre
<1>8. SentIn(s, k) - ReceivedIn(r, k) > 0
  BY <1>1, <1>3, <1>5 DEF MessagesAre
<1> HIDE DEF k, s
<1>9. ReceivedIn(r, k) = b /\ b \in Nat
  <2>1. b \in Nat
    BY <1>2, BeforeIs
  <2>2. ~(k < step[r])
    BY <1>2 DEF k
  <2> QED BY <1>1, <2>1, <2>2 DEF ReceivedIn, Meeting
<1>10. calls[s] >= calls[r]
  <2> SUFFICES ASSUME calls[s] < calls[r] PROVE FALSE
    BY <1>2, <1>7
  <2>1. calls[s] + 1 <= calls[r] /\ calls[s] + 1 \in Nat
    BY <1>2, <1>7
  <2>2. Before("barrier", calls[s] + 1) <= b
    BY <1>2, <2>1, BeforeGrows
  <2>3. /\ Before("barrier", calls[s]) \in Nat
        /\ Before("barrier", calls[s] + 1)
             = Before("barrier", calls[s]) + IF Kind(calls[s]) = "barrier" THEN 1 ELSE 0
    BY <1>7, BeforeIs
  <2>4. SentIn(s, k) <= Before("barrier", calls[s] + 1)
    <3>1. pc[s] \in Meeting => Kind(calls[s]) = "barrier"
      BY <1>6 DEF PlaceIs
    <3> QED BY <2>3, <3>1 DEF SentIn
  <2>5. Before("barrier", calls[s] + 1) \in Nat /\ SentIn(s, k) \in Nat
    BY <1>4, <1>6, <2>3, NumbersAre, SMTT(40)
  <2> QED BY <1>8, <1>9, <2>2, <2>4, <2>5
\* The sender has come and knows of the ranks before it.
<1>11. ASSUME NEW e \in 0..nranks - 1, e < Shift[k] PROVE calls[Minus(s, e)] >= calls[r]
  <2>1. Minus(s, e) \in Ranks
    <3>1. e \in 0..nranks
      BY <1>2
    <3> QED BY <1>4, <3>1, MinusIs
  <2>2. calls[r] \in 1..Len(Program)
    BY <1>2, <1>3
  <2>3. CASE calls[r] < calls[s]
    BY <1>3, <1>6, <2>1, <2>2, <2>3 DEF CameTo
  <2>4. CASE calls[r] = calls[s]
    <3>1. \/ pc[s] \in Meeting /\ (k < step[s] \/ (k = step[s] /\ pc[s] = "barrierRecv"))
          \/ pc[s] \in {"ready", "closed"} /\ Kind(calls[s]) = "barrier"
      BY <1>8, <1>9, <2>4 DEF SentIn
    <3>2. CASE pc[s] \in Meeting /\ k <= step[s]
      <4>1. Shift[k] <= Shift[step[s]] /\ Shift[k] \in Nat /\ Shift[step[s]] \in Nat
        BY <1>2, <1>7, <3>2, ShiftGrows, ShiftIsLarge DEF k
      <4>2. e < Shift[step[s]]
        BY <1>11, <4>1
      <4>3. calls[Minus(s, e)] >= calls[s]
        BY <1>6, <3>2, <4>2 DEF CameTo
      <4> QED BY <2>4, <4>3
    <3>3. CASE pc[s] \in {"ready", "closed"}
      BY <1>3, <1>6, <2>1, <2>2, <2>4, <3>3 DEF CameTo
    <3>4. k \in Nat
      BY <1>2 DEF k
    <3> QED BY <1>7, <3>1, <3>2, <3>3, <3>4
  <2> QED BY <1>2, <1>7, <1>10, <2>3, <2>4
<1>12. ASSUME NEW d \in 0..nranks - 1, d < 2 * Shift[k] PROVE calls[Minus(r, d)] >= calls[r]
  <2>1. CASE d < Shift[k]
    BY <1>1, <2>1 DEF CameTo, Meeting, k
  <2>2. CASE ~(d < Shift[k])
    <3> DEFINE e == d - Shift[k]
    <3>1. e \in 0..nranks - 1 /\ e < Shift[k] /\ Shift[k] + e = d /\ d < nranks
      BY <1>2, <1>4, <1>12, <2>2
    <3> HIDE DEF e
    <3>2. Minus(s, e) = Minus(r, d)
      BY <1>4, <3>1, BackAround DEF s
    <3> QED BY <1>11, <3>1, <3>2
  <2> QED BY <2>1, <2>2
<1> QED BY <1>12 DEF k

\* One message of the round is taken, from either list.
Taken(r) ==
  /\ \A q \in Ranks \ {r} : backlog'[q] = backlog[q] /\ unexpected'[q] = unexpected[q]
  /\ \A j \in Rounds :
       Count(backlog'[r], RoundMessage(r, j)) + Count(unexpected'[r], RoundMessage(r, j))
         = Count(backlog[r], RoundMessage(r, j)) + Count(unexpected[r], RoundMessage(r, j))
             - IF j = step[r] THEN 1 ELSE 0
  /\ Count(backlog'[r], RingMessage(r)) = Count(backlog[r], RingMessage(r))
  /\ \A i \in DOMAIN backlog'[r] : \E j \in DOMAIN backlog[r] : backlog'[r][i] = backlog[r][j]
  /\ \A i \in DOMAIN unexpected'[r] : \E j \in DOMAIN unexpected[r] : unexpected'[r][i] = unexpected[r][j]

\* The end of a round takes its message, of which the rank learns who has come.
LEMMA RoundDoneInTime ==
  ASSUME InitInv, AllInTime, NEW r \in Ranks, pc[r] = "barrierRecv", RoundDone(r), Taken(r),
         Count(backlog[r], Wanted(r)) + Count(unexpected[r], Wanted(r)) > 0,
         UNCHANGED <<ring, stream, out, calls, refused>>
  PROVE  AllInTime'
<1> DEFINE k == step[r]
           last == ~(2 * Shift[k] < nranks)
           b == Before("barrier", calls[r])
<1>1. TypeOK /\ PlaceIs(r) /\ InTime(r) /\ OutIs(r) /\ CameTo(r)
  BY DEF InitInv, AllInTime
<1>2. /\ calls[r] \in Nat /\ calls[r] <= Len(Program) /\ Len(Program) \in Nat /\ k \in Nat
      /\ nranks \in Nat /\ nranks >= 2
      /\ pc \in [Ranks -> Places] /\ step \in [Ranks -> Nat] /\ done \in [Ranks -> -1..Len(Program)]
      /\ \A q \in Ranks : calls[q] \in Nat
  BY <1>1, NumbersAre DEF TypeOK
<1>3. Kind(calls[r]) = "barrier" /\ Shift[k] < nranks /\ done[r] = calls[r] - 1 /\ refused = {}
  BY <1>1 DEF PlaceIs, InTime, Meeting
<1>4. /\ pc' = [pc EXCEPT ![r] = IF last THEN "ready" ELSE "barrierSend"]
      /\ step' = IF last THEN step ELSE [step EXCEPT ![r] = k + 1]
      /\ done' = IF last THEN [done EXCEPT ![r] = calls[r]] ELSE done
  BY DEF RoundDone, Mask, Goto
<1>5. /\ Shift[k + 1] = 2 * Shift[k] /\ Shift[k] \in Nat /\ k + 1 \in Nat
      /\ \A j \in Nat : Shift[j] \in Nat /\ (j >= k + 1 => Shift[j] >= Shift[k + 1])
  <2>1. k + 1 \in Nat
    BY <1>2
  <2>2. \A j \in Nat : Shift[j] \in Nat
    BY ShiftIsLarge
  <2>3. \A j \in Nat : j >= k + 1 => Shift[j] >= Shift[k + 1]
    <3> SUFFICES ASSUME NEW j \in Nat, j >= k + 1 PROVE Shift[j] >= Shift[k + 1]
      OBVIOUS
    <3>1. Shift[k + 1] <= Shift[j]
      BY <2>1, ShiftGrows
    <3> QED BY <2>1, <2>2, <3>1
  <2> QED BY <1>2, <2>1, <2>2, <2>3, ShiftDoubles
<1>6. \A d \in 0..nranks - 1 : d < 2 * Shift[k] => calls[Minus(r, d)] >= calls[r]
  BY MessageTells
<1> HIDE DEF k, last
<1>7. /\ pc'[r] = (IF last THEN "ready" ELSE "barrierSend")
      /\ step'[r] = (IF last THEN k ELSE k + 1)
      /\ done'[r] = (IF last THEN calls[r] ELSE done[r])
      /\ Others(r) /\ calls'[r] \in Nat /\ calls'[r] >= calls[r] /\ calls'[r] = calls[r]
  <2>1. /\ pc'[r] = (IF last THEN "ready" ELSE "barrierSend")
        /\ step'[r] = (IF last THEN k ELSE k + 1)
        /\ done'[r] = (IF last THEN calls[r] ELSE done[r])
    BY <1>2, <1>4 DEF k
  <2>2. Others(r)
    BY <1>2, <1>4 DEF Others
  <2> QED BY <1>2, <2>1, <2>2
<1>8. /\ SlicesSent(r)' = SlicesSent(r) /\ SlicesRead(r)' = SlicesRead(r)
      /\ Connected(r)' <=> Connected(r)
      /\ \A j \in Rounds : /\ SentIn(r, j)' = SentIn(r, j)
                           /\ ReceivedIn(r, j)' = ReceivedIn(r, j) + IF j = k THEN 1 ELSE 0
  <2>1. /\ SlicesBefore(calls[r]) \in Nat /\ SlicesBefore(calls[r] + 1) = SlicesBefore(calls[r]) + 0
        /\ b \in Nat
    <3>1. Kind(calls[r]) # "gather"
      BY <1>3
    <3> QED BY <1>2, <3>1, SlicesAre, BeforeIs
  <2>2. SlicesSent(r)' = SlicesSent(r) /\ SlicesRead(r)' = SlicesRead(r)
    BY <1>7, <2>1 DEF SlicesSent, SlicesRead, Gathering
  <2>3. Connected(r)' <=> Connected(r)
    BY <1>7 DEF Connected, Joining
  <2>4. ASSUME NEW j \in Rounds
        PROVE  /\ SentIn(r, j)' = SentIn(r, j)
               /\ ReceivedIn(r, j)' = ReceivedIn(r, j) + IF j = k THEN 1 ELSE 0
    <3>1. j \in Nat /\ Shift[j] < nranks
      BY RoundsAre DEF Rounds
    <3>2. last => j <= k
      <4> SUFFICES ASSUME last, ~(j <= k) PROVE FALSE
        OBVIOUS
      <4>1. j >= k + 1 /\ k \in Nat
        BY <1>2, <3>1 DEF k
      <4>2. Shift[j] >= 2 * Shift[k] /\ Shift[j] \in Nat
        BY <1>5, <3>1, <4>1
      <4>3. 2 * Shift[k] >= nranks
        BY <1>2, <1>5 DEF last
      <4> QED BY <1>2, <1>5, <3>1, <4>2, <4>3
    <3>3. step[r] = k /\ k \in Nat
      BY <1>2 DEF k
    <3>4. SentIn(r, j) = b + (IF j <= k THEN 1 ELSE 0) /\ ReceivedIn(r, j) = b + (IF j < k THEN 1 ELSE 0)
      BY <3>1, <3>3 DEF SentIn, ReceivedIn, Meeting
    <3>5. CASE last
      <4>1. SentIn(r, j)' = b + 1 /\ ReceivedIn(r, j)' = b + 1
        BY <1>3, <1>7, <3>5 DEF SentIn, ReceivedIn, Meeting
      <4> QED BY <2>1, <3>1, <3>2, <3>3, <3>4, <3>5, <4>1
    <3>6. CASE ~last
      <4>1. /\ SentIn(r, j)' = b + (IF j < k + 1 THEN 1 ELSE 0)
            /\ ReceivedIn(r, j)' = b + (IF j < k + 1 THEN 1 ELSE 0)
        BY <1>7, <3>1, <3>3, <3>6 DEF SentIn, ReceivedIn, Meeting
      <4> QED BY <2>1, <3>1, <3>3, <3>4, <4>1
    <3> QED BY <3>5, <3>6
  <2> QED BY <2>2, <2>3, <2>4
<1>9. InTime(r)' /\ OutIs(r)' /\ CameTo(r)'
  <2>1. InTime(r)'
    <3>1. CASE last
      BY <1>3, <1>7, <3>1 DEF InTime, Gathering, Meeting
    <3>2. CASE ~last
      <4>1. Shift[step'[r]] < nranks
        BY <1>5, <1>7, <3>2 DEF last
      <4> QED BY <1>3, <1>7, <3>2, <4>1 DEF InTime, Gathering, Meeting
    <3> QED BY <3>1, <3>2
  <2>2. OutIs(r)'
    BY <1>3, <1>7 DEF OutIs, Gathering
  <2>3. CameTo(r)'
    <3>1. ASSUME pc'[r] \in Meeting, NEW d \in 0..nranks - 1, d < Shift[step'[r]]
          PROVE  calls'[Minus(r, d)] >= calls'[r]
      <4>1. ~last
        BY <1>7, <3>1 DEF Meeting
      <4>2. d < 2 * Shift[k]
        BY <1>5, <1>7, <3>1, <4>1
      <4> QED BY <1>6, <4>2
    <3>2. ASSUME NEW j \in 1..Len(Program), NEW q \in Ranks, Kind(j) = "barrier",
                 j < calls'[r] \/ (j = calls'[r] /\ pc'[r] \in {"ready", "closed"})
          PROVE  calls'[q] >= j
      <4>1. CASE j < calls[r]
        BY <1>1, <3>2, <4>1 DEF CameTo
      <4>2. CASE j = calls[r] /\ last
        <5>1. PICK d \in 0..nranks - 1 : q = Minus(r, d)
          BY BackAround
        <5>2. d < 2 * Shift[k]
          BY <1>2, <1>5, <4>2 DEF last
        <5> QED BY <1>6, <4>2, <5>1, <5>2
      <4> QED BY <1>7, <3>2, <4>1, <4>2
    <3> QED BY <3>1, <3>2 DEF CameTo
  <2> QED BY <2>1, <2>2, <2>3
<1>10. ASSUME NEW q \in Ranks
       PROVE  /\ SlicesSent(q)' = SlicesSent(q) /\ SlicesRead(q)' = SlicesRead(q)
              /\ Connected(q)' <=> Connected(q)
              /\ \A j \in Rounds : /\ SentIn(q, j)' = SentIn(q, j)
                                   /\ q # r => ReceivedIn(q, j)' = ReceivedIn(q, j)
              /\ InTime(q)' /\ OutIs(q)' /\ CameTo(q)'
  <2>1. CASE q = r
    BY <1>8, <1>9, <2>1
  <2>2. CASE q # r
    <3>1. /\ SlicesSent(q)' = SlicesSent(q) /\ SlicesRead(q)' = SlicesRead(q)
          /\ Connected(q)' <=> Connected(q)
          /\ \A j \in Nat : SentIn(q, j)' = SentIn(q, j) /\ ReceivedIn(q, j)' = ReceivedIn(q, j)
          /\ InTime(q)' /\ OutIs(q)' /\ CameTo(q)'
      BY <1>1, <1>7, <2>2, OthersStay
    <3>2. \A j \in Rounds : j \in Nat
      BY RoundsAre
    <3> QED BY <3>1, <3>2
  <2> QED BY <2>1, <2>2
<1>11. \A q \in Ranks : StreamIs(q)'
  BY <1>10, StreamsStay
<1>12. ASSUME NEW q \in Ranks PROVE MessagesAre(q)'
  <2>1. MessagesAre(q) /\ Minus(q, 1) \in Ranks
    BY RingOfRanks DEF AllInTime
  <2>2. Connected(Minus(q, 1))' <=> Connected(Minus(q, 1))
    BY <1>10, <2>1
  <2>3. \A j \in Rounds : SentIn(Minus(q, Shift[j]), j)' = SentIn(Minus(q, Shift[j]), j)
    BY <1>10, RoundsAre
  <2>4. CASE q # r
    <3>1. backlog'[q] = backlog[q] /\ unexpected'[q] = unexpected[q]
      BY <2>4 DEF Taken
    <3>2. \A j \in Rounds : ReceivedIn(q, j)' = ReceivedIn(q, j)
      BY <1>10, <2>4
    <3> QED BY <2>1, <2>2, <2>3, <3>1, <3>2 DEF MessagesAre
  <2>5. CASE q = r
    <3>1. ASSUME NEW j \in Rounds
          PROVE  Count(backlog'[r], RoundMessage(r, j)) + Count(unexpected'[r], RoundMessage(r, j))
                   = SentIn(Minus(r, Shift[j]), j)' - ReceivedIn(r, j)'
      <4>1. /\ SentIn(Minus(r, Shift[j]), j)' = SentIn(Minus(r, Shift[j]), j)
            /\ ReceivedIn(r, j)' = ReceivedIn(r, j) + IF j = k THEN 1 ELSE 0
        BY <1>8, <2>3, <2>5
      <4>2. SentIn(Minus(r, Shift[j]), j) \in Nat /\ ReceivedIn(r, j) \in Nat
        BY <1>1, RoundsAre, NumbersAre
      <4>3. Count(backlog'[r], RoundMessage(r, j)) + Count(unexpected'[r], RoundMessage(r, j))
              = Count(backlog[r], RoundMessage(r, j)) + Count(unexpected[r], RoundMessage(r, j))
                  - IF j = k THEN 1 ELSE 0
        BY DEF Taken, k
      <4>4. Count(backlog[r], RoundMessage(r, j)) + Count(unexpected[r], RoundMessage(r, j))
              = SentIn(Minus(r, Shift[j]), j) - ReceivedIn(r, j)
        BY <2>1, <2>5 DEF MessagesAre
      <4> DEFINE S == SentIn(Minus(r, Shift[j]), j)
                 R == ReceivedIn(r, j)
                 A == Count(backlog[r], RoundMessage(r, j)) + Count(unexpected[r], RoundMessage(r, j))
      <4>5. S \in Nat /\ R \in Nat /\ A = S - R
        BY <4>2, <4>4
      <4> HIDE DEF S, R, A
      <4>6. A - (IF j = k THEN 1 ELSE 0) = S - (R + IF j = k THEN 1 ELSE 0)
        BY <4>5
      <4>7. SentIn(Minus(r, Shift[j]), j)' = S /\ ReceivedIn(r, j)' = R + IF j = k THEN 1 ELSE 0
        BY <4>1 DEF S, R
      <4>8. Count(backlog'[r], RoundMessage(r, j)) + Count(unexpected'[r], RoundMessage(r, j))
              = A - IF j = k THEN 1 ELSE 0
        <5>1. Count(backlog[r], RoundMessage(r, j)) \in Nat /\ Count(unexpected[r], RoundMessage(r, j)) \in Nat
          <6>1. backlog[r] \in Seq(Messages) /\ unexpected[r] \in Seq(Messages)
            BY <1>1 DEF TypeOK
          <6>2. [from |-> r, tag |-> 0] \in Messages
            BY DEF Messages
          <6> QED BY <6>1, <6>2, CountMessages
        <5> QED BY <4>3, <5>1 DEF A
      <4> QED BY <4>6, <4>7, <4>8
    <3>2. Count(backlog'[r], RingMessage(r)) = Count(backlog[r], RingMessage(r))
      BY DEF Taken
    <3>3. /\ \A i \in DOMAIN backlog'[r] :
               backlog'[r][i] = RingMessage(r) \/ \E j \in Rounds : backlog'[r][i] = RoundMessage(r, j)
          /\ \A i \in DOMAIN unexpected'[r] : \E j \in Rounds : unexpected'[r][i] = RoundMessage(r, j)
      <4>1. \A i \in DOMAIN backlog[r] :
               backlog[r][i] = RingMessage(r) \/ \E j \in Rounds : backlog[r][i] = RoundMessage(r, j)
        BY <2>1, <2>5 DEF MessagesAre
      <4>2. \A i \in DOMAIN unexpected[r] : \E j \in Rounds : unexpected[r][i] = RoundMessage(r, j)
        BY <2>1, <2>5 DEF MessagesAre
      <4>3. \A i \in DOMAIN backlog'[r] : \E j \in DOMAIN backlog[r] : backlog'[r][i] = backlog[r][j]
        BY DEF Taken
      <4>4. \A i \in DOMAIN unexpected'[r] : \E j \in DOMAIN unexpected[r] : unexpected'[r][i] = unexpected[r][j]
        BY DEF Taken
      <4>5. ASSUME NEW i \in DOMAIN backlog'[r]
            PROVE  backlog'[r][i] = RingMessage(r) \/ \E j \in Rounds : backlog'[r][i] = RoundMessage(r, j)
        <5>1. PICK j \in DOMAIN backlog[r] : backlog'[r][i] = backlog[r][j]
          BY <4>3
        <5> QED BY <4>1, <5>1
      <4>6. ASSUME NEW i \in DOMAIN unexpected'[r]
            PROVE  \E j \in Rounds : unexpected'[r][i] = RoundMessage(r, j)
        <5>1. PICK j \in DOMAIN unexpected[r] : unexpected'[r][i] = unexpected[r][j]
          BY <4>4
        <5> QED BY <4>2, <5>1
      <4> QED BY <4>5, <4>6
    <3>4. RingMessage(r)' = RingMessage(r) /\ \A j : RoundMessage(r, j)' = RoundMessage(r, j)
      BY DEF RingMessage, RoundMessage
    <3> QED BY <2>1, <2>2, <2>5, <3>1, <3>2, <3>3, <3>4 DEF MessagesAre
  <2> QED BY <2>4, <2>5
<1> QED BY <1>10, <1>11, <1>12 DEF AllInTime

\* A message that was put aside is taken,
LEMMA DequeueInTime ==
  ASSUME InitInv, AllInTime, NEW r \in Ranks, DequeueUnexpected(r)
  PROVE  AllInTime'
<1> DEFINE k == step[r]
           w == RoundMessage(r, k)
           u == unexpected[r]
<1>1. TypeOK
  BY DEF InitInv
<1>2. /\ backlog \in [Ranks -> Seq(Messages)] /\ unexpected \in [Ranks -> Seq(Messages)]
      /\ u \in Seq(Messages) /\ backlog[r] \in Seq(Messages)
  BY <1>1 DEF TypeOK
<1>3. Wanted(r) = w
  BY DEF Wanted, RoundMessage, Source, Mask, Tag
<1> HIDE DEF w, u, k
<1>4. /\ pc[r] = "barrierRecv" /\ w \in ToSet(u) /\ RoundDone(r)
      /\ unexpected' = [unexpected EXCEPT ![r] = RemoveFirst(u, w)] /\ backlog' = backlog
      /\ UNCHANGED <<ring, stream, out, calls, refused>>
  BY <1>3 DEF DequeueUnexpected, rendezvous, failures, u
<1>5. PICK i \in DOMAIN u : u[i] = w
  BY <1>2, <1>4 DEF ToSet
<1>6. ASSUME NEW e
      PROVE  /\ Count(backlog[r], e) \in Nat /\ Count(u, e) \in Nat
             /\ Count(unexpected'[r], e) = Count(u, e) - IF w = e THEN 1 ELSE 0
  <2>1. w \in Messages
    BY <1>2, <1>5
  <2>2. Count(backlog[r], e) \in Nat /\ Count(u, e) \in Nat
    BY <1>2, <2>1, CountMessages
  <2>3. Count(RemoveFirst(u, w), e) = Count(u, e) - IF w = e THEN 1 ELSE 0
    BY <1>2, <1>4, RemoveFirstIs
  <2> QED BY <1>2, <1>4, <2>2, <2>3
<1>7. Count(u, w) > 0
  <2>1. w \in Messages
    BY <1>2, <1>5
  <2>2. /\ Count(u, w) \in Nat
        /\ Count(Append(u, w), w) = Count(u, w) + IF w = w THEN 1 ELSE 0
        /\ Count(<<w>> \o u, w) = Count(u, w) + IF w = w THEN 1 ELSE 0
        /\ u # <<>> => Count(Tail(u), w) = Count(u, w) - IF Head(u) = w THEN 1 ELSE 0
        /\ \A j \in DOMAIN u : u[j] = w => Count(u, w) > 0
    BY <1>2, <2>1, CountIs
  <2> QED BY <1>5, <2>2
<1>8. Count(backlog[r], Wanted(r)) + Count(unexpected[r], Wanted(r)) > 0
  BY <1>3, <1>6, <1>7 DEF u
<1>9. ASSUME NEW j \in Rounds PROVE RoundMessage(r, j) = w <=> j = k
  <2>1. j \in Nat /\ k \in Nat
    BY <1>1, RoundsAre, NumbersAre DEF k
  <2> QED BY <2>1 DEF RoundMessage, w
<1>10. Taken(r)
  <2>1. \A j \in Rounds :
       Count(backlog'[r], RoundMessage(r, j)) + Count(unexpected'[r], RoundMessage(r, j))
         = Count(backlog[r], RoundMessage(r, j)) + Count(unexpected[r], RoundMessage(r, j))
             - IF j = step[r] THEN 1 ELSE 0
    <3> SUFFICES ASSUME NEW j \in Rounds
                 PROVE  Count(backlog[r], RoundMessage(r, j)) + Count(unexpected'[r], RoundMessage(r, j))
                         = Count(backlog[r], RoundMessage(r, j)) + Count(u, RoundMessage(r, j))
                            - IF j = k THEN 1 ELSE 0
      BY <1>4 DEF u, k
    <3>1. /\ Count(backlog[r], RoundMessage(r, j)) \in Nat /\ Count(u, RoundMessage(r, j)) \in Nat
          /\ Count(unexpected'[r], RoundMessage(r, j))
               = Count(u, RoundMessage(r, j)) - IF w = RoundMessage(r, j) THEN 1 ELSE 0
      BY <1>6
    <3>2. w = RoundMessage(r, j) <=> j = k
      BY <1>9
    <3> QED BY <3>1, <3>2
  <2>2. \A j \in DOMAIN unexpected'[r] : \E n \in DOMAIN unexpected[r] : unexpected'[r][j] = unexpected[r][n]
    <3>1. unexpected'[r] = RemoveFirst(u, w)
      BY <1>2, <1>4
    <3>2. \A j \in DOMAIN RemoveFirst(u, w) : \E n \in DOMAIN u : RemoveFirst(u, w)[j] = u[n]
      <4>1. /\ Count(RemoveFirst(u, w), w) = Count(u, w) - IF w = w THEN 1 ELSE 0
            /\ \A j \in DOMAIN RemoveFirst(u, w) : \E n \in DOMAIN u : RemoveFirst(u, w)[j] = u[n]
        BY <1>2, <1>4, RemoveFirstIs
      <4> QED BY <4>1
    <3> QED BY <3>1, <3>2 DEF u
  <2>3. \A q \in Ranks \ {r} : backlog'[q] = backlog[q] /\ unexpected'[q] = unexpected[q]
    BY <1>2, <1>4
  <2>4. backlog'[r] = backlog[r]
    BY <1>4
  <2> QED BY <2>1, <2>2, <2>3, <2>4 DEF Taken
<1> QED BY <1>4, <1>8, <1>10, RoundDoneInTime

\* or the first one that comes, or it is put aside.
LEMMA AcceptInTime ==
  ASSUME InitInv, AllInTime, NEW r \in Ranks, AcceptExpected(r)
  PROVE  AllInTime'
<1> DEFINE k == step[r]
           w == RoundMessage(r, k)
           b == backlog[r]
           h == Head(b)
<1>1. TypeOK /\ PlaceIs(r) /\ MessagesAre(r)
  BY DEF InitInv, AllInTime
<1>2. /\ backlog \in [Ranks -> Seq(Messages)] /\ unexpected \in [Ranks -> Seq(Messages)]
      /\ b \in Seq(Messages) /\ unexpected[r] \in Seq(Messages)
  BY <1>1 DEF TypeOK
<1>3. Wanted(r) = w
  BY DEF Wanted, RoundMessage, Source, Mask, Tag
<1>4. /\ pc[r] = "barrierRecv" /\ b # <<>> /\ backlog' = [backlog EXCEPT ![r] = Tail(b)]
      /\ UNCHANGED <<ring, stream, out, calls, refused>>
      /\ h = w => RoundDone(r) /\ unexpected' = unexpected
      /\ h # w => /\ unexpected' = [unexpected EXCEPT ![r] = <<h>> \o @]
                  /\ UNCHANGED <<step, done, pc>>
  BY <1>3 DEF AcceptExpected, Accept, rendezvous, failures
<1>5. /\ h = b[1] /\ 1 \in DOMAIN b /\ h \in Messages
      /\ \A i \in DOMAIN Tail(b) : Tail(b)[i] = b[i + 1] /\ i + 1 \in DOMAIN b
  BY <1>2, <1>4
<1> HIDE DEF w, b, h, k
<1>6. backlog'[r] = Tail(b) /\ \A q \in Ranks \ {r} : backlog'[q] = backlog[q]
  BY <1>2, <1>4
<1>7. ASSUME NEW e
      PROVE  /\ Count(b, e) \in Nat /\ Count(unexpected[r], e) \in Nat
             /\ Count(backlog'[r], e) = Count(b, e) - IF h = e THEN 1 ELSE 0
             /\ Count(<<h>> \o unexpected[r], e) = Count(unexpected[r], e) + IF h = e THEN 1 ELSE 0
  <2>1. /\ Count(b, e) \in Nat /\ Count(unexpected[r], e) \in Nat
        /\ Count(<<h>> \o unexpected[r], e) = Count(unexpected[r], e) + IF h = e THEN 1 ELSE 0
    BY <1>2, <1>5, CountMessages
  <2>2. Count(Tail(b), e) = Count(b, e) - IF Head(b) = e THEN 1 ELSE 0
    BY <1>2, <1>4, CountFirst
  <2> QED BY <1>6, <2>1, <2>2 DEF h
<1>8. Count(b, h) > 0
  <2>1. /\ Count(b, h) \in Nat
        /\ Count(Append(b, h), h) = Count(b, h) + IF h = h THEN 1 ELSE 0
        /\ Count(<<h>> \o b, h) = Count(b, h) + IF h = h THEN 1 ELSE 0
        /\ b # <<>> => Count(Tail(b), h) = Count(b, h) - IF Head(b) = h THEN 1 ELSE 0
        /\ \A j \in DOMAIN b : b[j] = h => Count(b, h) > 0
    BY <1>2, <1>5, CountIs
  <2> QED BY <1>5, <2>1
\* The connection of the ring has been taken long since.
<1>9. h # RingMessage(r) /\ \E j \in Rounds : h = RoundMessage(r, j)
  <2>1. ring[r] # nranks
    BY <1>1, <1>4 DEF PlaceIs, Joining
  <2>2. Count(b, RingMessage(r)) <= 0
    BY <1>1, <2>1 DEF MessagesAre, b
  <2>3. h # RingMessage(r)
    BY <1>7, <1>8, <2>2
  <2> QED BY <1>1, <1>5, <2>3 DEF MessagesAre, b
<1>10. ASSUME NEW j \in Rounds PROVE RoundMessage(r, j) = w <=> j = k
  <2>1. j \in Nat /\ k \in Nat
    BY <1>1, RoundsAre, NumbersAre DEF k
  <2> QED BY <2>1 DEF RoundMessage, w
<1>11. Count(backlog'[r], RingMessage(r)) = Count(backlog[r], RingMessage(r))
  BY <1>7, <1>9 DEF b
<1>12. CASE h = w
  <2>1. Count(backlog[r], Wanted(r)) + Count(unexpected[r], Wanted(r)) > 0
    <3>1. /\ Count(b, w) \in Nat /\ Count(unexpected[r], w) \in Nat
      BY <1>7
    <3> QED BY <1>3, <1>8, <1>12, <3>1 DEF b
  <2>2. RoundDone(r) /\ unexpected' = unexpected
    BY <1>4, <1>12
  <2>3. \A j \in Rounds :
       Count(backlog'[r], RoundMessage(r, j)) + Count(unexpected'[r], RoundMessage(r, j))
         = Count(backlog[r], RoundMessage(r, j)) + Count(unexpected[r], RoundMessage(r, j))
             - IF j = step[r] THEN 1 ELSE 0
    <3> SUFFICES ASSUME NEW j \in Rounds
                 PROVE  Count(backlog'[r], RoundMessage(r, j)) + Count(unexpected[r], RoundMessage(r, j))
                         = Count(b, RoundMessage(r, j)) + Count(unexpected[r], RoundMessage(r, j))
                            - IF j = k THEN 1 ELSE 0
      BY <2>2 DEF b, k
    <3>1. /\ Count(b, RoundMessage(r, j)) \in Nat /\ Count(unexpected[r], RoundMessage(r, j)) \in Nat
          /\ Count(backlog'[r], RoundMessage(r, j))
               = Count(b, RoundMessage(r, j)) - IF h = RoundMessage(r, j) THEN 1 ELSE 0
      BY <1>7
    <3>2. h = RoundMessage(r, j) <=> j = k
      BY <1>10, <1>12
    <3> QED BY <3>1, <3>2
  <2>4. \A i \in DOMAIN backlog'[r] : \E j \in DOMAIN backlog[r] : backlog'[r][i] = backlog[r][j]
    BY <1>5, <1>6 DEF b
  <2>5. Taken(r)
    BY <1>6, <1>11, <2>2, <2>3, <2>4 DEF Taken
  <2> QED BY <1>4, <2>1, <2>2, <2>5, RoundDoneInTime
<1>13. CASE h # w
  <2>1. /\ unexpected' = [unexpected EXCEPT ![r] = <<h>> \o unexpected[r]]
        /\ UNCHANGED <<step, done, pc, ring, stream, out, calls, refused>>
    BY <1>4, <1>13
  <2>2. unexpected'[r] = <<h>> \o unexpected[r] /\ \A q \in Ranks \ {r} : unexpected'[q] = unexpected[q]
    BY <1>2, <2>1
  <2>3. ASSUME NEW q \in Ranks
        PROVE  /\ SlicesSent(q)' = SlicesSent(q) /\ SlicesRead(q)' = SlicesRead(q)
               /\ Connected(q)' <=> Connected(q)
               /\ \A j \in Rounds : SentIn(q, j)' = SentIn(q, j) /\ ReceivedIn(q, j)' = ReceivedIn(q, j)
               /\ InTime(q)' /\ OutIs(q)' /\ CameTo(q)'
    <3>1. InTime(q) /\ OutIs(q) /\ CameTo(q)
      BY DEF AllInTime
    <3> QED BY <2>1, <3>1 DEF SlicesSent, SlicesRead, Connected, SentIn, ReceivedIn, InTime, OutIs, CameTo
  <2>4. \A q \in Ranks : StreamIs(q)'
    BY <2>1, <2>3, StreamsStay
  <2>5. ASSUME NEW q \in Ranks PROVE MessagesAre(q)'
    <3>1. MessagesAre(q) /\ Minus(q, 1) \in Ranks
      BY RingOfRanks DEF AllInTime
    <3>2. Connected(Minus(q, 1))' <=> Connected(Minus(q, 1))
      BY <2>3, <3>1
    <3>3. \A j \in Rounds : /\ SentIn(Minus(q, Shift[j]), j)' = SentIn(Minus(q, Shift[j]), j)
                            /\ ReceivedIn(q, j)' = ReceivedIn(q, j)
      BY <2>3, RoundsAre
    <3>4. CASE q # r
      <4>1. backlog'[q] = backlog[q] /\ unexpected'[q] = unexpected[q]
        BY <1>6, <2>2, <3>4
      <4> QED BY <2>1, <3>1, <3>2, <3>3, <4>1 DEF MessagesAre
    <3>5. CASE q = r
      <4>1. \A j \in Rounds :
              Count(backlog'[r], RoundMessage(r, j)) + Count(unexpected'[r], RoundMessage(r, j))
                = SentIn(Minus(r, Shift[j]), j)' - ReceivedIn(r, j)'
        <5> SUFFICES ASSUME NEW j \in Rounds
                     PROVE  Count(backlog'[r], RoundMessage(r, j)) + Count(unexpected'[r], RoundMessage(r, j))
                              = SentIn(Minus(r, Shift[j]), j)' - ReceivedIn(r, j)'
          OBVIOUS
        <5> DEFINE m == RoundMessage(r, j)
        <5>1. /\ Count(b, m) \in Nat /\ Count(unexpected[r], m) \in Nat
              /\ Count(backlog'[r], m) = Count(b, m) - IF h = m THEN 1 ELSE 0
              /\ Count(unexpected'[r], m) = Count(unexpected[r], m) + IF h = m THEN 1 ELSE 0
          BY <1>7, <2>2
        <5>2. Count(b, m) + Count(unexpected[r], m) = SentIn(Minus(r, Shift[j]), j) - ReceivedIn(r, j)
          BY <1>1 DEF MessagesAre, b
        <5> HIDE DEF m
        <5>3. Count(backlog'[r], m) + Count(unexpected'[r], m) = Count(b, m) + Count(unexpected[r], m)
          BY <5>1
        <5> QED BY <3>3, <3>5, <5>2, <5>3 DEF m
      <4>2. \A i \in DOMAIN backlog'[r] :
              backlog'[r][i] = RingMessage(r) \/ \E j \in Rounds : backlog'[r][i] = RoundMessage(r, j)
        BY <1>1, <1>5, <1>6 DEF MessagesAre, b
      <4>3. ASSUME NEW i \in DOMAIN unexpected'[r]
            PROVE  \E j \in Rounds : unexpected'[r][i] = RoundMessage(r, j)
        <5>1. CASE i = 1
          <6>1. unexpected'[r][1] = h
            BY <1>2, <1>5, <2>2
          <6> QED BY <1>9, <5>1, <6>1
        <5>2. CASE i # 1
          <6>1. i - 1 \in DOMAIN unexpected[r] /\ unexpected'[r][i] = unexpected[r][i - 1]
            BY <1>2, <1>5, <2>2, <4>3, <5>2
          <6> QED BY <1>1, <6>1 DEF MessagesAre
        <5> QED BY <5>1, <5>2
      <4>4. RingMessage(r)' = RingMessage(r) /\ \A j : RoundMessage(r, j)' = RoundMessage(r, j)
        BY DEF RingMessage, RoundMessage
      <4> QED BY <1>1, <1>11, <2>1, <3>2, <3>5, <4>1, <4>2, <4>3, <4>4 DEF MessagesAre
    <3> QED BY <3>4, <3>5
  <2> QED BY <2>3, <2>4, <2>5 DEF AllInTime
<1> QED BY <1>12, <1>13

\* A rank that has made all its calls closes; nothing is on its way to it.
LEMMA FinalizeInTime ==
  ASSUME InitInv, AllInTime, NEW r \in Ranks, Finalize(r)
  PROVE  AllInTime'
<1>1. TypeOK /\ InTime(r) /\ OutIs(r) /\ CameTo(r)
  BY DEF InitInv, AllInTime
<1>2. calls[r] \in Nat
  BY <1>1, NumbersAre
<1>3. /\ pc[r] = "ready" /\ calls[r] = Len(Program) /\ pc \in [Ranks -> Places]
      /\ pc' = [pc EXCEPT ![r] = "closed"]
      /\ UNCHANGED <<backlog, unexpected, ring, stream, out, step, calls, done, refused>>
  BY <1>1 DEF Finalize, Goto, TypeOK, rendezvous, failures
<1>4. pc'[r] = "closed" /\ Others(r) /\ calls'[r] \in Nat /\ calls'[r] >= calls[r]
  BY <1>2, <1>3 DEF Others
<1>5. /\ SlicesSent(r)' = SlicesSent(r) /\ SlicesRead(r)' = SlicesRead(r)
      /\ Connected(r)' <=> Connected(r)
      /\ \A j \in Nat : SentIn(r, j)' = SentIn(r, j) /\ ReceivedIn(r, j)' = ReceivedIn(r, j)
      /\ InTime(r)' /\ OutIs(r)' /\ CameTo(r)'
  <2>1. SlicesSent(r)' = SlicesSent(r) /\ SlicesRead(r)' = SlicesRead(r) /\ (Connected(r)' <=> Connected(r))
    BY <1>3, <1>4 DEF SlicesSent, SlicesRead, Connected, Joining
  <2>2. \A j \in Nat : SentIn(r, j)' = SentIn(r, j) /\ ReceivedIn(r, j)' = ReceivedIn(r, j)
    BY <1>3, <1>4 DEF SentIn, ReceivedIn, Meeting
  <2>3. InTime(r)' /\ OutIs(r)' /\ CameTo(r)'
    BY <1>1, <1>3, <1>4 DEF InTime, OutIs, CameTo, Gathering, Meeting
  <2> QED BY <2>1, <2>2, <2>3
<1>6. ASSUME NEW q \in Ranks
      PROVE  /\ SlicesSent(q)' = SlicesSent(q) /\ SlicesRead(q)' = SlicesRead(q)
             /\ Connected(q)' <=> Connected(q)
             /\ \A j \in Nat : SentIn(q, j)' = SentIn(q, j) /\ ReceivedIn(q, j)' = ReceivedIn(q, j)
             /\ InTime(q)' /\ OutIs(q)' /\ CameTo(q)'
  BY <1>1, <1>3, <1>4, <1>5, OthersStay
<1>7. (\A q \in Ranks : StreamIs(q)') /\ (\A q \in Ranks : MessagesAre(q)')
  BY <1>3, <1>6, StreamsStay, MessagesStay
<1> QED BY <1>6, <1>7 DEF AllInTime

\* What a rank has sent is not more than its calls up to the current one.
LEMMA SentIsBounded ==
  ASSUME InitInv, NEW r \in Ranks
  PROVE  /\ SlicesSent(r) <= SlicesBefore(Len(Program) + 1)
         /\ \A k : SentIn(r, k) <= Before("barrier", Len(Program) + 1)
<1>1. TypeOK /\ PlaceIs(r)
  BY DEF InitInv
<1>2. /\ calls[r] \in Nat /\ calls[r] <= Len(Program) /\ Len(Program) \in Nat /\ step[r] \in Nat
      /\ calls[r] + 1 \in Nat /\ Len(Program) + 1 \in Nat /\ calls[r] + 1 <= Len(Program) + 1
      /\ nranks \in Nat
  BY <1>1, NumbersAre
<1>3. /\ SlicesBefore(calls[r]) \in Nat
      /\ SlicesBefore(calls[r] + 1) = SlicesBefore(calls[r]) + IF Kind(calls[r]) = "gather" THEN nranks - 1 ELSE 0
      /\ SlicesBefore(calls[r] + 1) <= SlicesBefore(Len(Program) + 1)
      /\ SlicesBefore(calls[r] + 1) \in Nat /\ SlicesBefore(Len(Program) + 1) \in Nat
  BY <1>2, SlicesAre, SlicesGrow
<1>4. /\ Before("barrier", calls[r]) \in Nat
      /\ Before("barrier", calls[r] + 1) = Before("barrier", calls[r]) + IF Kind(calls[r]) = "barrier" THEN 1 ELSE 0
      /\ Before("barrier", calls[r] + 1) <= Before("barrier", Len(Program) + 1)
      /\ Before("barrier", calls[r] + 1) \in Nat /\ Before("barrier", Len(Program) + 1) \in Nat
  BY <1>2, BeforeIs, BeforeGrows
<1>5. SlicesSent(r) <= SlicesBefore(calls[r] + 1)
  <2>1. pc[r] \in Gathering => Kind(calls[r]) = "gather" /\ step[r] < nranks - 1
    BY <1>1 DEF PlaceIs
  <2>2. nranks - 1 \in Nat
    BY UidAssumption
  <2> QED BY <1>2, <1>3, <2>1, <2>2 DEF SlicesSent, Gathering
<1>6. \A k : SentIn(r, k) <= Before("barrier", calls[r] + 1)
  <2>1. pc[r] \in Meeting => Kind(calls[r]) = "barrier"
    BY <1>1 DEF PlaceIs
  <2> QED BY <1>4, <2>1 DEF SentIn
<1>7. SlicesSent(r) \in Nat /\ \A k : SentIn(r, k) \in Nat
  BY <1>1, NumbersAre
<1> QED BY <1>3, <1>4, <1>5, <1>6, <1>7

\* A rank that has closed has read and received everything.
LEMMA ClosedHasAll ==
  ASSUME InitInv, AllInTime, NEW r \in Ranks, pc[r] = "closed"
  PROVE  /\ SlicesRead(r) = SlicesBefore(Len(Program) + 1)
         /\ \A k : ReceivedIn(r, k) = Before("barrier", Len(Program) + 1)
<1>1. TypeOK /\ InTime(r)
  BY DEF InitInv, AllInTime
<1>2. calls[r] = Len(Program) /\ calls[r] \in Nat
  BY <1>1, NumbersAre DEF InTime
<1>3. /\ Before("barrier", calls[r]) \in Nat
      /\ Before("barrier", calls[r] + 1) = Before("barrier", calls[r]) + IF Kind(calls[r]) = "barrier" THEN 1 ELSE 0
  BY <1>2, BeforeIs
<1>4. \A k : ReceivedIn(r, k) = Before("barrier", calls[r] + 1)
  BY <1>3 DEF ReceivedIn, Meeting
<1> QED BY <1>2, <1>4 DEF SlicesRead

\* So nobody finds it closed.
LEMMA NobodyIsRefused ==
  ASSUME InitInv, AllInTime, NEW r \in Ranks
  PROVE  ~Refused(r)
<1> SUFFICES ASSUME Refused(r) PROVE FALSE
  OBVIOUS
<1>1. TypeOK /\ PlaceIs(r) /\ InTime(r) /\ \A q \in Ranks : InTime(q) /\ StreamIs(q) /\ MessagesAre(q)
  BY DEF InitInv, AllInTime
<1>2. /\ calls[r] \in Nat /\ calls[r] <= Len(Program) /\ Len(Program) \in Nat /\ step[r] \in Nat
      /\ calls[r] + 1 \in Nat /\ Len(Program) + 1 \in Nat /\ calls[r] + 1 <= Len(Program) + 1
      /\ nranks \in Nat /\ nranks >= 2 /\ done[r] \in Int /\ done[r] >= -1
  BY <1>1, NumbersAre
<1>3. CASE pc[r] = "gatherSend" /\ MayBeClosed(next[r])
  <2> DEFINE n == Next(r)
  <2>1. n \in Ranks /\ Minus(n, 1) = r
    BY RingOfRanks
  <2>2. next[r] = n /\ Kind(calls[r]) = "gather" /\ step[r] < nranks - 1
    BY <1>1, <1>3 DEF PlaceIs, Gathering
  <2> HIDE DEF n
  <2>3. pc[n] = "closed"
    BY <1>1, <1>3, <2>1, <2>2 DEF MayBeClosed, InTime
  <2>4. Len(stream[r]) = SlicesSent(r) - SlicesBefore(Len(Program) + 1) /\ Len(stream[r]) \in Nat
    <3>1. Len(stream[r]) = SlicesSent(r) - SlicesRead(n)
      BY <1>1, <2>1 DEF StreamIs
    <3>2. SlicesRead(n) = SlicesBefore(Len(Program) + 1)
      BY <2>1, <2>3, ClosedHasAll
    <3> QED BY <1>1, <3>1, <3>2, NumbersAre
  <2>5. /\ SlicesBefore(calls[r]) \in Nat
        /\ SlicesBefore(calls[r] + 1) = SlicesBefore(calls[r]) + (nranks - 1)
        /\ SlicesBefore(calls[r] + 1) <= SlicesBefore(Len(Program) + 1)
        /\ SlicesBefore(Len(Program) + 1) \in Nat
    BY <1>2, <2>2, SlicesAre, SlicesGrow
  <2>6. SlicesSent(r) = SlicesBefore(calls[r]) + step[r]
    BY <1>3 DEF SlicesSent
  <2> QED BY <1>2, <2>2, <2>4, <2>5, <2>6
<1>4. CASE pc[r] = "barrierSend" /\ MayBeClosed(peers[r][Destination(r)])
  <2> DEFINE k == step[r]
             to == Destination(r)
  <2>1. /\ k < nranks /\ Shift[k] < nranks /\ calls[r] > 0 /\ Kind(calls[r]) = "barrier"
    BY <1>1, <1>4 DEF PlaceIs, InTime, Meeting
  <2>2. done[r] >= 0
    <3>1. done[r] # -1
      BY <1>1, <1>2, <2>1 DEF PlaceIs
    <3> QED BY <1>2, <3>1
  <2>3. k \in Rounds
    <3>1. k \in 0..nranks
      BY <1>2, <2>1
    <3> QED BY <2>1, <3>1 DEF Rounds
  <2>4. to \in Ranks /\ Minus(to, Shift[k]) = r
    BY <2>3, RoundBack DEF Destination, Mask
  <2>5. peers[r][to] = to
    BY <1>1, <2>2, <2>4 DEF PlaceIs
  <2> HIDE DEF to, k
  <2>6. pc[to] = "closed"
    BY <1>1, <1>4, <2>4, <2>5 DEF MayBeClosed, InTime, to
  <2>7. ReceivedIn(to, k) = Before("barrier", Len(Program) + 1)
    BY <2>4, <2>6, ClosedHasAll
  <2>8. Count(backlog[to], RoundMessage(to, k)) + Count(unexpected[to], RoundMessage(to, k))
          = SentIn(r, k) - ReceivedIn(to, k)
    BY <1>1, <2>3, <2>4 DEF MessagesAre
  <2>9. Count(backlog[to], RoundMessage(to, k)) \in Nat /\ Count(unexpected[to], RoundMessage(to, k)) \in Nat
    <3>1. backlog[to] \in Seq(Messages) /\ unexpected[to] \in Seq(Messages)
      BY <1>1, <2>4 DEF TypeOK
    <3>2. [from |-> r, tag |-> 0] \in Messages
      BY DEF Messages
    <3> QED BY <3>1, <3>2, CountMessages
  <2>10. /\ Before("barrier", calls[r]) \in Nat
         /\ Before("barrier", calls[r] + 1) = Before("barrier", calls[r]) + 1
         /\ Before("barrier", calls[r] + 1) <= Before("barrier", Len(Program) + 1)
         /\ Before("barrier", Len(Program) + 1) \in Nat
    BY <1>2, <2>1, BeforeIs, BeforeGrows
  <2>11. SentIn(r, k) = Before("barrier", calls[r])
    <3>1. ~(k < step[r])
      BY <1>2 DEF k
    <3> QED BY <1>4, <2>10, <3>1 DEF SentIn
  <2> QED BY <2>7, <2>8, <2>9, <2>10, <2>11
<1> QED BY <1>3, <1>4 DEF Refused

\* At the start nothing was called, sent or connected.
LEMMA InTimeAtStart == Init => AllInTime
<1> SUFFICES ASSUME Init, NEW r \in Ranks
             PROVE  InTime(r) /\ StreamIs(r) /\ OutIs(r) /\ MessagesAre(r) /\ CameTo(r)
  BY DEF AllInTime
<1>1. \A q \in Ranks : /\ pc[q] = "idle" /\ calls[q] = 0 /\ stream[q] = <<>> /\ ring[q] = nranks
                       /\ backlog[q] = <<>> /\ unexpected[q] = <<>>
  BY DEF Init
<1>2. nranks \in Nat /\ nranks >= 2 /\ Len(Program) \in Nat /\ Minus(r, 1) \in Ranks
  BY UidAssumption, RingOfRanks
<1>3. \A kind : Before(kind, 0) = 0
  <2>1. \A kind : {j \in 0..0 - 1 : Kind(j) = kind} = {}
    OBVIOUS
  <2> QED BY <2>1, FS_EmptySet DEF Before
<1>4. \A q \in Ranks : /\ SlicesSent(q) = 0 /\ SlicesRead(q) = 0 /\ ~Connected(q)
                       /\ \A k : SentIn(q, k) = 0 /\ ReceivedIn(q, k) = 0
  <2>1. SlicesBefore(0) = 0
    BY <1>2, <1>3 DEF SlicesBefore
  <2> SUFFICES ASSUME NEW q \in Ranks
               PROVE  /\ SlicesSent(q) = 0 /\ SlicesRead(q) = 0 /\ ~Connected(q)
                      /\ \A k : SentIn(q, k) = 0 /\ ReceivedIn(q, k) = 0
    OBVIOUS
  <2>2. SlicesSent(q) = 0 /\ SlicesRead(q) = 0 /\ ~Connected(q)
    BY <1>1, <2>1 DEF SlicesSent, SlicesRead, Connected, Joining, Gathering
  <2>3. \A k : SentIn(q, k) = 0 /\ ReceivedIn(q, k) = 0
    BY <1>1, <1>3 DEF SentIn, ReceivedIn, Meeting
  <2> QED BY <2>2, <2>3
<1>5. InTime(r)
  BY <1>1 DEF InTime, Init, Gathering, Meeting
<1>6. StreamIs(r)
  BY <1>1, <1>2, <1>4 DEF StreamIs
<1>7. OutIs(r)
  BY <1>1 DEF OutIs, Gathering
<1>8. MessagesAre(r)
  <2>1. \A m : Count(<<>>, m) = 0
    <3>1. \A m : {i \in DOMAIN <<>> : <<>>[i] = m} = {}
      OBVIOUS
    <3> QED BY <3>1, FS_EmptySet DEF Count
  <2>2. \A k \in Rounds : Minus(r, Shift[k]) \in Ranks
    BY RoundsAre
  <2>3. \A k \in Rounds :
          Count(backlog[r], RoundMessage(r, k)) + Count(unexpected[r], RoundMessage(r, k))
            = SentIn(Minus(r, Shift[k]), k) - ReceivedIn(r, k)
    BY <1>1, <1>4, <2>1, <2>2
  <2>4. Count(backlog[r], RingMessage(r)) =
          (IF Connected(Minus(r, 1)) THEN 1 ELSE 0) - (IF ring[r] # nranks THEN 1 ELSE 0)
    BY <1>1, <1>2, <1>4, <2>1
  <2>5. DOMAIN backlog[r] = {} /\ DOMAIN unexpected[r] = {}
    BY <1>1
  <2> QED BY <2>3, <2>4, <2>5 DEF MessagesAre
<1>9. CameTo(r)
  BY <1>1, <1>2 DEF CameTo, Meeting
<1> QED BY <1>5, <1>6, <1>7, <1>8, <1>9

\* A step in which nothing times out keeps everything in time.
LEMMA InTimeKept ==
  ASSUME InitInv, InTimeInv, [NextStep]_vars
  PROVE  InTimeInv'
<1> SUFFICES ASSUME timeOuts' = 0 PROVE AllInTime'
  BY DEF InTimeInv
<1>1. TypeOK /\ timeOuts \in Nat
  BY DEF InitInv, TypeOK
<1>2. ~RootTimesOut /\ \A r \in Ranks : ~TimeOut(r)
  BY <1>1 DEF RootTimesOut, TimeOut
<1>3. timeOuts = 0
  <2>1. CASE RootStep \/ RootLosesClient
    BY <2>1 DEF RootStep, RootAccept, RootCollect, RootAnswer, RootLosesClient, failures
  <2>2. ASSUME NEW r \in Ranks, Start(r) \/ ConnectToRoot(r) \/ Introduce(r) \/ ConnectToNext(r)
        PROVE timeOuts' = timeOuts
    BY <2>2 DEF Start, ConnectToRoot, Introduce, ConnectToNext, failures
  <2>3. ASSUME NEW r \in Ranks, AcceptRing(r) \/ GatherSend(r) \/ GatherRecv(r) \/ BarrierSend(r)
        PROVE timeOuts' = timeOuts
    BY <2>3 DEF AcceptRing, GatherSend, GatherRecv, BarrierSend, failures
  <2>4. ASSUME NEW r \in Ranks, DequeueUnexpected(r) \/ AcceptExpected(r) \/ Refused(r)
        PROVE timeOuts' = timeOuts
    BY <2>4 DEF DequeueUnexpected, AcceptExpected, Refused, failures
  <2>5. ASSUME NEW r \in Ranks, Enter(r) \/ Finalize(r)
        PROVE timeOuts' = timeOuts
    BY <2>5 DEF Enter, Finalize, failures
  <2>6. CASE UNCHANGED vars
    BY <2>6 DEF vars, failures
  <2> QED BY <1>2, <2>1, <2>2, <2>3, <2>4, <2>5, <2>6 DEF NextStep, Step
<1>4. AllInTime
  BY <1>3 DEF InTimeInv
<1>5. CASE RootStep \/ RootLosesClient
  BY <1>1, <1>4, <1>5, RootStepsAre, OnTheWayInTime
<1>6. ASSUME NEW r \in Ranks, Start(r) \/ ConnectToRoot(r) \/ Introduce(r) PROVE AllInTime'
  BY <1>1, <1>4, <1>6, RootStepsAre, OnTheWayInTime
<1>7. CASE UNCHANGED vars
  <2>1. OnTheWay
    <3>1. 0 \in Ranks
      BY UidAssumption DEF Ranks
    <3> QED BY <1>1, <1>7, <3>1 DEF vars, rendezvous, failures, OnTheWay
  <2> QED BY <1>1, <1>4, <2>1, OnTheWayInTime
<1>8. \A r \in Ranks : ~Refused(r)
  BY <1>4, NobodyIsRefused
<1> QED
  BY <1>2, <1>4, <1>5, <1>6, <1>7, <1>8, ConnectToNextInTime, AcceptRingInTime, EnterInTime,
     GatherSendInTime, GatherRecvInTime, BarrierSendInTime, DequeueInTime, AcceptInTime, FinalizeInTime
  DEF NextStep, Step

\* As long as nothing has timed out, what the streams, the lists of connections
\* and the buffers hold is what the ranks' positions in the program say.
THEOREM UidBootstrapInTime == Spec => []InTimeInv
<1>1. Init => InitInv /\ InTimeInv
  BY InitInvAtStart, InTimeAtStart DEF InTimeInv
<1>2. InitInv /\ InTimeInv /\ [NextStep]_vars => InitInv' /\ InTimeInv'
  BY InitInvKept, InTimeKept
<1> QED BY <1>1, <1>2, PTL DEF Spec

\* An init that returned has every rank's address in its place, and a gather in
\* time holds exactly the data of its own call.
THEOREM UidBootstrapData == Spec => []EveryonesData
<1>1. ASSUME InitInv, InTimeInv PROVE EveryonesData
  <2> SUFFICES ASSUME NEW r \in Ranks
               PROVE  /\ done[r] >= 0 => \A s \in Ranks : peers[r][s] = s
                      /\ pc[r] = "ready" /\ calls[r] > 0 /\ Program[calls[r]] = "gather" /\ timeOuts = 0
                           => \A s \in Ranks : out[r][s] = Slice(calls[r], s)
    BY DEF EveryonesData
  <2>1. done[r] >= 0 => \A s \in Ranks : peers[r][s] = s
    <3>1. PlaceIs(r)
      BY <1>1 DEF InitInv
    <3> QED BY <3>1 DEF PlaceIs
  <2>2. ASSUME pc[r] = "ready", calls[r] > 0, Program[calls[r]] = "gather", timeOuts = 0
        PROVE  \A s \in Ranks : out[r][s] = Slice(calls[r], s)
    <3>1. OutIs(r)
      BY <1>1, <2>2 DEF InTimeInv, AllInTime
    <3>2. Kind(calls[r]) = "gather"
      <4>1. calls[r] # 0
        BY <2>2
      <4> QED BY <2>2, <4>1 DEF Kind
    <3> QED BY <2>2, <3>1, <3>2 DEF OutIs
  <2> QED BY <2>1, <2>2
<1> QED BY <1>1, UidBootstrapInit, UidBootstrapInTime, PTL

\* Nobody passes a barrier in time before all have called it.
THEOREM UidBootstrapBarriers == Spec => []EveryoneCame
<1>1. ASSUME InitInv, InTimeInv PROVE EveryoneCame
  <2> SUFFICES ASSUME timeOuts = 0, NEW r \in Ranks, NEW q \in Ranks,
                      done[r] > 0, Program[done[r]] = "barrier"
               PROVE  calls[q] >= done[r]
    BY DEF EveryoneCame
  <2>1. TypeOK /\ PlaceIs(r) /\ InTime(r) /\ CameTo(r)
    BY <1>1 DEF InitInv, InTimeInv, AllInTime
  <2>2. calls[r] \in Nat /\ calls[r] <= Len(Program) /\ Len(Program) \in Nat /\ done[r] \in Int
    BY <2>1, NumbersAre
  <2>3. pc[r] \in Places
    BY <2>1 DEF TypeOK
  <2>4. \/ pc[r] \in {"ready", "closed"} /\ done[r] = calls[r]
        \/ done[r] < calls[r]
    BY <2>1, <2>2, <2>3 DEF PlaceIs, InTime, Places
  <2>5. done[r] \in 1..Len(Program) /\ Kind(done[r]) = "barrier"
    BY <2>2, <2>4 DEF Kind
  <2> QED BY <2>1, <2>4, <2>5 DEF CameTo
<1> QED BY <1>1, UidBootstrapInit, UidBootstrapInTime, PTL

\* A rank that closes in time leaves nothing behind, and nobody is refused.
THEOREM UidBootstrapCloses == Spec => []CloseIsSafe
<1>1. ASSUME InitInv, InTimeInv PROVE CloseIsSafe
  <2> SUFFICES ASSUME timeOuts = 0
               PROVE  /\ refused = {}
                      /\ \A r \in Ranks :
                           pc[r] = "closed" =>
                             /\ backlog[r] = <<>> /\ unexpected[r] = <<>>
                             /\ stream[ring[r]] = <<>>
    BY DEF CloseIsSafe
  <2>1. AllInTime /\ TypeOK /\ 0 \in Ranks
    BY <1>1, UidAssumption DEF InitInv, InTimeInv, Ranks
  <2>2. refused = {}
    BY <2>1 DEF AllInTime, InTime
  <2>3. ASSUME NEW r \in Ranks, pc[r] = "closed"
        PROVE  backlog[r] = <<>> /\ unexpected[r] = <<>> /\ stream[ring[r]] = <<>>
    <3> DEFINE p == Minus(r, 1)
               all == Before("barrier", Len(Program) + 1)
    <3>1. PlaceIs(r) /\ StreamIs(r) /\ MessagesAre(r) /\ p \in Ranks
      BY <1>1, <2>1, RingOfRanks DEF InitInv, AllInTime
    <3>2. /\ SlicesRead(r) = SlicesBefore(Len(Program) + 1)
          /\ \A k : ReceivedIn(r, k) = all
      BY <1>1, <2>1, <2>3, ClosedHasAll
    <3>3. ring[r] = p /\ ring[r] # nranks
      BY <2>3, <3>1 DEF PlaceIs, Joining
    <3> HIDE DEF p
    <3>4. stream[p] = <<>>
      <4>1. Len(stream[p]) = SlicesSent(p) - SlicesRead(r)
        BY <3>1 DEF StreamIs, p
      <4>2. SlicesSent(p) <= SlicesBefore(Len(Program) + 1)
        BY <1>1, <3>1, SentIsBounded
      <4>3. /\ SlicesSent(p) \in Nat /\ SlicesRead(r) \in Nat /\ Len(stream[p]) \in Nat
            /\ stream[p] \in Seq(Slices)
        BY <2>1, <3>1, NumbersAre DEF TypeOK
      <4>4. Len(stream[p]) = 0
        BY <3>2, <4>1, <4>2, <4>3
      <4> QED BY <4>3, <4>4
    <3>5. backlog[r] \in Seq(Messages) /\ unexpected[r] \in Seq(Messages) /\ [from |-> r, tag |-> 0] \in Messages
      BY <2>1 DEF TypeOK, Messages
    <3>6. \A m : Count(backlog[r], m) \in Nat /\ Count(unexpected[r], m) \in Nat
      BY <3>5, CountMessages
    <3>7. ASSUME NEW k \in Rounds
          PROVE  Count(backlog[r], RoundMessage(r, k)) = 0 /\ Count(unexpected[r], RoundMessage(r, k)) = 0
      <4> DEFINE s == Minus(r, Shift[k])
                 A == Count(backlog[r], RoundMessage(r, k))
                 B == Count(unexpected[r], RoundMessage(r, k))
      <4>1. s \in Ranks
        BY RoundsAre
      <4>2. SentIn(s, k) <= all /\ SentIn(s, k) \in Nat
        BY <1>1, <2>1, <4>1, SentIsBounded, NumbersAre
      <4>3. A + B = SentIn(s, k) - ReceivedIn(r, k)
        BY <3>1 DEF MessagesAre
      <4>4. A \in Nat /\ B \in Nat /\ ReceivedIn(r, k) = all /\ ReceivedIn(r, k) \in Nat
        BY <2>1, <3>2, <3>6, NumbersAre
      <4> HIDE DEF s, A, B, all
      <4>5. A = 0 /\ B = 0
        BY <4>2, <4>3, <4>4
      <4> QED BY <4>5 DEF A, B
    <3>8. Count(backlog[r], RingMessage(r)) = 0
      <4>1. Count(backlog[r], RingMessage(r)) <= 0
        BY <3>1, <3>3 DEF MessagesAre
      <4> QED BY <3>6, <4>1
    <3>9. ASSUME NEW s \in Seq(Messages), NEW i \in DOMAIN s
          PROVE  Count(s, s[i]) > 0
      BY <3>5, <3>9, CountIs
    <3>10. DOMAIN backlog[r] = {}
      <4> SUFFICES ASSUME NEW i \in DOMAIN backlog[r] PROVE FALSE
        OBVIOUS
      <4>1. Count(backlog[r], backlog[r][i]) > 0
        BY <3>5, <3>9
      <4>2. backlog[r][i] = RingMessage(r) \/ \E k \in Rounds : backlog[r][i] = RoundMessage(r, k)
        BY <3>1 DEF MessagesAre
      <4> QED BY <3>7, <3>8, <4>1, <4>2
    <3>11. DOMAIN unexpected[r] = {}
      <4> SUFFICES ASSUME NEW i \in DOMAIN unexpected[r] PROVE FALSE
        OBVIOUS
      <4>1. Count(unexpected[r], unexpected[r][i]) > 0
        BY <3>5, <3>9
      <4>2. \E k \in Rounds : unexpected[r][i] = RoundMessage(r, k)
        BY <3>1 DEF MessagesAre
      <4> QED BY <3>7, <4>1, <4>2
    <3>12. \A s \in Seq(Messages) : DOMAIN s = {} => s = <<>>
      <4> SUFFICES ASSUME NEW s \in Seq(Messages), DOMAIN s = {} PROVE s = <<>>
        OBVIOUS
      <4>1. Len(s) \in Nat /\ 1..Len(s) = {}
        OBVIOUS
      <4>2. Len(s) = 0
        BY <4>1
      <4> QED BY <4>2
    <3> QED BY <3>3, <3>4, <3>5, <3>10, <3>11, <3>12
  <2> QED BY <2>2, <2>3
<1> QED BY <1>1, UidBootstrapInit, UidBootstrapInTime, PTL

-----------------------------------------------------------------------------
(***************************************************************************)
(* The vector cores of one device.  A core that has finished round k has   *)
(* heard of the Shift[k + 1] cores behind it, itself included, that they   *)
(* have come; a slot of round k tells its core of the Shift[k] cores       *)
(* behind the one that wrote it.  The slots and the counter outlive the    *)
(* barrier: what they say stays true, for nobody takes back that it came,  *)
(* and the counter is that of the barrier all cores are in, or the one     *)
(* before, because no core goes two barriers ahead of another.             *)
(***************************************************************************)
CONSTANTS LOG_MAX_AIV, MaxBarriers

VARIABLES sync_counter, sync_pool, corePc, offset, count

Core == INSTANCE CoreBarrier WITH pc <- corePc

\* Both barriers take their shifts from the same function.
LEMMA SameShift == Core!Shift = Shift
BY DEF Core!Shift, Shift

CoreRounds == 0..LOG_MAX_AIV - 1

\* The core d places behind a core.
Behind(c, d) == IF d <= c THEN c - d ELSE c + BlockDim - d

\* The variables hold what their types say.
CoreTypes ==
  /\ sync_counter \in Nat
  /\ sync_pool \in [Core!Cores -> [CoreRounds -> Nat]]
  /\ corePc \in [Core!Cores -> {"out", "signal", "await", "exit"}]
  /\ offset \in [Core!Cores -> Nat]
  /\ count \in [Core!Cores -> Nat]
  /\ entered \in [Core!Cores -> Nat]
  /\ passed \in [Core!Cores -> Nat]

\* The counter is the barrier a core has passed last, unless others are through
\* the one it is in.
CounterIs ==
  \A c \in Core!Cores :
    /\ corePc[c] = "out" => sync_counter = entered[c]
    /\ corePc[c] # "out" => sync_counter = entered[c] \/ sync_counter + 1 = entered[c]

\* The count of a core inside is the number of its barrier.
CountsAre == \A c \in Core!Cores : corePc[c] # "out" => count[c] = entered[c]

InARound(c) == corePc[c] \in {"signal", "await"}

\* A core is in a round that has a slot, and some cores are not heard of yet.
CoreRoundsAre ==
  \A c \in Core!Cores : InARound(c) => offset[c] \in CoreRounds /\ Shift[offset[c]] < BlockDim

\* A slot tells of the cores behind the one that writes it.
SlotsAreBacked ==
  \A c \in Core!Cores, k \in CoreRounds, d \in 0..BlockDim - 1 :
    (Shift[k] <= d /\ d < 2 * Shift[k]) => sync_pool[c][k] <= entered[Behind(c, d)]

\* A core in a round has heard of the cores behind it that are fewer than the
\* shift away, and at the exit of all.
HeardOf ==
  \A c \in Core!Cores, d \in 0..BlockDim - 1 :
    (corePc[c] = "exit" \/ (InARound(c) /\ d < Shift[offset[c]])) => entered[c] <= entered[Behind(c, d)]

CoreInv ==
  CoreTypes /\ CounterIs /\ CountsAre /\ CoreRoundsAre /\ SlotsAreBacked /\ HeardOf

\* The cores are a ring.
LEMMA RingOfCores ==
  ASSUME Core!CoreAssumption
  PROVE /\ BlockDim \in Nat \ {0} /\ Core!Cores = 0..BlockDim - 1
        /\ \A c \in Core!Cores : Behind(c, 0) = c
        /\ \A c \in Core!Cores, d \in 0..BlockDim - 1 : Behind(c, d) \in Core!Cores
        /\ \A c, q \in Core!Cores : \E d \in 0..BlockDim - 1 : q = Behind(c, d)
<1>1. BlockDim \in Nat \ {0} /\ Core!Cores = 0..BlockDim - 1
  BY DEF Core!CoreAssumption, Core!Cores
<1>2. \A c \in Core!Cores : Behind(c, 0) = c
  BY <1>1 DEF Behind
<1>3. \A c \in Core!Cores, d \in 0..BlockDim - 1 : Behind(c, d) \in Core!Cores
  BY <1>1 DEF Behind
<1>4. ASSUME NEW c \in Core!Cores, NEW q \in Core!Cores
      PROVE \E d \in 0..BlockDim - 1 : q = Behind(c, d)
  <2> DEFINE d == IF q <= c THEN c - q ELSE c + BlockDim - q
  <2>1. d \in 0..BlockDim - 1
    BY <1>1
  <2>2. q = Behind(c, d)
    BY <1>1 DEF Behind
  <2> HIDE DEF d
  <2> QED
    BY <2>1, <2>2
<1> QED
  BY <1>1, <1>2, <1>3, <1>4

\* The core that is signalled has as many more cores between itself and those
\* behind the sender.
LEMMA SignalsAhead ==
  ASSUME Core!CoreAssumption, NEW c \in Core!Cores, NEW s \in 0..BlockDim - 1
  PROVE /\ (c + s) % BlockDim \in Core!Cores
        /\ \A d \in s..BlockDim - 1 : Behind((c + s) % BlockDim, d) = Behind(c, d - s)
<1> DEFINE t == (c + s) % BlockDim
<1>1. BlockDim \in Nat \ {0} /\ c \in 0..BlockDim - 1 /\ s \in 0..BlockDim
  BY RingOfCores
<1>2. t = IF c + s < BlockDim THEN c + s ELSE c + s - BlockDim
  BY <1>1, AroundTheRing
<1> HIDE DEF t
<1>3. t \in 0..BlockDim - 1
  BY <1>1, <1>2
<1>4. ASSUME NEW d \in s..BlockDim - 1 PROVE Behind(t, d) = Behind(c, d - s)
  BY <1>1, <1>2 DEF Behind
<1> QED
  BY <1>3, <1>4, RingOfCores DEF t

\* The shifts of the rounds.
LEMMA CoreShifts ==
  ASSUME Core!CoreAssumption
  PROVE /\ \A k \in Nat : Shift[k] \in Nat \ {0} /\ Shift[k + 1] = 2 * Shift[k]
        /\ \A k \in Nat : Shift[k] < BlockDim => k \in CoreRounds
        /\ \A k \in CoreRounds : k \in Nat
        /\ Shift[0] = 1
<1>1. \A k \in Nat : Shift[k] \in Nat \ {0} /\ Shift[k + 1] = 2 * Shift[k]
  BY ShiftIsLarge, ShiftDoubles
<1>2. LOG_MAX_AIV \in Nat /\ BlockDim \in Nat /\ BlockDim <= Shift[LOG_MAX_AIV]
  BY SameShift DEF Core!CoreAssumption
<1>3. ASSUME NEW k \in Nat, Shift[k] < BlockDim PROVE k \in CoreRounds
  <2>1. Shift[LOG_MAX_AIV] \in Nat /\ Shift[k] \in Nat
    BY <1>1, <1>2
  <2>2. LOG_MAX_AIV <= k => Shift[LOG_MAX_AIV] <= Shift[k]
    BY <1>2, ShiftGrows
  <2>3. ~(LOG_MAX_AIV <= k)
    BY <1>2, <1>3, <2>1, <2>2
  <2> QED
    BY <1>2, <2>3 DEF CoreRounds
<1> QED
  BY <1>1, <1>3, ShiftDoubles DEF CoreRounds

\* At the start nobody is in the barrier and no slot is written.
LEMMA CoreInitially ==
  ASSUME Core!CoreAssumption, Core!Init
  PROVE CoreInv
<1>1. BlockDim \in Nat \ {0} /\ \A c \in Core!Cores, d \in 0..BlockDim - 1 : Behind(c, d) \in Core!Cores
  BY RingOfCores
<1>2. CoreTypes
  BY DEF Core!Init, CoreTypes, CoreRounds
<1>3. \A c \in Core!Cores : corePc[c] = "out" /\ entered[c] = 0 /\ sync_counter = 0
  BY DEF Core!Init
<1>4. \A c \in Core!Cores, k \in CoreRounds : sync_pool[c][k] = 0
  BY DEF Core!Init, CoreRounds
<1>5. CounterIs /\ CountsAre /\ CoreRoundsAre /\ HeardOf
  BY <1>3 DEF CounterIs, CountsAre, CoreRoundsAre, HeardOf, InARound
<1>6. SlotsAreBacked
  <2> SUFFICES ASSUME NEW c \in Core!Cores, NEW k \in CoreRounds, NEW d \in 0..BlockDim - 1
               PROVE sync_pool[c][k] <= entered[Behind(c, d)]
    BY DEF SlotsAreBacked
  <2>1. entered[Behind(c, d)] = 0 /\ sync_pool[c][k] = 0
    BY <1>1, <1>3, <1>4
  <2> QED
    BY <2>1
<1> QED
  BY <1>2, <1>5, <1>6 DEF CoreInv

\* Entering takes the count from the counter, which is that of the barrier before.
LEMMA CoreEnters ==
  ASSUME Core!CoreAssumption, CoreInv, NEW c \in Core!Cores, Core!Enter(c)
  PROVE CoreInv'
<1>1. BlockDim \in Nat \ {0} /\ Behind(c, 0) = c
      /\ \A p \in Core!Cores, d \in 0..BlockDim - 1 : Behind(p, d) \in Core!Cores
  BY RingOfCores
<1>2. CoreTypes
  BY DEF CoreInv
<1>3. sync_counter = entered[c] /\ entered[c] \in Nat /\ sync_counter \in Nat
  BY <1>2 DEF Core!Enter, CoreInv, CounterIs, CoreTypes
<1>4. entered'[c] = entered[c] + 1 /\ count'[c] = sync_counter + 1 /\ offset'[c] = 0
      /\ sync_counter' = sync_counter /\ sync_pool' = sync_pool
  BY <1>2 DEF Core!Enter, CoreTypes
<1>5. \A p \in Core!Cores : p # c => entered'[p] = entered[p] /\ count'[p] = count[p]
                                     /\ offset'[p] = offset[p] /\ corePc'[p] = corePc[p]
  BY <1>2 DEF Core!Enter, Core!Goto, CoreTypes
<1>6. \A p \in Core!Cores : entered[p] \in Nat /\ entered'[p] \in Nat /\ entered[p] <= entered'[p]
  BY <1>2, <1>3, <1>4, <1>5 DEF CoreTypes
<1>7. corePc'[c] = IF 1 < BlockDim THEN "signal" ELSE "exit"
  BY <1>2, SameShift, CoreShifts DEF Core!Enter, Core!Goto, Core!Round, CoreTypes
<1>8. CoreTypes'
  <2>1. sync_counter' \in Nat /\ sync_pool' \in [Core!Cores -> [CoreRounds -> Nat]]
    BY <1>2, <1>4 DEF CoreTypes
  <2>2. corePc' \in [Core!Cores -> {"out", "signal", "await", "exit"}]
    BY <1>2 DEF CoreTypes, Core!Enter, Core!Goto, Core!Round
  <2>3. offset' \in [Core!Cores -> Nat] /\ count' \in [Core!Cores -> Nat]
    BY <1>2, <1>3 DEF CoreTypes, Core!Enter
  <2>4. entered' \in [Core!Cores -> Nat] /\ passed' \in [Core!Cores -> Nat]
    BY <1>2 DEF CoreTypes, Core!Enter
  <2> QED
    BY <2>1, <2>2, <2>3, <2>4 DEF CoreTypes
<1>9. CounterIs'
  <2> SUFFICES ASSUME NEW p \in Core!Cores
               PROVE /\ corePc'[p] = "out" => sync_counter' = entered'[p]
                     /\ corePc'[p] # "out" => sync_counter' = entered'[p] \/ sync_counter' + 1 = entered'[p]
    BY DEF CounterIs
  <2>1. CASE p = c
    BY <2>1, <1>3, <1>4, <1>7
  <2>2. CASE p # c
    BY <2>2, <1>4, <1>5 DEF CoreInv, CounterIs
  <2> QED
    BY <2>1, <2>2
<1>10. CountsAre'
  BY <1>3, <1>4, <1>5 DEF CoreInv, CountsAre
<1>11. CoreRoundsAre'
  <2> SUFFICES ASSUME NEW p \in Core!Cores, InARound(p)'
               PROVE offset'[p] \in CoreRounds /\ Shift[offset'[p]] < BlockDim
    BY DEF CoreRoundsAre
  <2>1. CASE p = c
    <3>1. 1 < BlockDim
      BY <2>1, <1>7 DEF InARound
    <3> QED
      BY <2>1, <3>1, <1>4, CoreShifts
  <2>2. CASE p # c
    BY <2>2, <1>5 DEF CoreInv, CoreRoundsAre, InARound
  <2> QED
    BY <2>1, <2>2
<1>12. SlotsAreBacked'
  <2> SUFFICES ASSUME NEW p \in Core!Cores, NEW k \in CoreRounds, NEW d \in 0..BlockDim - 1,
                      Shift[k] <= d, d < 2 * Shift[k]
               PROVE sync_pool'[p][k] <= entered'[Behind(p, d)]
    BY DEF SlotsAreBacked, Behind
  <2>1. sync_pool[p][k] <= entered[Behind(p, d)] /\ sync_pool[p][k] \in Nat
    BY <1>2 DEF CoreInv, SlotsAreBacked, CoreTypes
  <2>2. Behind(p, d) \in Core!Cores
    BY <1>1
  <2> QED
    BY <2>1, <2>2, <1>4, <1>6
<1>13. HeardOf'
  <2> SUFFICES ASSUME NEW p \in Core!Cores, NEW d \in 0..BlockDim - 1,
                      corePc'[p] = "exit" \/ (InARound(p)' /\ d < Shift[offset'[p]])
               PROVE entered'[p] <= entered'[Behind(p, d)]
    BY DEF HeardOf, Behind
  <2>1. CASE p = c
    <3>1. d = 0
      BY <2>1, <1>1, <1>4, <1>7, CoreShifts DEF InARound
    <3> QED
      BY <2>1, <3>1, <1>1, <1>6
  <2>2. CASE p # c
    <3>1. entered[p] <= entered[Behind(p, d)]
      BY <2>2, <1>5 DEF CoreInv, HeardOf, InARound
    <3>2. Behind(p, d) \in Core!Cores
      BY <1>1
    <3> QED
      BY <2>2, <3>1, <3>2, <1>5, <1>6
  <2> QED
    BY <2>1, <2>2
<1> QED
  BY <1>8, <1>9, <1>10, <1>11, <1>12, <1>13 DEF CoreInv

\* A signal tells the next core of those its sender has heard of.
LEMMA CoreSignals ==
  ASSUME Core!CoreAssumption, CoreInv, NEW c \in Core!Cores, Core!Signal(c)
  PROVE CoreInv'
<1> DEFINE o == offset[c]
           s == Shift[o]
           t == (c + s) % BlockDim
<1>1. BlockDim \in Nat \ {0}
      /\ \A p \in Core!Cores, d \in 0..BlockDim - 1 : Behind(p, d) \in Core!Cores
  BY RingOfCores
<1>2. CoreTypes
  BY DEF CoreInv
<1>3. corePc[c] = "signal" /\ o \in CoreRounds /\ s < BlockDim /\ count[c] = entered[c]
  BY DEF Core!Signal, CoreInv, CoreRoundsAre, CountsAre, InARound
<1>4. s \in Nat \ {0}
  BY <1>3, CoreShifts
<1>5. t \in Core!Cores /\ \A d \in s..BlockDim - 1 : Behind(t, d) = Behind(c, d - s)
  BY <1>1, <1>3, <1>4, SignalsAhead
<1>6. sync_pool' = [sync_pool EXCEPT ![t][o] = count[c]]
  BY SameShift DEF Core!Signal
<1>7. /\ sync_counter' = sync_counter /\ offset' = offset /\ count' = count
      /\ entered' = entered /\ passed' = passed
      /\ corePc' = [corePc EXCEPT ![c] = "await"]
  BY DEF Core!Signal, Core!Goto
<1> HIDE DEF t, s, o
<1>8. CoreTypes'
  BY <1>2, <1>5, <1>3, <1>6, <1>7 DEF CoreTypes
<1>9. \A p \in Core!Cores : (corePc'[p] = "out" <=> corePc[p] = "out") /\ (InARound(p)' <=> InARound(p))
                            /\ (corePc'[p] = "exit" <=> corePc[p] = "exit")
  BY <1>2, <1>3, <1>7 DEF CoreTypes, InARound
<1>10. CounterIs' /\ CountsAre' /\ CoreRoundsAre'
  BY <1>7, <1>9 DEF CoreInv, CounterIs, CountsAre, CoreRoundsAre
<1>11. HeardOf'
  BY <1>7, <1>9 DEF CoreInv, HeardOf, Behind
<1>12. SlotsAreBacked'
  <2> SUFFICES ASSUME NEW p \in Core!Cores, NEW k \in CoreRounds, NEW d \in 0..BlockDim - 1,
                      Shift[k] <= d, d < 2 * Shift[k]
               PROVE sync_pool'[p][k] <= entered[Behind(p, d)]
    BY <1>7 DEF SlotsAreBacked, Behind
  <2>1. CASE p = t /\ k = o
    <3>1. sync_pool'[p][k] = entered[c]
      BY <2>1, <1>2, <1>3, <1>5, <1>6 DEF CoreTypes
    <3>2. s <= d /\ d < 2 * s
      BY <2>1 DEF s
    <3>3. d - s \in 0..BlockDim - 1 /\ d - s < s /\ d \in s..BlockDim - 1
      BY <3>2, <1>1, <1>4
    <3>4. entered[c] <= entered[Behind(c, d - s)]
      BY <3>3, <1>3 DEF CoreInv, HeardOf, InARound, s, o
    <3> QED
      BY <2>1, <3>1, <3>3, <3>4, <1>5
  <2>2. CASE ~(p = t /\ k = o)
    <3>1. sync_pool'[p][k] = sync_pool[p][k]
      BY <2>2, <1>2, <1>3, <1>5, <1>6 DEF CoreTypes
    <3> QED
      BY <3>1 DEF CoreInv, SlotsAreBacked
  <2> QED
    BY <2>1, <2>2
<1> QED
  BY <1>8, <1>10, <1>11, <1>12 DEF CoreInv

\* The signal waited for tells of as many cores again.
LEMMA CoreAwaits ==
  ASSUME Core!CoreAssumption, CoreInv, NEW c \in Core!Cores, Core!Await(c)
  PROVE CoreInv'
<1> DEFINE o == offset[c]
           s == Shift[o]
<1>1. BlockDim \in Nat \ {0}
      /\ \A p \in Core!Cores, d \in 0..BlockDim - 1 : Behind(p, d) \in Core!Cores
  BY RingOfCores
<1>2. CoreTypes
  BY DEF CoreInv
<1>3. corePc[c] = "await" /\ o \in CoreRounds /\ s < BlockDim /\ count[c] = entered[c]
  BY DEF Core!Await, CoreInv, CoreRoundsAre, CountsAre, InARound
<1>4. o \in Nat /\ s \in Nat \ {0} /\ Shift[o + 1] = 2 * s
  BY <1>3, CoreShifts
<1>5. sync_pool[c][o] \in Nat /\ entered[c] \in Nat /\ entered[c] <= sync_pool[c][o]
  <2>1. sync_pool[c][o] \in Nat /\ entered[c] \in Nat
    BY <1>2, <1>3 DEF CoreTypes
  <2>2. sync_pool[c][o] = entered[c] \/ sync_pool[c][o] = entered[c] + 1
    BY <1>3 DEF Core!Await
  <2> QED
    BY <2>1, <2>2
<1>6. /\ sync_counter' = sync_counter /\ sync_pool' = sync_pool /\ count' = count
      /\ entered' = entered /\ passed' = passed
      /\ offset' = [offset EXCEPT ![c] = o + 1]
  BY DEF Core!Await
<1>7. corePc' = [corePc EXCEPT ![c] = IF 2 * s < BlockDim THEN "signal" ELSE "exit"]
  <2>1. offset'[c] = o + 1
    BY <1>2, <1>6 DEF CoreTypes
  <2>2. Core!Round(offset'[c]) = IF 2 * s < BlockDim THEN "signal" ELSE "exit"
    BY <2>1, <1>4, SameShift DEF Core!Round
  <2> QED
    BY <2>2 DEF Core!Await, Core!Goto
<1>8. \A d \in 0..BlockDim - 1 : d < 2 * s => entered[c] <= entered[Behind(c, d)]
  <2> SUFFICES ASSUME NEW d \in 0..BlockDim - 1, d < 2 * s PROVE entered[c] <= entered[Behind(c, d)]
    OBVIOUS
  <2>1. CASE d < s
    BY <2>1, <1>3 DEF CoreInv, HeardOf, InARound
  <2>2. CASE s <= d
    <3>1. sync_pool[c][o] <= entered[Behind(c, d)]
      BY <2>2, <1>3 DEF CoreInv, SlotsAreBacked
    <3>2. entered[Behind(c, d)] \in Nat
      BY <1>1, <1>2 DEF CoreTypes
    <3> QED
      BY <3>1, <3>2, <1>5
  <2> QED
    BY <2>1, <2>2, <1>1, <1>4
<1> HIDE DEF s, o
<1>9. CoreTypes'
  BY <1>2, <1>4, <1>6, <1>7 DEF CoreTypes
<1>10. \A p \in Core!Cores : p # c => corePc'[p] = corePc[p] /\ offset'[p] = offset[p]
  BY <1>2, <1>6, <1>7 DEF CoreTypes
<1>11. offset'[c] = o + 1 /\ corePc'[c] = IF 2 * s < BlockDim THEN "signal" ELSE "exit"
  BY <1>2, <1>6, <1>7 DEF CoreTypes
<1>12. CounterIs' /\ CountsAre'
  BY <1>3, <1>6, <1>10, <1>11 DEF CoreInv, CounterIs, CountsAre
<1>13. CoreRoundsAre'
  <2> SUFFICES ASSUME NEW p \in Core!Cores, InARound(p)'
               PROVE offset'[p] \in CoreRounds /\ Shift[offset'[p]] < BlockDim
    BY DEF CoreRoundsAre
  <2>1. CASE p = c
    <3>1. 2 * s < BlockDim
      BY <2>1, <1>11 DEF InARound
    <3>2. o + 1 \in Nat /\ Shift[o + 1] < BlockDim
      BY <3>1, <1>4
    <3> QED
      BY <2>1, <3>2, <1>11, CoreShifts
  <2>2. CASE p # c
    BY <2>2, <1>10 DEF CoreInv, CoreRoundsAre, InARound
  <2> QED
    BY <2>1, <2>2
<1>14. SlotsAreBacked'
  BY <1>6 DEF CoreInv, SlotsAreBacked, Behind
<1>15. HeardOf'
  <2> SUFFICES ASSUME NEW p \in Core!Cores, NEW d \in 0..BlockDim - 1,
                      corePc'[p] = "exit" \/ (InARound(p)' /\ d < Shift[offset'[p]])
               PROVE entered[p] <= entered[Behind(p, d)]
    BY <1>6 DEF HeardOf, Behind
  <2>1. CASE p = c
    <3>1. d < 2 * s
      BY <2>1, <1>1, <1>4, <1>11 DEF InARound
    <3> QED
      BY <2>1, <3>1, <1>8
  <2>2. CASE p # c
    BY <2>2, <1>10 DEF CoreInv, HeardOf, InARound
  <2> QED
    BY <2>1, <2>2
<1> QED
  BY <1>9, <1>12, <1>13, <1>14, <1>15 DEF CoreInv

\* At the exit every core has come: the counter the core writes is the count of
\* those that are in this barrier, and one behind the count of those in the next.
LEMMA CoreExits ==
  ASSUME Core!CoreAssumption, CoreInv, NEW c \in Core!Cores, Core!Exit(c)
  PROVE CoreInv' /\ \A q \in Core!Cores : entered[q] >= entered[c]
<1>1. CoreTypes
  BY DEF CoreInv
<1>2. corePc[c] = "exit" /\ count[c] = entered[c] /\ entered[c] \in Nat /\ sync_counter \in Nat
  BY <1>1 DEF Core!Exit, CoreInv, CountsAre, CoreTypes
<1>3. \A q \in Core!Cores : entered[q] \in Nat /\ entered[c] <= entered[q]
  <2> SUFFICES ASSUME NEW q \in Core!Cores PROVE entered[q] \in Nat /\ entered[c] <= entered[q]
    OBVIOUS
  <2>1. PICK d \in 0..BlockDim - 1 : q = Behind(c, d)
    BY RingOfCores
  <2> QED
    BY <2>1, <1>1, <1>2 DEF CoreInv, HeardOf, CoreTypes
<1>4. /\ sync_counter' = entered[c] /\ sync_pool' = sync_pool /\ offset' = offset
      /\ count' = count /\ entered' = entered /\ passed' = [passed EXCEPT ![c] = entered[c]]
      /\ corePc' = [corePc EXCEPT ![c] = "out"]
  BY <1>2 DEF Core!Exit, Core!Goto
<1>5. CoreTypes'
  BY <1>1, <1>2, <1>4 DEF CoreTypes
<1>6. \A p \in Core!Cores : p # c => corePc'[p] = corePc[p]
  BY <1>1, <1>4 DEF CoreTypes
<1>7. corePc'[c] = "out"
  BY <1>1, <1>4 DEF CoreTypes
<1>8. CounterIs'
  <2> SUFFICES ASSUME NEW p \in Core!Cores
               PROVE /\ corePc'[p] = "out" => entered[c] = entered[p]
                     /\ corePc'[p] # "out" => entered[c] = entered[p] \/ entered[c] + 1 = entered[p]
    BY <1>4 DEF CounterIs
  <2>1. sync_counter = entered[c] \/ sync_counter + 1 = entered[c]
    BY <1>2 DEF CoreInv, CounterIs
  <2>2. CASE p = c
    BY <2>2, <1>7
  <2>3. CASE p # c
    <3>1. corePc'[p] = corePc[p]
      BY <2>3, <1>6
    <3>2. /\ corePc[p] = "out" => sync_counter = entered[p]
          /\ corePc[p] # "out" => sync_counter = entered[p] \/ sync_counter + 1 = entered[p]
      BY DEF CoreInv, CounterIs
    <3>3. entered[p] \in Nat /\ entered[c] <= entered[p]
      BY <1>3
    <3> QED
      BY <2>1, <3>1, <3>2, <3>3, <1>2
  <2> QED
    BY <2>2, <2>3
<1>9. CountsAre' /\ CoreRoundsAre'
  BY <1>4, <1>6, <1>7 DEF CoreInv, CountsAre, CoreRoundsAre, InARound
<1>10. SlotsAreBacked'
  BY <1>4 DEF CoreInv, SlotsAreBacked, Behind
<1>11. HeardOf'
  BY <1>4, <1>6, <1>7 DEF CoreInv, HeardOf, InARound, Behind
<1> QED
  BY <1>3, <1>5, <1>8, <1>9, <1>10, <1>11 DEF CoreInv

\* CoreInv is kept by every step.
LEMMA CoreStep ==
  ASSUME Core!CoreAssumption, CoreInv, [Core!Next]_Core!vars
  PROVE CoreInv'
<1>1. CASE UNCHANGED Core!vars
  BY <1>1 DEF Core!vars, CoreInv, CoreTypes, CounterIs, CountsAre, CoreRoundsAre, SlotsAreBacked,
              HeardOf, InARound, Behind
<1>2. ASSUME NEW c \in Core!Cores, Core!Enter(c) PROVE CoreInv'
  BY <1>2, CoreEnters
<1>3. ASSUME NEW c \in Core!Cores, Core!Signal(c) PROVE CoreInv'
  BY <1>3, CoreSignals
<1>4. ASSUME NEW c \in Core!Cores, Core!Await(c) PROVE CoreInv'
  BY <1>4, CoreAwaits
<1>5. ASSUME NEW c \in Core!Cores, Core!Exit(c) PROVE CoreInv'
  BY <1>5, CoreExits
<1> QED
  BY <1>1, <1>2, <1>3, <1>4, <1>5 DEF Core!Next, Core!Step

\* However many cores a device has, the counter is that of the barrier all cores
\* are in or the one before, every slot tells only of cores that have come, and a
\* core has heard of all those that the rounds it is through reach.
THEOREM CoreInvariant ==
  ASSUME Core!CoreAssumption
  PROVE Core!Spec => []CoreInv
<1>1. Core!Init => CoreInv
  BY CoreInitially
<1>2. CoreInv /\ [Core!Next]_Core!vars => CoreInv'
  BY CoreStep
<1> QED
  BY <1>1, <1>2, PTL DEF Core!Spec

\* The slot a core waits on is never more than one barrier ahead of it, so that
\* comparing it with the count and the next one, as signal_wait_until_eq_for_barrier
\* does, misses no signal.
THEOREM CoreSignalsNotMissed ==
  ASSUME Core!CoreAssumption
  PROVE Core!Spec => [](\A c \in Core!Cores : corePc[c] = "await" => sync_pool[c][offset[c]] <= count[c] + 1)
<1>1. ASSUME CoreInv, NEW c \in Core!Cores, corePc[c] = "await"
      PROVE sync_pool[c][offset[c]] <= count[c] + 1
  <2>1. offset[c] \in CoreRounds /\ Shift[offset[c]] < BlockDim /\ count[c] = entered[c]
    BY <1>1 DEF CoreInv, CoreRoundsAre, CountsAre, InARound
  <2> DEFINE s == Shift[offset[c]]
             q == Behind(c, s)
  <2>2. s \in 0..BlockDim - 1 /\ s <= s /\ s < 2 * s
    <3>1. s \in Nat \ {0}
      BY <2>1, CoreShifts
    <3>2. BlockDim \in Nat \ {0} /\ s < BlockDim
      BY <2>1, RingOfCores
    <3> HIDE DEF s
    <3> QED
      BY <3>1, <3>2
  <2>3. q \in Core!Cores
    BY <2>2, RingOfCores
  <2>4. sync_pool[c][offset[c]] <= entered[q]
    BY <2>1, <2>2, <1>1 DEF CoreInv, SlotsAreBacked
  <2>5. sync_counter = entered[c] \/ sync_counter + 1 = entered[c]
    BY <1>1 DEF CoreInv, CounterIs
  <2>6. sync_counter = entered[q] \/ sync_counter + 1 = entered[q]
    BY <1>1, <2>3 DEF CoreInv, CounterIs
  <2>7. sync_counter \in Nat /\ entered[c] \in Nat /\ entered[q] \in Nat /\ sync_pool[c][offset[c]] \in Nat
    BY <1>1, <2>1, <2>3 DEF CoreInv, CoreTypes
  <2> HIDE DEF q
  <2> QED
    BY <2>1, <2>4, <2>5, <2>6, <2>7
<1>2. CoreInv => \A c \in Core!Cores : corePc[c] = "await" => sync_pool[c][offset[c]] <= count[c] + 1
  BY <1>1
<1> QED
  BY <1>2, CoreInvariant, PTL

\* A core passes a barrier only when every core of the device has entered it: the
\* rounds implement the abstract barrier, an exit being the pass.
THEOREM CoreImplementsBarrier ==
  ASSUME Core!CoreAssumption
  PROVE Core!Spec => ImplementsBarrier
<1>1. Core!Init => AbstractBarrier!Init
  BY DEF Core!Init, AbstractBarrier!Init, Cores, Core!Cores
<1>2. CoreInv /\ [Core!Next]_Core!vars => [AbstractBarrier!Next]_<<entered, passed>>
  <2> SUFFICES ASSUME CoreInv, [Core!Next]_Core!vars
               PROVE [AbstractBarrier!Next]_<<entered, passed>>
    OBVIOUS
  <2>1. CASE UNCHANGED Core!vars
    BY <2>1 DEF Core!vars
  <2>2. ASSUME NEW c \in Core!Cores, Core!Enter(c) PROVE AbstractBarrier!Next
    BY <2>2 DEF Core!Enter, AbstractBarrier!Next, AbstractBarrier!Enter, Cores, Core!Cores
  <2>3. ASSUME NEW c \in Core!Cores, Core!Signal(c) \/ Core!Await(c) PROVE UNCHANGED <<entered, passed>>
    BY <2>3 DEF Core!Signal, Core!Await
  <2>4. ASSUME NEW c \in Core!Cores, Core!Exit(c) PROVE AbstractBarrier!Next
    <3>1. \A q \in Core!Cores : entered[q] >= entered[c]
      BY <2>4, CoreExits
    <3>2. AbstractBarrier!Pass(c)
      BY <2>4, <3>1 DEF Core!Exit, AbstractBarrier!Pass, Cores, Core!Cores
    <3> QED
      BY <3>2 DEF AbstractBarrier!Next, Cores, Core!Cores
  <2> QED
    BY <2>1, <2>2, <2>3, <2>4 DEF Core!Next, Core!Step
<1> QED
  BY <1>1, <1>2, CoreInvariant, PTL DEF Core!Spec, ImplementsBarrier, AbstractBarrier!Spec
=============================================================================
