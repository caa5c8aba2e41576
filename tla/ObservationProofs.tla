-------------------------- MODULE ObservationProofs --------------------------
(***************************************************************************)
(* Proofs about the observation store, for every quorum, every pattern of  *)
(* reports and any number of faults: compaction, failed writes, deaths and *)
(* reopening lose no fresh report, and a streak of checks counts reports   *)
(* of a majority that no other check of it has counted.                    *)
(*                                                                         *)
(* Both rest on what each journal is: the end of its member's history, cut *)
(* at a place before which everything has aged out.                        *)
(***************************************************************************)
EXTENDS ObservationStore, FiniteSetTheorems, SequenceTheorems, WellFoundedInduction, TLAPS

Report == [member : Members, at : Int, writer : 0..MaxStoredEpoch, facts : SUBSET Fact]

JournalFile == [first : Nat \ {0}, recs : Seq(Report)]

Controllers ==
  [phase : {"steady", "suspecting", "fencing", "promoted"}, max : Nat, fails : Nat,
   new : Nat, reconciled : BOOLEAN, rejoined : BOOLEAN, streak : Nat, since : Nat]

Evidence == SUBSET (Members \X (Nat \ {0}))

Types ==
  /\ disk \in [Members -> JournalFile] /\ held \in [Members -> JournalFile]
  /\ mode \in {"down", "opening", "open", "failed", "refused"} /\ loaded \subseteq Members
  /\ writing \in {Idle} \union [member : Members, step : {"journal", "checkpoint"}]
  /\ served \in [Members -> Nat] /\ now \in Nat
  /\ log \in [Members -> Seq(Report)]
  /\ ctl \in Controllers /\ counted \in Seq(Evidence)

\* A journal is the end of its member's history ...
EndOf(j, l) ==
  /\ j.first + Len(j.recs) = Len(l) + 1
  /\ \A i \in 1..Len(j.recs) : j.recs[i] = l[j.first + i - 1]

\* ... and what it no longer holds can never be fresh again.
Expired(j, l, t) == \A s \in 1..Len(l) : s < j.first => l[s].at + Freshness < t

Whole(j, l, t) == EndOf(j, l) /\ Expired(j, l, t)

\* Reports are the member's own and carry no time to come.
Past(m, l, t) == \A s \in 1..Len(l) : l[s].member = m /\ l[s].at <= t

\* The journals that are in memory for use: all of an open store, and those an
\* opening one has loaded.  A compaction works on one of these.
InUse(m) == mode = "open" \/ (mode = "opening" /\ m \in loaded)

Files == \A m \in Members : Past(m, log[m], now) /\ Whole(disk[m], log[m], now)

Memory ==
  /\ \A m \in Members : InUse(m) => Whole(held[m], log[m], now)
  /\ writing # Idle => InUse(writing.member)

\* The controller's count and the streak of counted checks.
Counting ==
  /\ ctl.phase = "steady" => ctl.fails = 0 /\ counted = <<>>
  /\ ctl.phase = "suspecting" => Len(counted) = ctl.fails /\ ctl.fails < FailedChecks
  /\ ctl.phase = "fencing" => Len(counted) \in {0, FailedChecks}
  /\ ctl.phase = "promoted" => Len(counted) = ctl.streak
  /\ ctl.phase # "promoted" => ctl.streak = 0

\* Counted reports are durable ones that the process has been served.
Known(e) == e[2] <= Len(log[e[1]]) /\ e[2] <= served[e[1]]

Streak ==
  /\ \A i \in 1..Len(counted) : Cardinality(Contributors(counted[i])) >= Majority
  /\ \A i \in 1..Len(counted) : \A e \in counted[i] : Known(e)
  /\ \A i, j \in 1..Len(counted) : i # j => counted[i] \intersect counted[j] = {}
  /\ ctl.phase \in {"suspecting", "fencing"} =>
       \A i \in 1..Len(counted) : \A e \in counted[i] : log[e[1]][e[2]].writer = 0

ObservationInv == Types /\ Files /\ Memory /\ Counting /\ Streak

---------------------------------------------------------------------------
(* Numbers and journals. *)

\* A bounded set of integers has a greatest member, and Max finds it.
LEMMA GreatestMember ==
  ASSUME NEW S \in SUBSET Int, S # {}, NEW b \in Int, \A x \in S : x <= b
  PROVE  Max(S) \in S /\ \A y \in S : Max(S) >= y
<1>. DEFINE less == {p \in Nat \X Nat : p[1] < p[2]}
            D == {b - x : x \in S}
<1>1. IsWellFoundedOn(less, Nat)
  BY NatLessThanWellFounded DEF OpToRel
<1>2. D \subseteq Nat /\ D # {}
  <2>1. \A x \in S : b - x \in Nat
    OBVIOUS
  <2>. QED  BY <2>1
<1>. HIDE DEF less
<1>3. PICK d \in D : \A y \in D : <<y, d>> \notin less
  <2>. HIDE DEF D
  <2>. QED  BY <1>1, <1>2, WFMin
<1>4. PICK x \in S : d = b - x
  BY <1>3
<1>5. \A y \in S : x >= y
  <2>1. SUFFICES ASSUME NEW y \in S PROVE x >= y
    OBVIOUS
  <2>2. b - y \in D /\ b - y \in Nat /\ b - x \in Nat
    BY <1>2
  <2>3. <<b - y, b - x>> \notin less
    BY <1>3, <1>4, <2>2
  <2>4. ~(b - y < b - x)
    BY <2>2, <2>3 DEF less
  <2>. QED  BY <2>4
<1>. QED  BY <1>4, <1>5 DEF Max

\* The lesser of two numbers.
LEMMA LesserOfTwo ==
  ASSUME NEW a \in Int, NEW b \in Int
  PROVE  Min({a, b}) \in {a, b} /\ Min({a, b}) <= a /\ Min({a, b}) <= b
<1>1. \E x \in {a, b} : \A y \in {a, b} : x =< y
  <2>1. CASE a <= b
    BY <2>1
  <2>2. CASE ~(a <= b)
    BY <2>2
  <2>. QED  BY <2>1, <2>2
<1>. QED  BY <1>1 DEF Min

\* compactable_prefix_len counts only leading records, each of which has aged out.
LEMMA CompactableAged ==
  ASSUME NEW recs \in Seq(Report), NEW t \in Int, \A i \in 1..Len(recs) : recs[i].at <= t
  PROVE  /\ Compactable(recs) \in 0..Len(recs)
         /\ \A i \in 1..Compactable(recs) : recs[i].at + Freshness < t
<1>0. Len(recs) \in Nat /\ DOMAIN recs = 1..Len(recs) /\ \A i \in 1..Len(recs) : recs[i] \in Report
  BY LenProperties, ElementOfSeq
<1>1. CASE Len(recs) <= RetainedFloor
  <2>1. Compactable(recs) = 0
    BY <1>1 DEF Compactable
  <2>. QED  BY <1>0, <2>1
<1>2. CASE ~(Len(recs) <= RetainedFloor)
  <2>. DEFINE ats == {recs[i].at : i \in DOMAIN recs}
              newest == Max(ats)
              old == {n \in 0..Len(recs) : \A i \in 1..n : ~Fresh(recs[i].at, newest)}
  <2>1. ats \in SUBSET Int /\ ats # {} /\ \A x \in ats : x <= t
    <3>1. \A i \in DOMAIN recs : recs[i].at \in Int /\ recs[i].at <= t
      BY <1>0 DEF Report
    <3>2. 1 \in DOMAIN recs
      BY <1>0, <1>2, StoreAssumption
    <3>. QED  BY <3>1, <3>2
  <2>2. newest \in ats /\ \A y \in ats : newest >= y
    <3>. HIDE DEF ats
    <3>. QED  BY <2>1, GreatestMember
  <2>3. newest \in Int /\ newest <= t /\ \A i \in 1..Len(recs) : recs[i].at \in Int /\ recs[i].at <= newest
    BY <1>0, <2>1, <2>2 DEF Report
  <2>. HIDE DEF newest, ats
  <2>4. old \in SUBSET Int /\ 0 \in old /\ \A x \in old : x <= Len(recs)
    BY <1>0
  <2>5. Max(old) \in old
    <3>. HIDE DEF old
    <3>1. old # {} /\ Len(recs) \in Int
      BY <1>0, <2>4
    <3>. QED  BY <2>4, <3>1, GreatestMember
  <2>6. Aged(recs) = Max(old)
    BY DEF Aged, old, newest, ats
  <2>7. Aged(recs) \in 0..Len(recs) /\ \A i \in 1..Aged(recs) : ~Fresh(recs[i].at, newest)
    BY <2>5, <2>6
  <2>. HIDE DEF old
  <2>8. \A i \in 1..Aged(recs) : recs[i].at + Freshness < t
    <3>1. SUFFICES ASSUME NEW i \in 1..Aged(recs) PROVE recs[i].at + Freshness < t
      OBVIOUS
    <3>2. i \in 1..Len(recs) /\ ~Fresh(recs[i].at, newest)
      BY <1>0, <2>7
    <3>. QED  BY <2>3, <3>2, QuorumAssumption DEF Fresh
  <2>9. Compactable(recs) = Min({Aged(recs), Len(recs) - RetainedFloor})
    BY <1>2 DEF Compactable
  <2>10. RetainedFloor \in Nat /\ Aged(recs) \in Int /\ Len(recs) - RetainedFloor \in Nat
    BY <1>0, <1>2, <2>7, StoreAssumption
  <2>11. Compactable(recs) \in 0..Len(recs) /\ Compactable(recs) <= Aged(recs)
    <3>1. /\ Compactable(recs) \in {Aged(recs), Len(recs) - RetainedFloor}
          /\ Compactable(recs) <= Aged(recs)
      <4>1. Len(recs) - RetainedFloor \in Int
        BY <2>10
      <4>. QED  BY <2>9, <2>10, <4>1, LesserOfTwo
    <3>. HIDE DEF Compactable, Aged
    <3>. QED  BY <1>0, <2>7, <2>10, <3>1
  <2>. QED  BY <2>7, <2>8, <2>11
<1>. QED  BY <1>1, <1>2

\* A compaction leaves a journal that is whole.
LEMMA Compacted ==
  ASSUME NEW m, NEW j \in JournalFile, NEW l \in Seq(Report), NEW t \in Int,
         Whole(j, l, t), Past(m, l, t)
  PROVE  /\ Drop(j, Compactable(j.recs)) \in JournalFile
         /\ Whole(Drop(j, Compactable(j.recs)), l, t)
<1>. DEFINE n == Compactable(j.recs)
            d == Drop(j, n)
<1>1. /\ j.first \in Nat \ {0} /\ j.recs \in Seq(Report) /\ Len(j.recs) \in Nat /\ Len(l) \in Nat
      /\ \A i \in 1..Len(j.recs) : j.recs[i] \in Report
  BY LenProperties, ElementOfSeq DEF JournalFile
<1>2. /\ j.first + Len(j.recs) = Len(l) + 1
      /\ \A i \in 1..Len(j.recs) : j.recs[i] = l[j.first + i - 1]
      /\ \A s \in 1..Len(l) : s < j.first => l[s].at + Freshness < t
  BY DEF Whole, EndOf, Expired
<1>3. \A i \in 1..Len(j.recs) : j.recs[i].at <= t
  <2>1. SUFFICES ASSUME NEW i \in 1..Len(j.recs) PROVE j.recs[i].at <= t
    OBVIOUS
  <2>2. j.first + i - 1 \in 1..Len(l) /\ j.recs[i] = l[j.first + i - 1]
    BY <1>1, <1>2
  <2>. QED  BY <2>2 DEF Past
<1>4. n \in 0..Len(j.recs) /\ \A i \in 1..n : j.recs[i].at + Freshness < t
  BY <1>1, <1>3, CompactableAged
<1>. HIDE DEF n
<1>5. /\ SubSeq(j.recs, n + 1, Len(j.recs)) \in Seq(Report)
      /\ Len(SubSeq(j.recs, n + 1, Len(j.recs))) = Len(j.recs) - n
      /\ \A i \in 1..Len(j.recs) - n : SubSeq(j.recs, n + 1, Len(j.recs))[i] = j.recs[n + i]
  <2>1. n + 1 \in Int /\ Len(j.recs) \in Int /\ \A i \in (n + 1)..Len(j.recs) : j.recs[i] \in Report
    BY <1>1, <1>4
  <2>2. /\ SubSeq(j.recs, n + 1, Len(j.recs)) \in Seq(Report)
        /\ Len(SubSeq(j.recs, n + 1, Len(j.recs))) =
             IF n + 1 <= Len(j.recs) THEN Len(j.recs) - (n + 1) + 1 ELSE 0
        /\ \A i \in 1..Len(j.recs) - (n + 1) + 1 :
             SubSeq(j.recs, n + 1, Len(j.recs))[i] = j.recs[(n + 1) + i - 1]
    BY <2>1, SubSeqProperties
  <2>3. \A i \in 1..Len(j.recs) - n : (n + 1) + i - 1 = n + i /\ i \in 1..Len(j.recs) - (n + 1) + 1
    BY <1>1, <1>4
  <2>. QED  BY <1>1, <1>4, <2>2, <2>3
<1>6. d.first = j.first + n /\ d.recs = SubSeq(j.recs, n + 1, Len(j.recs))
  BY DEF Drop, Journal
<1>7. d \in JournalFile
  BY <1>1, <1>4, <1>5 DEF Drop, Journal, JournalFile
<1>. HIDE DEF d
<1>8. EndOf(d, l)
  <2>1. d.first + Len(d.recs) = Len(l) + 1
    BY <1>1, <1>2, <1>4, <1>5, <1>6
  <2>2. ASSUME NEW i \in 1..Len(d.recs) PROVE d.recs[i] = l[d.first + i - 1]
    <3>1. i \in 1..Len(j.recs) - n
      BY <1>5, <1>6
    <3>2. n + i \in 1..Len(j.recs) /\ d.recs[i] = j.recs[n + i]
      BY <1>1, <1>4, <1>5, <1>6, <3>1
    <3>3. j.first + (n + i) - 1 = d.first + i - 1
      <4>1. j.first \in Int /\ n \in Int /\ i \in Int /\ d.first = j.first + n
        BY <1>1, <1>4, <1>6, <3>1
      <4>. QED  BY <4>1
    <3>. QED  BY <1>2, <3>2, <3>3
  <2>. QED  BY <2>1, <2>2 DEF EndOf
<1>9. Expired(d, l, t)
  <2>1. SUFFICES ASSUME NEW s \in 1..Len(l), s < d.first PROVE l[s].at + Freshness < t
    BY DEF Expired
  <2>2. CASE s < j.first
    BY <1>2, <2>2
  <2>3. CASE ~(s < j.first)
    <3>1. s - j.first + 1 \in 1..n /\ s - j.first + 1 \in 1..Len(j.recs)
      BY <1>1, <1>4, <1>6, <2>1, <2>3
    <3>2. j.first + (s - j.first + 1) - 1 = s
      BY <1>1
    <3>. QED  BY <1>2, <1>4, <3>1, <3>2
  <2>. QED  BY <2>2, <2>3
<1>. QED  BY <1>7, <1>8, <1>9 DEF Whole, n, d

\* A report that is appended to a whole journal and to the history alike.
LEMMA Appended ==
  ASSUME NEW j \in JournalFile, NEW l \in Seq(Report), NEW t \in Int, Whole(j, l, t),
         NEW r \in Report
  PROVE  /\ Journal(j.first, Append(j.recs, r)) \in JournalFile
         /\ Whole(Journal(j.first, Append(j.recs, r)), Append(l, r), t)
<1>. DEFINE d == Journal(j.first, Append(j.recs, r))
<1>1. /\ j.first \in Nat \ {0} /\ j.recs \in Seq(Report) /\ Len(j.recs) \in Nat /\ Len(l) \in Nat
  BY LenProperties DEF JournalFile
<1>2. /\ Append(j.recs, r) \in Seq(Report) /\ Len(Append(j.recs, r)) = Len(j.recs) + 1
      /\ \A i \in 1..Len(j.recs) : Append(j.recs, r)[i] = j.recs[i]
      /\ Append(j.recs, r)[Len(j.recs) + 1] = r
  BY <1>1, AppendProperties
<1>3. /\ Append(l, r) \in Seq(Report) /\ Len(Append(l, r)) = Len(l) + 1
      /\ \A i \in 1..Len(l) : Append(l, r)[i] = l[i]
      /\ Append(l, r)[Len(l) + 1] = r
  BY AppendProperties
<1>4. /\ j.first + Len(j.recs) = Len(l) + 1
      /\ \A i \in 1..Len(j.recs) : j.recs[i] = l[j.first + i - 1]
      /\ \A s \in 1..Len(l) : s < j.first => l[s].at + Freshness < t
  BY DEF Whole, EndOf, Expired
<1>5. d.first = j.first /\ d.recs = Append(j.recs, r) /\ d \in JournalFile
  BY <1>1, <1>2 DEF Journal, JournalFile
<1>. HIDE DEF d
<1>6. EndOf(d, Append(l, r))
  <2>1. ASSUME NEW i \in 1..Len(j.recs) + 1
        PROVE  Append(j.recs, r)[i] = Append(l, r)[j.first + i - 1]
    <3>1. CASE i = Len(j.recs) + 1
      <4>1. j.first + i - 1 = Len(l) + 1
        BY <1>1, <1>4, <3>1
      <4>. QED  BY <1>2, <1>3, <3>1, <4>1
    <3>2. CASE i # Len(j.recs) + 1
      <4>1. i \in 1..Len(j.recs) /\ j.first + i - 1 \in 1..Len(l)
        BY <1>1, <1>4, <3>2
      <4>. QED  BY <1>2, <1>3, <1>4, <4>1
    <3>. QED  BY <3>1, <3>2
  <2>2. /\ d.first = j.first /\ d.recs = Append(j.recs, r)
        /\ Len(d.recs) = Len(j.recs) + 1 /\ Len(Append(l, r)) = Len(l) + 1
    BY <1>2, <1>3, <1>5
  <2>3. j.first + (Len(j.recs) + 1) = (Len(l) + 1) + 1
    BY <1>1, <1>4
  <2>. QED  BY <2>1, <2>2, <2>3 DEF EndOf
<1>7. Expired(d, Append(l, r), t)
  <2>1. SUFFICES ASSUME NEW s \in 1..Len(l) + 1, s < j.first PROVE Append(l, r)[s].at + Freshness < t
    BY <1>3, <1>5 DEF Expired
  <2>2. s \in 1..Len(l)
    BY <1>1, <1>4, <2>1
  <2>. QED  BY <1>3, <1>4, <2>1, <2>2
<1>. QED  BY <1>5, <1>6, <1>7 DEF Whole, d

\* Time makes no journal less whole, and no report one of the future.
LEMMA TimePasses ==
  ASSUME NEW m, NEW j \in JournalFile, NEW l \in Seq(Report), NEW t \in Int
  PROVE  /\ Whole(j, l, t) => Whole(j, l, t + 1)
         /\ Past(m, l, t) => Past(m, l, t + 1)
<1>1. Len(l) \in Nat /\ \A s \in 1..Len(l) : l[s].at \in Int
  <2>1. Len(l) \in Nat /\ \A s \in 1..Len(l) : l[s] \in Report
    BY LenProperties, ElementOfSeq
  <2>. QED  BY <2>1 DEF Report
<1>2. Whole(j, l, t) => Whole(j, l, t + 1)
  BY <1>1, QuorumAssumption DEF Whole, Expired
<1>3. Past(m, l, t) => Past(m, l, t + 1)
  BY <1>1 DEF Past
<1>. QED  BY <1>2, <1>3

---------------------------------------------------------------------------
(* One round of the controller. *)

\* What the votes keep of the reports: their members, and any sight of a writer.
LEMMA VotesOfReports ==
  ASSUME NEW reports \in SUBSET Report, NEW t
  PROVE  LET votes == Votes(reports, t)
             fresh == FreshReports(reports, t)
         IN  /\ DOMAIN votes = {x.member : x \in fresh} /\ DOMAIN votes \subseteq Members
             /\ \A m \in DOMAIN votes : votes[m].writer \in Nat /\ votes[m].writer <= MaxStoredEpoch
             /\ \A x \in fresh : x.writer \in Nat /\ x.writer <= votes[x.member].writer
<1>. DEFINE fresh == FreshReports(reports, t)
            votes == Votes(reports, t)
<1>1. fresh \subseteq Report
  BY DEF FreshReports
<1>2. /\ DOMAIN votes = {x.member : x \in fresh}
      /\ \A m \in DOMAIN votes : votes[m] = FoldVote({x \in fresh : x.member = m})
  BY DEF Votes
<1>. HIDE DEF fresh, votes
<1>3. DOMAIN votes \subseteq Members
  <2>1. \A x \in fresh : x.member \in Members
    BY <1>1 DEF Report
  <2>. QED  BY <1>2, <2>1
<1>4. ASSUME NEW m \in DOMAIN votes
      PROVE  /\ votes[m].writer \in Nat /\ votes[m].writer <= MaxStoredEpoch
             /\ \A x \in fresh : x.member = m => x.writer <= votes[m].writer
  <2>. DEFINE rs == {x \in fresh : x.member = m}
              S == {x.writer : x \in rs}
  <2>1. \A x \in rs : x.writer \in 0..MaxStoredEpoch
    BY <1>1 DEF Report
  <2>2. rs # {}
    BY <1>2
  <2>. HIDE DEF rs
  <2>3. S \in SUBSET Int /\ S # {} /\ \A w \in S : w \in Nat /\ w <= MaxStoredEpoch
    BY <2>1, <2>2, QuorumAssumption
  <2>4. votes[m].writer = Max(S)
    <3>1. votes[m] = FoldVote(rs)
      BY <1>2 DEF rs
    <3>2. FoldVote(rs).writer = Max(S)
      BY DEF FoldVote
    <3>. QED  BY <3>1, <3>2
  <2>5. Max(S) \in S /\ \A w \in S : Max(S) >= w
    <3>. HIDE DEF S
    <3>1. MaxStoredEpoch \in Int
      BY QuorumAssumption
    <3>. QED  BY <2>3, <3>1, GreatestMember
  <2>6. \A x \in rs : Max(S) >= x.writer
    BY <2>5
  <2>. HIDE DEF S
  <2>7. \A x \in rs : x.writer \in Nat /\ x.writer <= Max(S)
    BY <2>1, <2>3, <2>5, <2>6, QuorumAssumption
  <2>8. \A x \in fresh : x.member = m => x \in rs
    BY DEF rs
  <2>. QED  BY <2>3, <2>4, <2>5, <2>7, <2>8
<1>5. ASSUME NEW x \in fresh
      PROVE  x.writer \in Nat /\ x.writer <= votes[x.member].writer
  <2>1. x.member \in DOMAIN votes
    BY <1>2
  <2>2. x.writer \in 0..MaxStoredEpoch
    BY <1>1 DEF Report
  <2>. QED  BY <1>4, <2>1, <2>2, QuorumAssumption
<1>. QED  BY <1>2, <1>3, <1>4, <1>5 DEF fresh, votes

\* Majorities are counted in numbers.
LEMMA MajorityCounts ==
  /\ Majority \in Nat
  /\ \A S \in SUBSET Members : IsFiniteSet(S) /\ Cardinality(S) \in Nat
<1>1. IsFiniteSet(Members) /\ Cardinality(Members) \in Nat
  BY QuorumAssumption, FS_CardinalityType
<1>2. Majority \in Nat
  BY <1>1 DEF Majority
<1>3. \A S \in SUBSET Members : IsFiniteSet(S)
  BY <1>1, FS_Subset
<1>. QED  BY <1>2, <1>3, FS_CardinalityType

\* Where FailoverController::observe may take a controller, as its streaks see it: a
\* check is counted only on a majority, a suspicion only when no member saw the writer.
Enough(votes) == Cardinality(Voters(votes)) >= Majority

RoundOf(c, d, votes) ==
  /\ d \in Controllers
  /\ d.phase = "steady" =>
       c.phase # "promoted" /\ d.streak = 0 /\ d.fails = 0
  /\ d.phase = "suspecting" =>
       /\ c.phase \in {"steady", "suspecting"} /\ Enough(votes) /\ Failure(votes)
       /\ d.fails = c.fails + 1 /\ d.fails < FailedChecks /\ d.streak = c.streak
  /\ d.phase = "fencing" =>
       \/ c.phase = "fencing" /\ d.streak = c.streak
       \/ /\ c.phase \in {"steady", "suspecting"} /\ Enough(votes) /\ Failure(votes)
          /\ c.fails + 1 >= FailedChecks /\ d.streak = 0
  /\ d.phase = "promoted" =>
       \/ c.phase = "fencing" /\ d.streak = 0
       \/ c.phase = "promoted" /\ d.streak \in {0, c.streak}
       \/ c.phase = "promoted" /\ Enough(votes) /\ d.streak = c.streak + 1

\* One round of FailoverController::observe, over any reports.
LEMMA ObserveRound ==
  ASSUME NEW c \in Controllers, NEW reports \in SUBSET Report, NEW t \in Nat,
         c.phase = "steady" => c.fails = 0,
         c.phase # "promoted" => c.streak = 0
  PROVE  RoundOf(c, Observe(c, reports, t).ctl, Votes(reports, t))
<1>. DEFINE votes == Votes(reports, t)
            W == {votes[m].writer : m \in DOMAIN votes}
            top == Max({c.max} \union W)
            seen == [c EXCEPT !.max = top]
            r == Observe(c, reports, t)
<1>1. DOMAIN votes \subseteq Members /\ \A w \in W : w \in Nat /\ w <= MaxStoredEpoch
  <2>1. /\ DOMAIN votes \subseteq Members
        /\ \A m \in DOMAIN votes : votes[m].writer \in Nat /\ votes[m].writer <= MaxStoredEpoch
    BY VotesOfReports
  <2>. HIDE DEF votes
  <2>. QED  BY <2>1
<1>2. c.max \in Nat /\ c.phase \in {"steady", "suspecting", "fencing", "promoted"}
      /\ c.fails \in Nat /\ c.streak \in Nat /\ c.since \in Nat
  BY DEF Controllers
<1>3. top \in Nat
  <2>. DEFINE T == {c.max} \union W
  <2>. HIDE DEF W
  <2>1. T \in SUBSET Int /\ T # {} /\ \A x \in T : x \in Nat /\ x <= c.max + MaxStoredEpoch
    BY <1>1, <1>2, QuorumAssumption
  <2>2. c.max + MaxStoredEpoch \in Int
    BY <1>2, QuorumAssumption
  <2>. HIDE DEF T
  <2>3. Max(T) \in T
    BY <2>1, <2>2, GreatestMember
  <2>. QED  BY <2>1, <2>3 DEF T
<1>4. r = IF Cardinality(Voters(votes)) < Majority
            THEN Outcome(LoseEvidence(seen), "lost")
            ELSE CASE seen.phase \in {"steady", "suspecting"} -> ObserveWriter(seen, votes)
                   [] seen.phase = "fencing"  -> ObserveFencing(seen, votes)
                   [] seen.phase = "promoted" -> ObservePromoted(seen, votes, t)
  BY DEF Observe
<1>. HIDE DEF top, W
<1>5. /\ seen \in Controllers /\ seen.phase = c.phase /\ seen.fails = c.fails
      /\ seen.streak = c.streak /\ seen.since = c.since
  BY <1>2, <1>3 DEF Controllers
<1>6. Enough(votes) \/ Cardinality(Voters(votes)) < Majority
  BY <1>1, MajorityCounts DEF Enough, Voters
<1>. HIDE DEF votes, seen
<1>7. /\ InSteady(seen) \in Controllers /\ InSteady(seen).phase = "steady"
      /\ InSteady(seen).streak = 0 /\ InSteady(seen).fails = 0
  BY <1>5 DEF InSteady, Steady, Controllers, NoTime
<1>8. /\ InFencing(seen) \in Controllers /\ InFencing(seen).phase = "fencing"
      /\ InFencing(seen).streak = 0
  BY <1>5 DEF InFencing, Steady, Controllers, NoTime
<1>. SUFFICES RoundOf(c, r.ctl, votes)
  BY DEF votes
<1>. HIDE DEF r
<1>9. CASE Cardinality(Voters(votes)) < Majority
  <2>1. r.ctl = LoseEvidence(seen)
    BY <1>4, <1>9 DEF Outcome
  <2>2. CASE c.phase = "suspecting"
    <3>1. r.ctl = InSteady(seen)
      BY <1>5, <2>1, <2>2 DEF LoseEvidence
    <3>. QED  BY <1>7, <2>2, <3>1 DEF RoundOf
  <2>3. CASE c.phase = "promoted"
    <3>. DEFINE d == [seen EXCEPT !.streak = 0, !.since = NoTime]
    <3>1. d \in Controllers /\ d.phase = "promoted" /\ d.streak = 0
      BY <1>5, <2>3 DEF Controllers, NoTime
    <3>2. r.ctl = d
      BY <1>5, <2>1, <2>3 DEF LoseEvidence
    <3>. HIDE DEF d
    <3>. QED  BY <2>3, <3>1, <3>2 DEF RoundOf
  <2>4. CASE c.phase \in {"steady", "fencing"}
    <3>1. r.ctl = seen
      BY <1>5, <2>1, <2>4 DEF LoseEvidence
    <3>. QED  BY <1>5, <2>4, <3>1 DEF RoundOf
  <2>. QED  BY <1>2, <2>2, <2>3, <2>4
<1>10. CASE ~(Cardinality(Voters(votes)) < Majority) /\ c.phase \in {"steady", "suspecting"}
  <2>1. r = ObserveWriter(seen, votes)
    BY <1>4, <1>5, <1>10
  <2>2. Enough(votes)
    BY <1>6, <1>10
  <2>3. CASE ~Failure(votes)
    <3>1. r.ctl = InSteady(seen)
      BY <2>1, <2>3 DEF ObserveWriter, Outcome
    <3>. QED  BY <1>7, <1>10, <3>1 DEF RoundOf
  <2>4. CASE Failure(votes) /\ seen.fails + 1 >= FailedChecks
    <3>1. r.ctl = InFencing(seen)
      BY <2>1, <2>4 DEF ObserveWriter, Outcome
    <3>. QED  BY <1>5, <1>8, <1>10, <2>2, <2>4, <3>1 DEF RoundOf
  <2>5. CASE Failure(votes) /\ ~(seen.fails + 1 >= FailedChecks)
    <3>. DEFINE n == seen.fails + 1
                d == [seen EXCEPT !.phase = "suspecting", !.fails = n]
    <3>1. r.ctl = d
      BY <2>1, <2>5 DEF ObserveWriter, Outcome
    <3>2. n \in Nat /\ n = c.fails + 1 /\ n < FailedChecks
      BY <1>2, <1>5, <2>5, QuorumAssumption
    <3>. HIDE DEF n
    <3>3. d \in Controllers /\ d.phase = "suspecting" /\ d.fails = n /\ d.streak = c.streak
      BY <1>5, <3>2 DEF Controllers
    <3>. HIDE DEF d
    <3>. QED  BY <1>10, <2>2, <2>5, <3>1, <3>2, <3>3 DEF RoundOf
  <2>. QED  BY <2>3, <2>4, <2>5
<1>11. CASE ~(Cardinality(Voters(votes)) < Majority) /\ c.phase = "fencing"
  <2>1. r = ObserveFencing(seen, votes)
    BY <1>4, <1>5, <1>11
  <2>. DEFINE n == seen.max + 1
              d == InPromoted(seen, n)
  <2>2. r.ctl \in {InSteady(seen), d, seen}
    BY <2>1 DEF ObserveFencing, Outcome
  <2>3. n \in Nat
    BY <1>5 DEF Controllers
  <2>. HIDE DEF n
  <2>4. d \in Controllers /\ d.phase = "promoted" /\ d.streak = 0
    BY <1>5, <2>3 DEF InPromoted, Steady, NoTime, Controllers
  <2>. HIDE DEF d
  <2>. QED  BY <1>5, <1>7, <1>11, <2>2, <2>4 DEF RoundOf
<1>12. CASE ~(Cardinality(Voters(votes)) < Majority) /\ c.phase = "promoted"
  <2>1. r = ObservePromoted(seen, votes, t)
    BY <1>4, <1>5, <1>12
  <2>. DEFINE since == IF seen.since = NoTime THEN t ELSE seen.since
              n == seen.streak + 1
              again == [seen EXCEPT !.streak = n, !.since = since]
              none  == [seen EXCEPT !.streak = 0, !.since = NoTime]
              back  == [again EXCEPT !.rejoined = TRUE]
  <2>2. since \in Nat /\ n \in Nat /\ n = c.streak + 1
    BY <1>2, <1>5
  <2>3. r.ctl \in {seen, none, back, again}
    BY <2>1 DEF ObservePromoted, Outcome
  <2>. HIDE DEF since, n
  <2>4. again \in Controllers /\ again.phase = "promoted" /\ again.streak = n
    BY <1>5, <1>12, <2>2 DEF Controllers
  <2>5. none \in Controllers /\ none.phase = "promoted" /\ none.streak = 0
    BY <1>5, <1>12 DEF Controllers, NoTime
  <2>. HIDE DEF again, none
  <2>6. back \in Controllers /\ back.phase = "promoted" /\ back.streak = n
    BY <2>4 DEF Controllers
  <2>. HIDE DEF back
  <2>7. Enough(votes)
    BY <1>6, <1>12
  <2>. QED  BY <1>5, <1>12, <2>2, <2>3, <2>4, <2>5, <2>6, <2>7 DEF RoundOf
<1>. QED  BY <1>2, <1>9, <1>10, <1>11, <1>12

---------------------------------------------------------------------------
(* One check. *)

\* What SharedStoreSource::collect hands to the controller, and the votes in it.
RoundHanded == IF mode = "open" THEN Handed ELSE {}
RoundVotes == Votes({ReportOf(e) : e \in RoundHanded}, now)

\* A sequence that is served names the same report in memory and in the history, one
\* that was not served before.
LEMMA HandedReports ==
  ASSUME Types, Files, Memory, NEW e \in RoundHanded
  PROVE  /\ e \in Members \X (Nat \ {0}) /\ e[1] \in Members /\ e[2] \in Nat \ {0}
         /\ e[2] > served[e[1]] /\ e[2] <= Len(log[e[1]])
         /\ ReportOf(e) = log[e[1]][e[2]] /\ ReportOf(e) \in Report
         /\ ReportOf(e).member = e[1] /\ Fresh(ReportOf(e).at, now)
<1>1. mode = "open" /\ e \in Handed
  BY DEF RoundHanded
<1>2. PICK m \in Members : e \in {m} \X Unserved(m)
  BY <1>1 DEF Handed
<1>3. e = <<m, e[2]>> /\ e[1] = m /\ e[2] \in Unserved(m)
  BY <1>2
<1>. DEFINE s == e[2]
            j == held[m]
            l == log[m]
<1>4. /\ j.first \in Nat \ {0} /\ j.recs \in Seq(Report) /\ Len(j.recs) \in Nat
      /\ l \in Seq(Report) /\ Len(l) \in Nat /\ \A i \in 1..Len(l) : l[i] \in Report
  <2>1. j \in JournalFile /\ l \in Seq(Report)
    BY DEF Types
  <2>2. j.first \in Nat \ {0} /\ j.recs \in Seq(Report)
    BY <2>1 DEF JournalFile
  <2>. QED  BY <2>1, <2>2, LenProperties, ElementOfSeq
<1>5. /\ s \in j.first .. j.first + Len(j.recs) - 1 /\ s > served[m]
      /\ Fresh(j.recs[s - j.first + 1].at, now)
  BY <1>3 DEF Unserved
<1>6. /\ j.first + Len(j.recs) = Len(l) + 1
      /\ \A i \in 1..Len(j.recs) : j.recs[i] = l[j.first + i - 1]
  BY <1>1 DEF Memory, InUse, Whole, EndOf
<1>7. ReportOf(e) = j.recs[s - j.first + 1]
  BY <1>3 DEF ReportOf
<1>. HIDE DEF s, j, l
<1>8. /\ s - j.first + 1 \in 1..Len(j.recs) /\ j.first + (s - j.first + 1) - 1 = s
      /\ s \in 1..Len(l) /\ s \in Nat \ {0}
  <2>. DEFINE f == j.first
              n == Len(j.recs)
              k == Len(l)
  <2>1. f \in Nat \ {0} /\ n \in Nat /\ k \in Nat /\ f + n = k + 1 /\ s \in f .. f + n - 1
    BY <1>4, <1>5, <1>6
  <2>. HIDE DEF f, n, k
  <2>2. s - f + 1 \in 1..n /\ f + (s - f + 1) - 1 = s /\ s \in 1..k /\ s \in Nat \ {0}
    BY <2>1
  <2>. QED  BY <2>2 DEF f, n, k
<1>9. j.recs[s - j.first + 1] = l[s]
  BY <1>6, <1>8
<1>10. l[s].member = m
  BY <1>8 DEF Files, Past, l
<1>11. l[s] \in Report
  BY <1>4, <1>8
<1>12. s <= Len(l)
  BY <1>4, <1>8
<1>. QED  BY <1>2, <1>3, <1>5, <1>7, <1>8, <1>9, <1>10, <1>11, <1>12 DEF s, l

\* A check on a majority of votes has a majority of contributors, and one that finds the
\* writer failed was given no report of a living one.
LEMMA HandedVotes ==
  ASSUME Types, Files, Memory
  PROVE  /\ Enough(RoundVotes) => Cardinality(Contributors(RoundHanded)) >= Majority
         /\ Failure(RoundVotes) => \A e \in RoundHanded : log[e[1]][e[2]].writer = 0
<1>. DEFINE reports == {ReportOf(e) : e \in RoundHanded}
            fresh == FreshReports(reports, now)
<1>1. reports \in SUBSET Report
  BY HandedReports
<1>2. /\ DOMAIN RoundVotes = {x.member : x \in fresh} /\ DOMAIN RoundVotes \subseteq Members
      /\ \A m \in DOMAIN RoundVotes : RoundVotes[m].writer \in Nat
      /\ \A x \in fresh : x.writer \in Nat /\ x.writer <= RoundVotes[x.member].writer
  <2>. HIDE DEF reports
  <2>1. RoundVotes = Votes(reports, now)
    BY DEF RoundVotes, reports
  <2>. QED  BY <1>1, <2>1, VotesOfReports
<1>3. Enough(RoundVotes) => Cardinality(Contributors(RoundHanded)) >= Majority
  <2>1. \A x \in fresh : \E e \in RoundHanded : x = ReportOf(e)
    BY DEF FreshReports
  <2>2. DOMAIN RoundVotes \subseteq Contributors(RoundHanded)
    <3>1. SUFFICES ASSUME NEW x \in fresh PROVE x.member \in Contributors(RoundHanded)
      BY <1>2
    <3>2. PICK e \in RoundHanded : x = ReportOf(e)
      BY <2>1
    <3>3. x.member = e[1]
      BY <3>2, HandedReports
    <3>. QED  BY <3>3 DEF Contributors
  <2>3. Contributors(RoundHanded) \subseteq Members
    BY HandedReports DEF Contributors
  <2>4. /\ Majority \in Nat /\ IsFiniteSet(Contributors(RoundHanded))
        /\ Cardinality(Contributors(RoundHanded)) \in Nat /\ Cardinality(DOMAIN RoundVotes) \in Nat
    BY <1>2, <2>3, MajorityCounts
  <2>5. Cardinality(DOMAIN RoundVotes) <= Cardinality(Contributors(RoundHanded))
    BY <2>2, <2>4, FS_Subset
  <2>. QED  BY <2>4, <2>5 DEF Enough, Voters
<1>4. ASSUME Failure(RoundVotes), NEW e \in RoundHanded
      PROVE  log[e[1]][e[2]].writer = 0
  <2>1. /\ ReportOf(e) = log[e[1]][e[2]] /\ ReportOf(e).member \in Members
        /\ Fresh(ReportOf(e).at, now)
    BY HandedReports
  <2>2. ReportOf(e) \in fresh
    BY <2>1 DEF FreshReports
  <2>. HIDE DEF fresh
  <2>3. ReportOf(e).member \in DOMAIN RoundVotes
    BY <1>2, <2>2
  <2>4. RoundVotes[ReportOf(e).member].writer = 0
    BY <1>4, <2>3 DEF Failure, Reachable
  <2>5. ReportOf(e).writer \in Nat /\ ReportOf(e).writer <= 0
    BY <1>2, <2>2, <2>4
  <2>. QED  BY <2>1, <2>5
<1>. QED  BY <1>3, <1>4

\* After a check, everything it was handed counts as served.
LEMMA ServedAfter ==
  ASSUME Types, Files, Memory, Collect
  PROVE  /\ served' \in [Members -> Nat]
         /\ \A m \in Members : served[m] <= served'[m]
         /\ \A e \in RoundHanded : e[2] <= served'[e[1]]
<1>. DEFINE of(m) == {e[2] : e \in {x \in RoundHanded : x[1] = m}}
<1>1. served' = [m \in Members |-> Max({served[m]} \union of(m))]
  BY DEF Collect, RoundHanded
<1>2. ASSUME NEW m \in Members
      PROVE  /\ served'[m] \in Nat /\ served[m] <= served'[m]
             /\ \A e \in RoundHanded : e[1] = m => e[2] <= served'[m]
  <2>. DEFINE T == {served[m]} \union of(m)
              b == served[m] + Len(log[m])
  <2>1. served[m] \in Nat /\ Len(log[m]) \in Nat
    BY LenProperties DEF Types
  <2>2. \A e \in RoundHanded : e[1] = m => e[2] \in Nat /\ e[2] <= Len(log[m])
    BY HandedReports
  <2>3. T \in SUBSET Int /\ T # {} /\ \A x \in T : x \in Nat /\ x <= b
    BY <2>1, <2>2
  <2>4. b \in Int
    BY <2>1
  <2>5. served[m] \in T /\ \A e \in RoundHanded : e[1] = m => e[2] \in T
    OBVIOUS
  <2>6. served'[m] = Max(T)
    BY <1>1
  <2>. HIDE DEF T, b
  <2>7. Max(T) \in T /\ \A y \in T : Max(T) >= y
    BY <2>3, <2>4, GreatestMember
  <2>8. \A y \in T : y <= Max(T)
    BY <2>3, <2>7
  <2>. QED  BY <2>3, <2>5, <2>6, <2>7, <2>8
<1>3. \A e \in RoundHanded : e[1] \in Members
  BY HandedReports
<1>. QED  BY <1>1, <1>2, <1>3

---------------------------------------------------------------------------
(* The steps. *)

\* A check preserves the invariant: what it counts is new, of a majority and, in a
\* suspicion, without a sight of the writer.
LEMMA CollectInv ==
  ASSUME ObservationInv, Collect
  PROVE  ObservationInv'
<1>. USE DEF ObservationInv
<1>. DEFINE d == ctl'
            n == Len(counted)
<1>1. /\ d = Observe(ctl, {ReportOf(e) : e \in RoundHanded}, now).ctl
      /\ counted' = StreakAfter(d, RoundHanded)
      /\ UNCHANGED <<disk, torn, mark, held, mode, loaded, writing, now, faults, log>>
  BY DEF Collect, RoundHanded
<1>2. RoundOf(ctl, d, RoundVotes)
  <2>. DEFINE reports == {ReportOf(e) : e \in RoundHanded}
  <2>1. reports \in SUBSET Report
    BY HandedReports
  <2>2. ctl \in Controllers /\ now \in Nat
    BY DEF Types
  <2>3. (ctl.phase = "steady" => ctl.fails = 0) /\ (ctl.phase # "promoted" => ctl.streak = 0)
    BY DEF Counting
  <2>4. RoundVotes = Votes(reports, now)
    BY DEF RoundVotes
  <2>5. d = Observe(ctl, reports, now).ctl
    BY <1>1
  <2>. HIDE DEF reports, d
  <2>. QED  BY <2>1, <2>2, <2>3, <2>4, <2>5, ObserveRound
<1>. HIDE DEF d
<1>3. /\ served' \in [Members -> Nat]
      /\ \A m \in Members : served[m] <= served'[m]
      /\ \A e \in RoundHanded : e[2] <= served'[e[1]]
  BY ServedAfter
<1>4. /\ RoundHanded \in Evidence
      /\ \A e \in RoundHanded : e[1] \in Members /\ e[2] \in Nat /\ e[2] > served[e[1]] /\ e[2] <= Len(log[e[1]])
  BY HandedReports DEF Evidence
<1>5. counted \in Seq(Evidence) /\ n \in Nat /\ \A i \in 1..n : counted[i] \in Evidence
  BY LenProperties, ElementOfSeq DEF Types
<1>6. /\ ctl \in Controllers /\ ctl.phase \in {"steady", "suspecting", "fencing", "promoted"}
      /\ ctl.streak \in Nat /\ ctl.fails \in Nat /\ served \in [Members -> Nat]
  BY DEF Types, Controllers
<1>7. d \in Controllers /\ d.phase \in {"steady", "suspecting", "fencing", "promoted"} /\ d.streak \in Nat
  BY <1>2 DEF RoundOf, Controllers
<1>8. \A i \in 1..n : \A e \in counted[i] :
        e[1] \in Members /\ e[2] \in Nat /\ e[2] <= Len(log[e[1]]) /\ e[2] <= served[e[1]] /\ e[2] <= served'[e[1]]
  <2>1. SUFFICES ASSUME NEW i \in 1..n, NEW e \in counted[i]
                 PROVE  /\ e[1] \in Members /\ e[2] \in Nat /\ e[2] <= Len(log[e[1]])
                        /\ e[2] <= served[e[1]] /\ e[2] <= served'[e[1]]
    OBVIOUS
  <2>2. e[1] \in Members /\ e[2] \in Nat
    BY <1>5 DEF Evidence
  <2>3. e[2] <= Len(log[e[1]]) /\ e[2] <= served[e[1]]
    BY DEF Streak, Known
  <2>4. served[e[1]] \in Nat /\ served'[e[1]] \in Nat /\ served[e[1]] <= served'[e[1]]
    BY <1>3, <1>6, <2>2
  <2>. QED  BY <2>2, <2>3, <2>4
<1>9. Types' <=> counted' \in Seq(Evidence)
  BY <1>1, <1>3, <1>7 DEF Types, d
<1>10. Files' /\ Memory'
  <2>1. Files'
    BY <1>1 DEF Files
  <2>2. Memory'
    BY <1>1 DEF Memory, InUse
  <2>. QED  BY <2>1, <2>2
<1>11. CASE Counts(d)
  <2>1. counted' = Append(counted, RoundHanded)
    BY <1>1, <1>11 DEF StreakAfter
  <2>2. /\ counted' \in Seq(Evidence) /\ Len(counted') = n + 1
        /\ \A i \in 1..n : counted'[i] = counted[i]
        /\ counted'[n + 1] = RoundHanded
    BY <1>4, <1>5, <2>1, AppendProperties
  <2>3. Enough(RoundVotes) /\ (d.phase \in {"suspecting", "fencing"} => Failure(RoundVotes))
    BY <1>2, <1>6, <1>7, <1>11 DEF Counts, RoundOf
  <2>4. Counting'
    <3>1. d.phase # "steady"
      BY <1>11 DEF Counts
    <3>2. d.phase = "suspecting" => n + 1 = d.fails /\ d.fails < FailedChecks /\ d.streak = 0
      <4>1. SUFFICES ASSUME d.phase = "suspecting"
                     PROVE  n + 1 = d.fails /\ d.fails < FailedChecks /\ d.streak = 0
        OBVIOUS
      <4>2. /\ ctl.phase \in {"steady", "suspecting"} /\ d.fails = ctl.fails + 1
            /\ d.fails < FailedChecks /\ d.streak = ctl.streak
        BY <1>2, <4>1 DEF RoundOf
      <4>3. n = ctl.fails /\ ctl.streak = 0
        BY <4>2 DEF Counting
      <4>. QED  BY <1>5, <4>2, <4>3
    <3>3. d.phase = "fencing" => n + 1 = FailedChecks /\ d.streak = 0
      <4>1. SUFFICES ASSUME d.phase = "fencing" PROVE n + 1 = FailedChecks /\ d.streak = 0
        OBVIOUS
      <4>2. ctl.phase \in {"steady", "suspecting"} /\ ctl.fails + 1 >= FailedChecks /\ d.streak = 0
        BY <1>2, <1>11, <4>1 DEF RoundOf, Counts
      <4>3. n = ctl.fails /\ (n = 0 \/ n < FailedChecks)
        BY <4>2 DEF Counting
      <4>. QED  BY <1>5, <4>2, <4>3, QuorumAssumption
    <3>4. d.phase = "promoted" => n + 1 = d.streak
      <4>1. SUFFICES ASSUME d.phase = "promoted" PROVE n + 1 = d.streak
        OBVIOUS
      <4>2. d.streak > ctl.streak
        BY <1>11, <4>1 DEF Counts
      <4>3. ctl.phase = "promoted" /\ d.streak = ctl.streak + 1
        BY <1>2, <1>6, <1>7, <4>1, <4>2 DEF RoundOf
      <4>4. n = ctl.streak
        BY <4>3 DEF Counting
      <4>. QED  BY <4>3, <4>4
    <3>. QED  BY <1>7, <2>2, <3>1, <3>2, <3>3, <3>4 DEF Counting, d
  <2>5. Streak'
    <3>1. ASSUME NEW i \in 1..n + 1
          PROVE  i \in 1..n \/ (i = n + 1 /\ counted'[i] = RoundHanded)
      BY <1>5, <2>2
    <3>2. \A i \in 1..n + 1 : Cardinality(Contributors(counted'[i])) >= Majority
      <4>1. Cardinality(Contributors(RoundHanded)) >= Majority
        BY <2>3, HandedVotes
      <4>. QED  BY <2>2, <3>1, <4>1 DEF Streak
    <3>3. \A i \in 1..n + 1 : \A e \in counted'[i] : e[2] <= Len(log'[e[1]]) /\ e[2] <= served'[e[1]]
      BY <1>1, <1>3, <1>4, <1>8, <2>2, <3>1
    <3>4. \A i \in 1..n : counted[i] \intersect RoundHanded = {}
      <4>1. SUFFICES ASSUME NEW i \in 1..n, NEW e \in counted[i], e \in RoundHanded PROVE FALSE
        OBVIOUS
      <4>2. e[2] \in Nat /\ e[2] <= served[e[1]] /\ e[1] \in Members
        BY <1>8
      <4>3. e[2] > served[e[1]]
        BY <1>4, <4>1
      <4>4. served[e[1]] \in Nat
        BY <1>6, <4>2
      <4>. QED  BY <4>2, <4>3, <4>4
    <3>5. \A i, j \in 1..n + 1 : i # j => counted'[i] \intersect counted'[j] = {}
      <4>1. SUFFICES ASSUME NEW i \in 1..n + 1, NEW j \in 1..n + 1, i # j
                     PROVE  counted'[i] \intersect counted'[j] = {}
        OBVIOUS
      <4>2. CASE i \in 1..n /\ j \in 1..n
        BY <2>2, <4>1, <4>2 DEF Streak
      <4>3. CASE i \in 1..n /\ j = n + 1
        BY <2>2, <3>4, <4>3
      <4>4. CASE i = n + 1 /\ j \in 1..n
        BY <2>2, <3>4, <4>4
      <4>. QED  BY <3>1, <4>1, <4>2, <4>3, <4>4
    <3>6. ASSUME d.phase \in {"suspecting", "fencing"}, NEW i \in 1..n + 1, NEW e \in counted'[i]
          PROVE  log'[e[1]][e[2]].writer = 0
      <4>1. CASE i = n + 1
        <5>1. e \in RoundHanded
          BY <2>2, <4>1
        <5>. QED  BY <1>1, <2>3, <3>6, <5>1, HandedVotes
      <4>2. CASE i \in 1..n
        <5>1. ctl.phase \in {"steady", "suspecting"}
          BY <1>2, <1>11, <3>6 DEF RoundOf, Counts
        <5>2. ctl.phase = "suspecting"
          <6>1. n # 0
            BY <1>5, <4>2
          <6>2. ctl.phase = "steady" => n = 0
            BY DEF Counting
          <6>. QED  BY <5>1, <6>1, <6>2
        <5>3. e \in counted[i]
          BY <2>2, <4>2
        <5>. QED  BY <1>1, <4>2, <5>2, <5>3 DEF Streak
      <4>. QED  BY <3>1, <4>1, <4>2
    <3>. QED  BY <2>2, <3>2, <3>3, <3>5, <3>6 DEF Streak, Known, d
  <2>. QED  BY <1>9, <1>10, <2>2, <2>4, <2>5
<1>12. CASE ~Counts(d) /\ d.phase = ctl.phase /\ d.streak = ctl.streak
  <2>1. counted' = counted
    BY <1>1, <1>12 DEF StreakAfter
  <2>2. d.phase # "suspecting"
    BY <1>12 DEF Counts
  <2>3. Counting'
    <3>1. d.phase = "steady" => d.fails = 0
      BY <1>2 DEF RoundOf
    <3>. QED  BY <1>12, <2>1, <2>2, <3>1 DEF Counting, d
  <2>4. Streak'
    <3>1. \A i \in 1..n : \A e \in counted[i] : e[2] <= Len(log'[e[1]]) /\ e[2] <= served'[e[1]]
      BY <1>1, <1>8
    <3>. QED  BY <1>1, <1>12, <2>1, <3>1 DEF Streak, Known, d
  <2>. QED  BY <1>5, <1>9, <1>10, <2>1, <2>3, <2>4
<1>13. CASE ~Counts(d) /\ ~(d.phase = ctl.phase /\ d.streak = ctl.streak)
  <2>1. counted' = <<>>
    BY <1>1, <1>13 DEF StreakAfter
  <2>2. Len(counted') = 0 /\ counted' \in Seq(Evidence)
    BY <2>1, EmptySeq
  <2>3. d.phase \notin {"suspecting", "fencing"}
    <3>1. d.phase # "suspecting" /\ (d.phase = "fencing" => ctl.phase = "fencing")
      BY <1>13 DEF Counts
    <3>2. d.phase = "fencing" => d.streak = ctl.streak
      BY <1>2, <1>6, <3>1 DEF RoundOf
    <3>. QED  BY <1>13, <3>1, <3>2
  <2>4. d.phase = "promoted" => d.streak = 0
    <3>1. SUFFICES ASSUME d.phase = "promoted" PROVE d.streak = 0
      OBVIOUS
    <3>2. ~(d.streak > ctl.streak) /\ ~(ctl.phase = "promoted" /\ d.streak = ctl.streak)
      BY <1>13, <3>1 DEF Counts
    <3>3. \/ d.streak = 0
          \/ ctl.phase = "promoted" /\ d.streak = ctl.streak
          \/ d.streak = ctl.streak + 1
      BY <1>2, <3>1 DEF RoundOf
    <3>. QED  BY <1>6, <1>7, <3>2, <3>3
  <2>5. d.phase = "steady" => d.fails = 0 /\ d.streak = 0
    BY <1>2 DEF RoundOf
  <2>6. Counting'
    BY <1>7, <2>1, <2>2, <2>3, <2>4, <2>5 DEF Counting, d
  <2>7. Streak'
    BY <2>2 DEF Streak
  <2>. QED  BY <1>9, <1>10, <2>2, <2>6, <2>7
<1>. QED  BY <1>11, <1>12, <1>13

\* A streak outlives every step that only adds to the history.
LEMMA StreakLasts ==
  ASSUME Types, Streak, counted' = counted, served' = served, ctl'.phase = ctl.phase,
         \A m \in Members : /\ Len(log[m]) <= Len(log'[m]) /\ Len(log'[m]) \in Nat
                            /\ \A s \in 1..Len(log[m]) : log'[m][s] = log[m][s]
  PROVE  Streak'
<1>1. /\ Len(counted) \in Nat
      /\ \A i \in 1..Len(counted) : \A e \in counted[i] : e[1] \in Members /\ e[2] \in Nat \ {0}
  <2>1. Len(counted) \in Nat /\ \A i \in 1..Len(counted) : counted[i] \in Evidence
    BY LenProperties, ElementOfSeq DEF Types
  <2>. QED  BY <2>1 DEF Evidence
<1>2. ASSUME NEW i \in 1..Len(counted), NEW e \in counted[i]
      PROVE  /\ e[2] <= Len(log'[e[1]]) /\ e[2] <= served[e[1]]
             /\ log'[e[1]][e[2]] = log[e[1]][e[2]]
  <2>1. e[1] \in Members /\ e[2] \in Nat \ {0}
    BY <1>1
  <2>2. e[2] <= Len(log[e[1]]) /\ e[2] <= served[e[1]]
    BY DEF Streak, Known
  <2>3. Len(log[e[1]]) \in Nat
    BY <2>1, LenProperties DEF Types
  <2>4. e[2] \in 1..Len(log[e[1]])
    BY <2>1, <2>2, <2>3
  <2>. QED  BY <2>1, <2>2, <2>3, <2>4
<1>3. \A i \in 1..Len(counted) : \A e \in counted[i] : e[2] <= Len(log'[e[1]]) /\ e[2] <= served[e[1]]
  BY <1>2
<1>4. ctl.phase \in {"suspecting", "fencing"} =>
        \A i \in 1..Len(counted) : \A e \in counted[i] : log'[e[1]][e[2]].writer = 0
  BY <1>2 DEF Streak
<1>. QED  BY <1>3, <1>4 DEF Streak, Known

\* Nor does any step that leaves the checks and the histories alone disturb the counts.
LEMMA CountsLast ==
  ASSUME Types, Counting, Streak, UNCHANGED <<counted, served, ctl, log>>
  PROVE  Counting' /\ Streak'
<1>1. Counting'
  BY DEF Counting
<1>2. \A m \in Members : Len(log[m]) \in Nat
  BY LenProperties DEF Types
<1>3. Streak'
  BY <1>2, StreakLasts
<1>. QED  BY <1>1, <1>3

\* A controller that starts has counted nothing.
LEMMA Starts ==
  ASSUME NEW c \in StartingControllers
  PROVE  c \in Controllers /\ c.streak = 0 /\ c.fails = 0 /\ c.phase # "suspecting"
<1>1. PICK p \in Journaled : c = RestoreController(1, p)
  BY DEF StartingControllers
<1>2. CASE p.phase = "steady"
  BY <1>1, <1>2 DEF RestoreController, Steady, NoTime, Controllers
<1>3. CASE p.phase = "fencing"
  BY <1>1, <1>3 DEF RestoreController, InFencing, Steady, NoTime, Controllers
<1>4. CASE p.phase = "promoting" /\ p.new \in Nat \ {0}
  <2>1. c = InFencing(Steady(p.new - 1)) /\ p.new - 1 \in Nat
    BY <1>1, <1>4 DEF RestoreController
  <2>. QED  BY <2>1 DEF InFencing, Steady, NoTime, Controllers
<1>5. CASE /\ p.phase = "promoted" /\ p.new \in Nat \ {0}
           /\ p.reconciled \in BOOLEAN /\ p.rejoined \in BOOLEAN
  <2>. DEFINE b == InPromoted(Steady(p.new - 1), p.new)
  <2>1. c = [b EXCEPT !.reconciled = p.reconciled, !.rejoined = p.rejoined]
    BY <1>1, <1>5 DEF RestoreController
  <2>2. p.new - 1 \in Nat
    BY <1>5
  <2>3. b \in Controllers /\ b.phase = "promoted" /\ b.streak = 0 /\ b.fails = 0
    BY <1>5, <2>2 DEF InPromoted, Steady, NoTime, Controllers
  <2>. HIDE DEF b
  <2>. QED  BY <1>5, <2>1, <2>3 DEF Controllers
<1>. QED  BY <1>2, <1>3, <1>4, <1>5, JournaledAssumption

\* With nothing counted, the parts about the streak hold.
LEMMA StreakStarts ==
  ASSUME NEW c \in StartingControllers
  PROVE  /\ ctl = c /\ counted = <<>> => Counting /\ Streak
         /\ (ctl = c /\ counted = <<>>)' => Counting' /\ Streak'
<1>1. c.streak = 0 /\ c.fails = 0 /\ c.phase # "suspecting"
  BY Starts
<1>2. Len(<<>>) = 0
  BY EmptySeq
<1>3. ctl = c /\ counted = <<>> => Counting /\ Streak
  BY <1>1, <1>2 DEF Counting, Streak
<1>4. (ctl = c /\ counted = <<>>)' => Counting' /\ Streak'
  BY <1>1, <1>2 DEF Counting, Streak
<1>. QED  BY <1>3, <1>4

\* An empty journal is whole as long as its member has made no report.
LEMMA NothingYet ==
  /\ EmptyJournal \in JournalFile /\ <<>> \in Seq(Report)
  /\ \A t : Whole(EmptyJournal, <<>>, t) /\ \A m : Past(m, <<>>, t)
<1>1. <<>> \in Seq(Report) /\ Len(<<>>) = 0
  BY EmptySeq
<1>2. EmptyJournal.first = 1 /\ EmptyJournal.recs = <<>> /\ EmptyJournal \in JournalFile
  BY <1>1 DEF EmptyJournal, Journal, JournalFile
<1>. QED  BY <1>1, <1>2 DEF Whole, EndOf, Expired, Past

\* The invariant holds at the start.
LEMMA InitInv ==
  ASSUME ObservationInit PROVE ObservationInv
<1>1. PICK c \in StartingControllers : ctl = c
  BY DEF ObservationInit
<1>2. Types
  <2>1. c \in Controllers
    BY Starts
  <2>2. disk \in [Members -> JournalFile] /\ held \in [Members -> JournalFile] /\ log \in [Members -> Seq(Report)]
    BY NothingYet DEF ObservationInit
  <2>3. counted \in Seq(Evidence)
    BY EmptySeq DEF ObservationInit
  <2>. QED  BY <1>1, <2>1, <2>2, <2>3 DEF ObservationInit, Types
<1>3. Files /\ Memory
  BY NothingYet DEF ObservationInit, Files, Memory
<1>4. Counting /\ Streak
  BY <1>1, StreakStarts DEF ObservationInit
<1>. QED  BY <1>2, <1>3, <1>4 DEF ObservationInv

\* A member's report is one of the past.
LEMMA ReportMadeNow ==
  ASSUME Types, NEW m \in Members, NEW sight \in Sights[m]
  PROVE  /\ ReportMade(m, sight) \in Report
         /\ ReportMade(m, sight).member = m /\ ReportMade(m, sight).at <= now
<1>1. /\ sight.writer \in 0..MaxStoredEpoch /\ sight.facts \in SUBSET Fact /\ sight.lag \in Nat
      /\ now \in Nat
  BY SightAssumption DEF Types
<1>. DEFINE facts == IF sight.writer = 0 THEN sight.facts ELSE sight.facts \ {"stop"}
            at == now - sight.lag
<1>2. facts \in SUBSET Fact /\ at \in Int /\ at <= now
  BY <1>1
<1>3. ReportMade(m, sight) = [member |-> m, at |-> at, writer |-> sight.writer, facts |-> facts]
  BY DEF ReportMade, Observation
<1>. HIDE DEF facts, at
<1>. QED  BY <1>1, <1>2, <1>3 DEF Report

\* A durable report: appended to its file and its history, and to nothing else.
LEMMA MadeDurable ==
  ASSUME Types, Files, NEW m \in Members, NEW r \in Report, r.member = m, r.at <= now,
         disk' = [disk EXCEPT ![m].recs = Append(@, r)],
         log' = [log EXCEPT ![m] = Append(@, r)], now' = now
  PROVE  /\ disk' \in [Members -> JournalFile] /\ log' \in [Members -> Seq(Report)] /\ Files'
         /\ log'[m] = Append(log[m], r) /\ \A x \in Members : x # m => log'[x] = log[x]
         /\ \A x \in Members : /\ Len(log[x]) <= Len(log'[x]) /\ Len(log'[x]) \in Nat
                               /\ \A s \in 1..Len(log[x]) : log'[x][s] = log[x][s]
<1>1. /\ disk \in [Members -> JournalFile] /\ log \in [Members -> Seq(Report)] /\ now \in Int
      /\ \A x \in Members : Len(log[x]) \in Nat
  BY LenProperties DEF Types
<1>. DEFINE d == Journal(disk[m].first, Append(disk[m].recs, r))
<1>2. disk' = [disk EXCEPT ![m] = d]
  <2>1. disk[m] \in JournalFile
    BY <1>1
  <2>2. [disk[m] EXCEPT !.recs = Append(@, r)] = d
    <3>1. ASSUME NEW j \in JournalFile, NEW a
          PROVE  [j EXCEPT !.recs = a] = Journal(j.first, a)
      BY DEF JournalFile, Journal
    <3>. QED  BY <2>1, <3>1
  <2>. HIDE DEF d
  <2>. QED  BY <1>1, <2>2
<1>3. d \in JournalFile /\ Whole(d, Append(log[m], r), now)
  BY <1>1, Appended DEF Files
<1>. HIDE DEF d
<1>4. /\ Append(log[m], r) \in Seq(Report) /\ Len(Append(log[m], r)) = Len(log[m]) + 1
      /\ \A s \in 1..Len(log[m]) : Append(log[m], r)[s] = log[m][s]
      /\ Append(log[m], r)[Len(log[m]) + 1] = r
  BY <1>1, AppendProperties
<1>5. log'[m] = Append(log[m], r) /\ \A x \in Members : x # m => log'[x] = log[x]
  BY <1>1
<1>6. disk'[m] = d /\ \A x \in Members : x # m => disk'[x] = disk[x]
  BY <1>1, <1>2
<1>7. disk' \in [Members -> JournalFile] /\ log' \in [Members -> Seq(Report)]
  <2>1. disk' \in [Members -> JournalFile]
    BY <1>1, <1>2, <1>3
  <2>2. log' \in [Members -> Seq(Report)]
    BY <1>1, <1>4
  <2>. QED  BY <2>1, <2>2
<1>8. Past(m, Append(log[m], r), now)
  <2>1. SUFFICES ASSUME NEW s \in 1..Len(log[m]) + 1
                 PROVE  Append(log[m], r)[s].member = m /\ Append(log[m], r)[s].at <= now
    BY <1>4 DEF Past
  <2>2. s \in 1..Len(log[m]) \/ s = Len(log[m]) + 1
    BY <1>1
  <2>. QED  BY <1>4, <2>2 DEF Files, Past
<1>9. Files'
  <2>1. SUFFICES ASSUME NEW x \in Members PROVE Past(x, log'[x], now) /\ Whole(disk'[x], log'[x], now)
    BY DEF Files
  <2>2. CASE x = m
    BY <1>3, <1>5, <1>6, <1>8, <2>2
  <2>3. CASE x # m
    BY <1>5, <1>6, <2>3 DEF Files
  <2>. QED  BY <2>2, <2>3
<1>10. ASSUME NEW x \in Members
       PROVE  /\ Len(log[x]) <= Len(log'[x]) /\ Len(log'[x]) \in Nat
              /\ \A s \in 1..Len(log[x]) : log'[x][s] = log[x][s]
  <2>1. CASE x = m
    BY <1>1, <1>4, <1>5, <2>1
  <2>2. CASE x # m
    BY <1>1, <1>5, <2>2
  <2>. QED  BY <2>1, <2>2
<1>. QED  BY <1>5, <1>7, <1>9, <1>10

\* Recording and its failures.
LEMMA RecordInv ==
  ASSUME ObservationInv, NEW m \in Members, NEW sight \in Sights[m], Record(m, sight)
  PROVE  ObservationInv'
<1>. DEFINE r == ReportMade(m, sight)
            j == Journal(held[m].first, Append(held[m].recs, r))
<1>0. Types /\ Files /\ Memory /\ Counting /\ Streak
  BY DEF ObservationInv
<1>1. /\ mode = "open" /\ writing = Idle
      /\ disk' = [disk EXCEPT ![m].recs = Append(@, r)]
      /\ held' = [held EXCEPT ![m] = j]
      /\ log'  = [log EXCEPT ![m] = Append(@, r)]
      /\ writing' \in {Idle, [member |-> m, step |-> "journal"]}
      /\ UNCHANGED <<torn, mark, mode, loaded, served, ctl, now, faults, counted>>
  BY DEF Record, Ready, NextWrite
<1>2. r \in Report /\ r.member = m /\ r.at <= now
  BY <1>0, ReportMadeNow
<1>. HIDE DEF r
<1>3. /\ disk' \in [Members -> JournalFile] /\ log' \in [Members -> Seq(Report)] /\ Files'
      /\ log'[m] = Append(log[m], r) /\ \A x \in Members : x # m => log'[x] = log[x]
      /\ \A x \in Members : /\ Len(log[x]) <= Len(log'[x]) /\ Len(log'[x]) \in Nat
                            /\ \A s \in 1..Len(log[x]) : log'[x][s] = log[x][s]
  BY <1>0, <1>1, <1>2, MadeDurable
<1>4. held \in [Members -> JournalFile] /\ log \in [Members -> Seq(Report)] /\ now \in Int
  BY <1>0 DEF Types
<1>5. j \in JournalFile /\ Whole(j, log'[m], now)
  <2>1. Whole(held[m], log[m], now) /\ held[m] \in JournalFile /\ log[m] \in Seq(Report)
    BY <1>0, <1>1, <1>4 DEF Memory, InUse
  <2>. QED  BY <1>2, <1>3, <1>4, <2>1, Appended
<1>. HIDE DEF j
<1>6. Types'
  BY <1>0, <1>1, <1>3, <1>4, <1>5 DEF Types
<1>7. Memory'
  <2>1. ASSUME NEW x \in Members PROVE Whole(held'[x], log'[x], now)
    <3>1. CASE x = m
      BY <1>1, <1>4, <1>5, <3>1
    <3>2. CASE x # m
      BY <1>0, <1>1, <1>3, <1>4, <3>2 DEF Memory, InUse
    <3>. QED  BY <3>1, <3>2
  <2>. QED  BY <1>1, <2>1 DEF Memory, InUse
<1>8. Counting'
  BY <1>0, <1>1 DEF Counting
<1>9. Streak'
  BY <1>0, <1>1, <1>3, StreakLasts
<1>. QED  BY <1>3, <1>6, <1>7, <1>8, <1>9 DEF ObservationInv

\* The history keeps what is durable, whether or not the store learns that it is.
LEMMA RecordFailsInv ==
  ASSUME ObservationInv, NEW m \in Members, NEW sight \in Sights[m], RecordFails(m, sight)
  PROVE  ObservationInv'
<1>. DEFINE r == ReportMade(m, sight)
<1>0. Types /\ Files /\ Memory /\ Counting /\ Streak
  BY DEF ObservationInv
<1>1. /\ mode' = "failed" /\ writing = Idle
      /\ UNCHANGED <<mark, held, loaded, writing, served, ctl, now, counted>>
      /\ \/ UNCHANGED <<disk, log>>
         \/ /\ disk' = [disk EXCEPT ![m].recs = Append(@, r)]
            /\ log'  = [log EXCEPT ![m] = Append(@, r)]
  BY DEF RecordFails, Ready
<1>2. r \in Report /\ r.member = m /\ r.at <= now
  BY <1>0, ReportMadeNow
<1>. HIDE DEF r
<1>3. Memory'
  BY <1>1 DEF Memory, InUse
<1>4. Counting'
  BY <1>0, <1>1 DEF Counting
<1>5. CASE UNCHANGED <<disk, log>>
  <2>1. Types' /\ Files'
    BY <1>0, <1>1, <1>5 DEF Types, Files
  <2>2. Streak'
    BY <1>0, <1>1, <1>5, CountsLast
  <2>. QED  BY <1>3, <1>4, <2>1, <2>2 DEF ObservationInv
<1>6. CASE /\ disk' = [disk EXCEPT ![m].recs = Append(@, r)]
           /\ log'  = [log EXCEPT ![m] = Append(@, r)]
  <2>1. /\ disk' \in [Members -> JournalFile] /\ log' \in [Members -> Seq(Report)] /\ Files'
        /\ \A x \in Members : /\ Len(log[x]) <= Len(log'[x]) /\ Len(log'[x]) \in Nat
                              /\ \A s \in 1..Len(log[x]) : log'[x][s] = log[x][s]
    BY <1>0, <1>1, <1>2, <1>6, MadeDurable
  <2>2. Types'
    BY <1>0, <1>1, <2>1 DEF Types
  <2>3. Streak'
    BY <1>0, <1>1, <2>1, StreakLasts
  <2>. QED  BY <1>3, <1>4, <2>1, <2>2, <2>3 DEF ObservationInv
<1>. QED  BY <1>1, <1>5, <1>6

\* The two writes of a compaction.
LEMMA CompactInv ==
  ASSUME ObservationInv, NEW m \in Members, RewriteJournal(m) \/ WriteCheckpoint(m)
  PROVE  ObservationInv'
<1>. DEFINE d == Drop(held[m], Compactable(held[m].recs))
<1>0. Types /\ Files /\ Memory /\ Counting /\ Streak
  BY DEF ObservationInv
<1>1. /\ writing \in {[member |-> m, step |-> "journal"], [member |-> m, step |-> "checkpoint"]}
      /\ UNCHANGED <<mode, loaded, served, ctl, now, log, counted>>
      /\ \/ /\ disk' = [disk EXCEPT ![m] = d] /\ held' = held
            /\ writing' = [writing EXCEPT !.step = "checkpoint"]
         \/ disk' = disk /\ held' = [held EXCEPT ![m] = d] /\ writing' = Idle
  BY DEF RewriteJournal, WriteCheckpoint
<1>2. writing # Idle /\ writing.member = m
  BY <1>1 DEF Idle
<1>3. InUse(m) /\ Whole(held[m], log[m], now)
  BY <1>0, <1>2 DEF Memory
<1>4. /\ held \in [Members -> JournalFile] /\ disk \in [Members -> JournalFile]
      /\ log \in [Members -> Seq(Report)] /\ now \in Int
  BY <1>0 DEF Types
<1>5. d \in JournalFile /\ Whole(d, log[m], now)
  <2>1. Past(m, log[m], now) /\ held[m] \in JournalFile /\ log[m] \in Seq(Report)
    BY <1>0, <1>4 DEF Files
  <2>. QED  BY <1>3, <1>4, <2>1, Compacted
<1>. HIDE DEF d
<1>6. Counting' /\ Streak'
  BY <1>0, <1>1, CountsLast
<1>7. CASE /\ disk' = [disk EXCEPT ![m] = d] /\ held' = held
           /\ writing' = [writing EXCEPT !.step = "checkpoint"]
  <2>1. writing' = [member |-> m, step |-> "checkpoint"]
    BY <1>1, <1>7
  <2>2. Types'
    <3>1. writing' \in [member : Members, step : {"journal", "checkpoint"}]
      BY <2>1
    <3>2. disk' \in [Members -> JournalFile]
      BY <1>4, <1>5, <1>7
    <3>. QED  BY <1>0, <1>1, <1>7, <3>1, <3>2 DEF Types
  <2>3. Files'
    <3>1. \A x \in Members : disk'[x] = IF x = m THEN d ELSE disk[x]
      BY <1>4, <1>7
    <3>. QED  BY <1>0, <1>1, <1>5, <3>1 DEF Files
  <2>4. Memory'
    BY <1>0, <1>1, <1>3, <1>7, <2>1 DEF Memory, InUse
  <2>. QED  BY <1>6, <2>2, <2>3, <2>4 DEF ObservationInv
<1>8. CASE disk' = disk /\ held' = [held EXCEPT ![m] = d] /\ writing' = Idle
  <2>1. Types'
    BY <1>0, <1>1, <1>4, <1>5, <1>8 DEF Types
  <2>2. Files'
    BY <1>0, <1>1, <1>8 DEF Files
  <2>3. Memory'
    <3>1. \A x \in Members : held'[x] = IF x = m THEN d ELSE held[x]
      BY <1>4, <1>8
    <3>2. \A x \in Members : InUse(x)' <=> InUse(x)
      BY <1>1 DEF InUse
    <3>3. \A x \in Members : InUse(x)' => Whole(held'[x], log'[x], now')
      BY <1>0, <1>1, <1>5, <3>1, <3>2 DEF Memory
    <3>. QED  BY <1>8, <3>3 DEF Memory
  <2>. QED  BY <1>6, <2>1, <2>2, <2>3 DEF ObservationInv
<1>. QED  BY <1>1, <1>7, <1>8

\* Opening: what a journal's file holds is what memory holds.
LEMMA OpenJournalInv ==
  ASSUME ObservationInv, NEW m \in Members, OpenJournal(m)
  PROVE  ObservationInv'
<1>0. Types /\ Files /\ Memory /\ Counting /\ Streak
  BY DEF ObservationInv
<1>1. /\ mode = "opening" /\ writing = Idle
      /\ held' = [held EXCEPT ![m] = Journal(disk[m].first, disk[m].recs)]
      /\ writing' \in {Idle, [member |-> m, step |-> "journal"]}
      /\ loaded' = loaded \union {m}
      /\ UNCHANGED <<disk, torn, mark, mode, served, ctl, now, faults, log, counted>>
  BY DEF OpenJournal, NextWrite
<1>2. /\ held \in [Members -> JournalFile] /\ disk \in [Members -> JournalFile]
  BY <1>0 DEF Types
<1>3. Journal(disk[m].first, disk[m].recs) = disk[m]
  <2>1. disk[m] \in JournalFile
    BY <1>2
  <2>. QED  BY <2>1 DEF JournalFile, Journal
<1>4. \A x \in Members : held'[x] = IF x = m THEN disk[m] ELSE held[x]
  BY <1>1, <1>2, <1>3
<1>5. Types'
  <2>1. held' \in [Members -> JournalFile]
    BY <1>1, <1>2, <1>3
  <2>. QED  BY <1>0, <1>1, <2>1 DEF Types
<1>6. Files'
  BY <1>0, <1>1 DEF Files
<1>7. Memory'
  <2>1. \A x \in Members : InUse(x)' => x = m \/ InUse(x)
    BY <1>1 DEF InUse
  <2>2. \A x \in Members : InUse(x)' => Whole(held'[x], log'[x], now')
    BY <1>0, <1>1, <1>4, <2>1 DEF Memory, Files
  <2>3. InUse(m)'
    BY <1>1 DEF InUse
  <2>4. writing' # Idle => writing'.member = m
    BY <1>1
  <2>. QED  BY <2>2, <2>3, <2>4 DEF Memory
<1>8. Counting' /\ Streak'
  BY <1>0, <1>1, CountsLast
<1>. QED  BY <1>5, <1>6, <1>7, <1>8 DEF ObservationInv

\* The steps after which no journal is in use, or the same ones are.
LEMMA StopsInv ==
  ASSUME ObservationInv, WriteFails \/ Restart \/ Die \/ \E m \in Members : OpenRefused(m)
  PROVE  ObservationInv'
<1>0. Types /\ Files /\ Memory /\ Counting /\ Streak
  BY DEF ObservationInv
<1>1. UNCHANGED <<disk, served, ctl, now, log, counted>>
  BY DEF WriteFails, Restart, Die, OpenRefused
<1>2. \/ /\ mode' \in {"down", "failed", "refused"} /\ writing' = Idle
         /\ held' = held /\ loaded' = loaded
      \/ /\ mode' = "opening" /\ loaded' = {} /\ writing' = writing /\ mode \in {"down", "refused"}
         /\ held' = [m \in Members |-> EmptyJournal]
  <2>1. CASE WriteFails
    BY <2>1 DEF WriteFails
  <2>2. CASE Restart
    BY <2>2 DEF Restart
  <2>3. CASE Die
    BY <2>3 DEF Die
  <2>4. CASE \E m \in Members : OpenRefused(m)
    BY <2>4 DEF OpenRefused
  <2>. QED  BY <2>1, <2>2, <2>3, <2>4
<1>3. mode \in {"down", "refused"} => writing = Idle
  BY <1>0 DEF Memory, InUse
<1>4. Types'
  <2>1. held' \in [Members -> JournalFile] /\ loaded' \subseteq Members
    BY <1>0, <1>2, NothingYet DEF Types
  <2>2. writing' = Idle /\ mode' \in {"down", "opening", "open", "failed", "refused"}
    BY <1>2, <1>3
  <2>. QED  BY <1>0, <1>1, <2>1, <2>2 DEF Types
<1>5. Files'
  BY <1>0, <1>1 DEF Files
<1>6. Memory'
  BY <1>2, <1>3 DEF Memory, InUse
<1>7. Counting' /\ Streak'
  BY <1>0, <1>1, CountsLast
<1>. QED  BY <1>4, <1>5, <1>6, <1>7 DEF ObservationInv

\* The executor that starts on an opened store.
LEMMA OpenedInv ==
  ASSUME ObservationInv, Opened
  PROVE  ObservationInv'
<1>0. Types /\ Files /\ Memory /\ Counting /\ Streak
  BY DEF ObservationInv
<1>1. PICK c \in StartingControllers : ctl' = c
  BY DEF Opened
<1>2. Types'
  <2>1. c \in Controllers
    BY Starts
  <2>2. counted' \in Seq(Evidence)
    BY EmptySeq DEF Opened
  <2>. QED  BY <1>0, <1>1, <2>1, <2>2 DEF Types, Opened
<1>3. Files'
  BY <1>0 DEF Files, Opened
<1>4. Memory'
  BY <1>0 DEF Memory, InUse, Opened
<1>5. Counting' /\ Streak'
  BY <1>1, StreakStarts DEF Opened
<1>. QED  BY <1>2, <1>3, <1>4, <1>5 DEF ObservationInv

\* Time and the operator.
LEMMA ClockTickInv ==
  ASSUME ObservationInv, ClockTick
  PROVE  ObservationInv'
<1>0. Types /\ Files /\ Memory /\ Counting /\ Streak
  BY DEF ObservationInv
<1>1. now' = now + 1 /\ UNCHANGED <<disk, held, mode, loaded, writing, served, ctl, log, counted>>
  BY DEF ClockTick
<1>2. Types'
  BY <1>0, <1>1 DEF Types
<1>3. ASSUME NEW m \in Members
      PROVE  /\ disk[m] \in JournalFile /\ held[m] \in JournalFile /\ log[m] \in Seq(Report)
             /\ now \in Int
  BY <1>0 DEF Types
<1>4. Files'
  BY <1>0, <1>1, <1>3, TimePasses DEF Files
<1>5. Memory'
  <2>1. \A m \in Members : InUse(m)' => Whole(held'[m], log'[m], now')
    BY <1>0, <1>1, <1>3, TimePasses DEF Memory, InUse
  <2>. QED  BY <1>0, <1>1, <2>1 DEF Memory, InUse
<1>6. Counting' /\ Streak'
  BY <1>0, <1>1, CountsLast
<1>. QED  BY <1>2, <1>4, <1>5, <1>6 DEF ObservationInv

\* An operator's word changes no count.
LEMMA ReconcileInv ==
  ASSUME ObservationInv, Reconcile
  PROVE  ObservationInv'
<1>0. Types /\ Files /\ Memory /\ Counting /\ Streak
  BY DEF ObservationInv
<1>1. /\ ctl' = [ctl EXCEPT !.reconciled = TRUE]
      /\ UNCHANGED <<disk, held, mode, loaded, writing, served, now, log, counted>>
  BY DEF Reconcile
<1>2. /\ ctl' \in Controllers /\ ctl'.phase = ctl.phase /\ ctl'.fails = ctl.fails
      /\ ctl'.streak = ctl.streak
  <2>1. ctl \in Controllers
    BY <1>0 DEF Types
  <2>. QED  BY <1>1, <2>1 DEF Controllers
<1>3. Types'
  BY <1>0, <1>1, <1>2 DEF Types
<1>4. Files'
  BY <1>0, <1>1 DEF Files
<1>5. Memory'
  BY <1>0, <1>1 DEF Memory, InUse
<1>6. Counting'
  BY <1>0, <1>1, <1>2 DEF Counting
<1>7. \A m \in Members : Len(log[m]) \in Nat
  BY <1>0, LenProperties DEF Types
<1>8. Streak'
  BY <1>0, <1>1, <1>2, <1>7, StreakLasts
<1>. QED  BY <1>3, <1>4, <1>5, <1>6, <1>8 DEF ObservationInv

---------------------------------------------------------------------------
(* Theorems. *)

\* The journals, in memory and on disk, are the ends of their members' histories, and
\* the controller's counts are those of its streak, in every reachable state.
THEOREM ObservationInvariant == ObservationSpec => []ObservationInv
<1>1. ObservationInit => ObservationInv
  BY InitInv
<1>2. ObservationInv /\ [ObservationNext]_storeVars => ObservationInv'
  <2>1. SUFFICES ASSUME ObservationInv, [ObservationNext]_storeVars PROVE ObservationInv'
    OBVIOUS
  <2>2. CASE \E m \in Members : RewriteJournal(m) \/ WriteCheckpoint(m)
    BY <2>1, <2>2, CompactInv
  <2>3. CASE \E m \in Members : OpenJournal(m)
    BY <2>1, <2>3, OpenJournalInv
  <2>4. CASE WriteFails \/ Restart \/ Die \/ \E m \in Members : OpenRefused(m)
    BY <2>1, <2>4, StopsInv
  <2>5. CASE \E m \in Members : \E sight \in Sights[m] : Record(m, sight)
    BY <2>1, <2>5, RecordInv
  <2>6. CASE \E m \in Members : \E sight \in Sights[m] : RecordFails(m, sight)
    BY <2>1, <2>6, RecordFailsInv
  <2>7. CASE Opened
    BY <2>1, <2>7, OpenedInv
  <2>8. CASE Collect
    BY <2>1, <2>8, CollectInv
  <2>9. CASE Reconcile
    BY <2>1, <2>9, ReconcileInv
  <2>10. CASE ClockTick
    BY <2>1, <2>10, ClockTickInv
  <2>11. CASE UNCHANGED storeVars
    <3>1. UNCHANGED <<disk, held, mode, loaded, writing, served, ctl, now, log, counted>>
      BY <2>11 DEF storeVars
    <3>2. Types /\ Files /\ Memory /\ Counting /\ Streak
      BY <2>1 DEF ObservationInv
    <3>3. Types' /\ Files' /\ Memory'
      BY <3>1, <3>2 DEF Types, Files, Memory, InUse
    <3>4. Counting' /\ Streak'
      BY <3>1, <3>2, CountsLast
    <3>. QED  BY <3>3, <3>4 DEF ObservationInv
  <2>. QED
    BY <2>1, <2>2, <2>3, <2>4, <2>5, <2>6, <2>7, <2>8, <2>9, <2>10, <2>11 DEF ObservationNext
<1>. QED  BY <1>1, <1>2, PTL DEF ObservationSpec

\* However compactions, failed writes, deaths and reopenings interleave, an open store
\* holds every durable report that is still fresh, under its own sequence.
THEOREM FreshReportsKept == ObservationSpec => []NothingFreshDropped
<1>1. ObservationInv => NothingFreshDropped
  <2>1. SUFFICES ASSUME ObservationInv, Ready, NEW m \in Members, NEW s \in DOMAIN log[m],
                        Fresh(log[m][s].at, now)
                 PROVE  /\ s >= held[m].first
                        /\ s - held[m].first + 1 <= Len(held[m].recs)
                        /\ held[m].recs[s - held[m].first + 1] = log[m][s]
    BY DEF NothingFreshDropped
  <2>2. /\ log[m] \in Seq(Report) /\ held[m] \in JournalFile /\ now \in Nat
        /\ Whole(held[m], log[m], now)
    BY <2>1 DEF ObservationInv, Types, Memory, InUse, Ready
  <2>. DEFINE f == held[m].first
              n == Len(held[m].recs)
              k == Len(log[m])
  <2>3. /\ f \in Nat \ {0} /\ n \in Nat /\ k \in Nat /\ s \in 1..k
        /\ log[m][s] \in Report
    BY <2>1, <2>2, LenProperties, ElementOfSeq DEF JournalFile
  <2>4. /\ f + n = k + 1 /\ \A i \in 1..n : held[m].recs[i] = log[m][f + i - 1]
        /\ s < f => log[m][s].at + Freshness < now
    BY <2>2, <2>3 DEF Whole, EndOf, Expired
  <2>5. log[m][s].at \in Int
    BY <2>3 DEF Report
  <2>6. ~(s < f)
    BY <2>1, <2>2, <2>4, <2>5, QuorumAssumption DEF Fresh
  <2>. HIDE DEF f, n, k
  <2>7. s >= f /\ s - f + 1 \in 1..n /\ s - f + 1 <= n /\ f + (s - f + 1) - 1 = s
    BY <2>3, <2>4, <2>6
  <2>8. held[m].recs[s - f + 1] = log[m][s]
    BY <2>4, <2>7
  <2>. QED  BY <2>7, <2>8 DEF f, n
<1>. QED  BY <1>1, ObservationInvariant, PTL

\* Each check that a controller counts towards a fence or a rejoin rests on reports of a
\* majority that it counts in no other check of the streak, and a suspicion on none that
\* saw the writer.
THEOREM StreaksAreNew == ObservationSpec => []StreakOfNewReports
<1>1. ObservationInv => StreakOfNewReports
  <2>1. SUFFICES ASSUME ObservationInv PROVE StreakOfNewReports
    OBVIOUS
  <2>2. DOMAIN counted = 1..Len(counted)
    BY <2>1, LenProperties DEF ObservationInv, Types
  <2>3. Counting /\ Streak
    BY <2>1 DEF ObservationInv
  <2>. QED  BY <2>2, <2>3 DEF Counting, Streak, StreakOfNewReports
<1>. QED  BY <1>1, ObservationInvariant, PTL

=============================================================================
