-------------------------- MODULE CollectionProofs --------------------------
(***************************************************************************)
(* What holds of the collection of a site's log for every log, every table *)
(* of bindings, every number of collectors and every overlap: charges rest *)
(* on records, the watermark only passes what was read, no record is       *)
(* skipped, a quarantine keeps showing, and punctual facts reach the       *)
(* minute tables.                                                          *)
(***************************************************************************)
EXTENDS Collection, FiniteSetTheorems, SequenceTheorems, WellFoundedInduction, TLAPS

(***************************************************************************)
(* Numbers: a finite set of them has a greatest one.                       *)
(***************************************************************************)
\* How many members of S are smaller than x; it orders S like its numbers.
Rank(S, x) == Cardinality({y \in S : y < x})

LEMMA RankIsBounded ==
    ASSUME NEW S \in SUBSET Nat, IsFiniteSet(S), NEW x \in S
    PROVE  Rank(S, x) \in Nat /\ Rank(S, x) <= Cardinality(S) /\ Cardinality(S) \in Nat
<1>1. {y \in S : y < x} \in SUBSET S
  OBVIOUS
<1> QED
  BY <1>1, FS_Subset, FS_CardinalityType DEF Rank

LEMMA RankGrows ==
    ASSUME NEW S \in SUBSET Nat, IsFiniteSet(S), NEW x \in S, NEW y \in S, x < y
    PROVE  Rank(S, x) < Rank(S, y)
<1> DEFINE below == {z \in S : z < x}
<1> DEFINE above == {z \in S : z < y}
<1>1. below \in SUBSET above /\ x \in above /\ x \notin below
  <2>1. x \in Nat /\ y \in Nat /\ S \subseteq Nat
    OBVIOUS
  <2>2. \A z \in S : z < x => z < y
    BY <2>1
  <2>3. ~(x < x)
    BY <2>1
  <2> QED
    BY <2>2, <2>3
<1>2. above \in SUBSET S
  OBVIOUS
<1> HIDE DEF below, above
<1>3. IsFiniteSet(above)
  BY <1>2, FS_Subset
<1>4. /\ Cardinality(below) <= Cardinality(above)
      /\ Cardinality(below) = Cardinality(above) => above = below
  BY <1>1, <1>3, FS_Subset
<1>5. Cardinality(below) \in Nat /\ Cardinality(above) \in Nat
  BY <1>1, <1>3, FS_Subset, FS_CardinalityType
<1>6. Cardinality(below) < Cardinality(above)
  BY <1>1, <1>4, <1>5
<1> QED
  BY <1>6 DEF Rank, below, above

\* Max returns the greatest member of a finite set.
LEMMA MaxIsGreatest ==
    ASSUME NEW S \in SUBSET Nat, IsFiniteSet(S), S # {}
    PROVE  Max(S) \in S /\ \A y \in S : y <= Max(S)
<1> DEFINE gap[x \in S] == Cardinality(S) - Rank(S, x)
<1> DEFINE gaps == {gap[x] : x \in S}
<1>1. \A x \in S : gap[x] = Cardinality(S) - Rank(S, x)
  OBVIOUS
<1> HIDE DEF gap
<1>2. \A x \in S : gap[x] \in Nat
  BY <1>1, RankIsBounded
<1>3. gaps \subseteq Nat /\ gaps # {}
  BY <1>2
<1>4. PICK g \in gaps : \A h \in gaps : <<h, g>> \notin OpToRel(<, Nat)
  BY <1>3, WFMin, NatLessThanWellFounded, Zenon
<1>5. \A h \in gaps : ~(h < g)
  BY <1>3, <1>4, Zenon DEF OpToRel
<1>6. PICK m \in S : g = gap[m]
  BY <1>4
<1>7. ASSUME NEW y \in S
      PROVE  y <= m
  <2>1. SUFFICES ASSUME m < y PROVE FALSE
    BY <1>6
  <2>2. Rank(S, m) < Rank(S, y)
    BY <1>6, <2>1, RankGrows
  <2>3. gap[y] < gap[m]
    <3>1. Rank(S, m) \in Nat /\ Rank(S, y) \in Nat /\ Cardinality(S) \in Nat
      BY <1>6, RankIsBounded
    <3>2. gap[m] = Cardinality(S) - Rank(S, m) /\ gap[y] = Cardinality(S) - Rank(S, y)
      BY <1>1, <1>6
    <3> QED
      BY <2>2, <3>1, <3>2
  <2>4. gap[y] \in gaps
    OBVIOUS
  <2> QED
    BY <1>5, <1>6, <2>3, <2>4
<1>8. \E x \in S : \A y \in S : x >= y
  BY <1>6, <1>7
<1>9. Max(S) \in S /\ \A y \in S : Max(S) >= y
  BY <1>8, Zenon DEF Max
<1> QED
  BY <1>9

(***************************************************************************)
(* The order of the records: two different ones are never level, and a set *)
(* of records has a last one.                                              *)
(***************************************************************************)
LEMMA LogTypes ==
    \A l \in Logs : /\ l \in Nat \ {None}
                    /\ Log[l] \in LogRecord
                    /\ Log[l].at \in Nat \ {0}
                    /\ Log[l].type \in {"error", "consume"}
                    /\ Log[l].use \in Seq(Nat)
                    /\ Log[l].channel \in Nat
                    /\ Log[l].valid \in BOOLEAN
  BY LogsAssumption DEF LogRecord

LEMMA OlderIsAnOrder ==
    ASSUME NEW l \in Logs, NEW m \in Logs, NEW n \in Logs
    PROVE  /\ ~Older(l, l)
           /\ l # m => Older(l, m) \/ Older(m, l)
           /\ Older(l, m) /\ Older(m, n) => Older(l, n)
  BY LogTypes DEF Older

LEMMA PositionGrows ==
    ASSUME NEW l \in Logs, NEW m \in Logs, Older(l, m)
    PROVE  Position[l] < Position[m]
<1> DEFINE before == {x \in Logs : Older(x, l)}
<1> DEFINE after == {x \in Logs : Older(x, m)}
<1>1. before \in SUBSET after /\ l \in after /\ l \notin before
  BY OlderIsAnOrder
<1>2. Position[l] = 1 + Cardinality(before) /\ Position[m] = 1 + Cardinality(after)
  BY DEF Position
<1>3. after \in SUBSET Logs
  OBVIOUS
<1> HIDE DEF before, after
<1>4. IsFiniteSet(after)
  BY <1>3, LogsAssumption, FS_Subset
<1>5. /\ Cardinality(before) <= Cardinality(after)
      /\ Cardinality(before) = Cardinality(after) => after = before
  BY <1>1, <1>4, FS_Subset
<1>6. Cardinality(before) \in Nat /\ Cardinality(after) \in Nat
  BY <1>1, <1>4, FS_Subset, FS_CardinalityType
<1> QED
  BY <1>1, <1>2, <1>5, <1>6

LEMMA PositionType ==
    ASSUME NEW l \in Logs
    PROVE  Position[l] \in Nat
<1>1. {m \in Logs : Older(m, l)} \in SUBSET Logs
  OBVIOUS
<1>2. Cardinality({m \in Logs : Older(m, l)}) \in Nat
  BY <1>1, LogsAssumption, FS_Subset, FS_CardinalityType
<1> QED
  BY <1>2 DEF Position

\* The image of a finite set under a function is finite.
LEMMA ImageIsFinite ==
    ASSUME NEW S, IsFiniteSet(S), NEW f, DOMAIN f = S, f = [x \in S |-> f[x]]
    PROVE  IsFiniteSet({f[x] : x \in S})
<1> DEFINE T == {f[x] : x \in S}
<1>1. f \in Surjection(S, T)
  BY DEF Surjection
<1> QED
  BY <1>1, FS_Surjection

\* The terminal record of a request is one of its records, and every other is older.
LEMMA TerminalIsLast ==
    ASSUME NEW records \in SUBSET Logs, records # {}
    PROVE  /\ Terminal(records) \in records
           /\ \A m \in records \ {Terminal(records)} : Older(m, Terminal(records))
<1> DEFINE place == [l \in records |-> Position[l]]
<1> DEFINE places == {place[l] : l \in records}
<1>1. IsFiniteSet(records)
  BY LogsAssumption, FS_Subset
<1>2. \A l \in records : place[l] = Position[l] /\ place[l] \in Nat
  BY PositionType
<1>3. DOMAIN place = records /\ place = [l \in records |-> place[l]]
  OBVIOUS
<1> HIDE DEF place
<1>4. IsFiniteSet(places)
  BY <1>1, <1>3, ImageIsFinite
<1>5. places \in SUBSET Nat /\ places # {}
  BY <1>2
<1>6. Max(places) \in places /\ \A y \in places : y <= Max(places)
  BY <1>4, <1>5, MaxIsGreatest
<1>7. PICK t \in records : place[t] = Max(places)
  BY <1>6
<1>8. ASSUME NEW m \in records \ {t}
      PROVE  Older(m, t)
  <2>1. SUFFICES ASSUME Older(t, m) PROVE FALSE
    BY OlderIsAnOrder
  <2>2. Position[t] < Position[m]
    BY <2>1, PositionGrows
  <2>3. place[m] <= place[t]
    BY <1>6, <1>7
  <2> QED
    BY <1>2, <2>2, <2>3
<1>9. \E t_1 \in records : \A m \in records \ {t_1} : Older(m, t_1)
  BY <1>8
<1> QED
  BY <1>9, Zenon DEF Terminal

(***************************************************************************)
(* The chain of a request ends with the channel of its terminal record;    *)
(* every attempt rests on a record of the request or on none, and no two   *)
(* attempts rest on the same one.                                          *)
(***************************************************************************)
LEMMA ChainType ==
    ASSUME NEW records \in SUBSET Logs, records # {}
    PROVE  /\ Chain(records) \in Seq(Nat)
           /\ Len(Chain(records)) \in Nat \ {0}
           /\ Chain(records)[Len(Chain(records))] = Log[Terminal(records)].channel
<1> DEFINE length == [l \in records |-> Len(Log[l].use)]
<1> DEFINE lengths == {length[l] : l \in records}
<1> DEFINE longest == Max({Len(Log[l].use) : l \in records})
<1> DEFINE used == Log[Terminal({l \in records : Len(Log[l].use) = longest})].use
<1> DEFINE last == Log[Terminal(records)].channel
<1>1. \A l \in records : length[l] = Len(Log[l].use) /\ length[l] \in Nat
  BY LogTypes, LenProperties
<1>2. lengths = {Len(Log[l].use) : l \in records}
  BY <1>1
<1>3. DOMAIN length = records /\ length = [l \in records |-> length[l]]
  OBVIOUS
<1>4. IsFiniteSet(records)
  BY LogsAssumption, FS_Subset
<1> HIDE DEF length
<1>5. IsFiniteSet(lengths)
  BY <1>3, <1>4, ImageIsFinite
<1>6. lengths \in SUBSET Nat /\ lengths # {}
  BY <1>1
<1>7. Max(lengths) \in lengths
  BY <1>5, <1>6, MaxIsGreatest
<1>8. {l \in records : Len(Log[l].use) = longest} # {}
  BY <1>1, <1>2, <1>7
<1>9. Terminal({l \in records : Len(Log[l].use) = longest}) \in records
  BY <1>8, TerminalIsLast
<1>10. used \in Seq(Nat)
  BY <1>9, LogTypes
<1>11. last \in Nat
  BY LogTypes, TerminalIsLast
<1>12. Chain(records) = IF used # <<>> /\ used[Len(used)] = last THEN used ELSE Append(used, last)
  BY DEF Chain
<1> HIDE DEF used, last
<1>13. CASE used # <<>> /\ used[Len(used)] = last
  <2>1. Chain(records) = used
    BY <1>12, <1>13
  <2>2. Len(used) \in Nat \ {0}
    BY <1>10, <1>13, EmptySeq, LenProperties
  <2> QED
    BY <1>10, <1>13, <2>1, <2>2 DEF last
<1>14. CASE ~(used # <<>> /\ used[Len(used)] = last)
  <2>1. Chain(records) = Append(used, last)
    BY <1>12, <1>14
  <2>2. /\ Append(used, last) \in Seq(Nat)
        /\ Len(Append(used, last)) = Len(used) + 1
        /\ Append(used, last)[Len(used) + 1] = last
    BY <1>10, <1>11, AppendProperties
  <2>3. Len(used) \in Nat
    BY <1>10, LenProperties
  <2> QED
    BY <2>1, <2>2, <2>3 DEF last
<1> QED
  BY <1>13, <1>14

LEMMA EvidenceIsOfTheRequest ==
    ASSUME NEW records \in SUBSET Logs, records # {}, NEW i \in 1..Len(Chain(records)),
           NEW l \in EvidenceFor(records, Chain(records), i)
    PROVE  /\ l \in records
           /\ Log[l].channel = Chain(records)[i]
           /\ i = Len(Chain(records)) => l = Terminal(records)
           /\ i # Len(Chain(records)) => Failed(l) /\ l # Terminal(records)
<1>1. CASE i = Len(Chain(records))
  BY <1>1, ChainType, TerminalIsLast DEF EvidenceFor
<1>2. CASE i # Len(Chain(records))
  BY <1>2 DEF EvidenceFor, FailureFor
<1> QED
  BY <1>1, <1>2

\* How many of the first attempts of a chain were on the channel of its i-th.
Turn(chain, i) == Cardinality({j \in 1..i : chain[j] = chain[i]})

LEMMA TurnsGrow ==
    ASSUME NEW chain, NEW i \in Nat, NEW j \in Nat, i < j, chain[i] = chain[j]
    PROVE  Turn(chain, i) # Turn(chain, j)
<1> DEFINE before == {k \in 1..i : chain[k] = chain[i]}
<1> DEFINE after == {k \in 1..j : chain[k] = chain[j]}
<1>1. j \in 1..j \/ j = 0
  OBVIOUS
<1>2. before \in SUBSET after /\ j \in after /\ j \notin before
  BY <1>1
<1>3. after \in SUBSET (1..j)
  OBVIOUS
<1> HIDE DEF before, after
<1>4. IsFiniteSet(after)
  <2>1. 1 \in Int /\ j \in Int
    OBVIOUS
  <2>2. IsFiniteSet(1..j)
    BY <2>1, FS_Interval
  <2> QED
    BY <1>3, <2>2, FS_Subset
<1>5. Cardinality(before) # Cardinality(after)
  BY <1>2, <1>4, FS_Subset
<1> QED
  BY <1>5 DEF Turn, before, after

LEMMA EvidenceIsDistinct ==
    ASSUME NEW records \in SUBSET Logs, records # {},
           NEW i \in 1..Len(Chain(records)), NEW j \in 1..Len(Chain(records)), i < j
    PROVE  EvidenceFor(records, Chain(records), i) \cap EvidenceFor(records, Chain(records), j) = {}
<1> DEFINE chain == Chain(records)
<1> SUFFICES ASSUME NEW l \in EvidenceFor(records, chain, i), l \in EvidenceFor(records, chain, j)
             PROVE  FALSE
  OBVIOUS
<1>1. Len(chain) \in Nat
  BY ChainType
<1>2. i # Len(chain)
  BY <1>1
<1>3. j # Len(chain)
  BY <1>2, EvidenceIsOfTheRequest
<1>4. chain[i] = chain[j]
  BY EvidenceIsOfTheRequest
<1> DEFINE failures == {m \in records \ {Terminal(records)} : Failed(m) /\ Log[m].channel = chain[i]}
<1> HIDE DEF chain
<1>5. l \in FailureFor(records, chain, i) /\ l \in FailureFor(records, chain, j)
  BY <1>2, <1>3 DEF EvidenceFor, chain
<1>6. Cardinality({m \in failures : Older(m, l)}) = Turn(chain, i) - 1
  BY <1>5 DEF FailureFor, Turn
<1>7. Cardinality({m \in failures : Older(m, l)}) = Turn(chain, j) - 1
  BY <1>4, <1>5 DEF FailureFor, Turn
<1>8. Turn(chain, i) \in Nat /\ Turn(chain, j) \in Nat
  <2>1. {k \in 1..i : chain[k] = chain[i]} \in SUBSET (1..i) /\ {k \in 1..j : chain[k] = chain[j]} \in SUBSET (1..j)
    OBVIOUS
  <2> QED
    <3>1. 1 \in Int /\ i \in Int /\ j \in Int
      BY <1>1 DEF chain
    <3>2. IsFiniteSet(1..i) /\ IsFiniteSet(1..j)
      BY <3>1, FS_Interval
    <3> QED
      BY <2>1, <3>2, FS_Subset, FS_CardinalityType DEF Turn
<1> QED
  BY <1>4, <1>6, <1>7, <1>8, TurnsGrow

\* What an account says of each of its attempts.
LEMMA AttemptsRestOnRecords ==
    ASSUME NEW records \in SUBSET Logs, records # {}, NEW i \in DOMAIN Attempts(records)
    PROVE  /\ i \in 1..Len(Chain(records))
           /\ LET evidence == EvidenceFor(records, Chain(records), i)
                  attempt == Attempts(records)[i]
              IN \/ /\ evidence = {} /\ attempt.log = None
                    /\ attempt.supplier = None /\ attempt.fault = "unknown"
                 \/ \E l \in evidence : attempt = Observed(Log[l].channel, l)
<1> DEFINE chain == Chain(records)
<1> DEFINE evidence == EvidenceFor(records, chain, i)
<1>1. DOMAIN Attempts(records) = 1..Len(chain)
  BY DEF Attempts, AttemptsOf
<1>2. Attempts(records)[i] = AttemptOn(chain[i], evidence, Log[Terminal(records)].at)
  BY <1>1 DEF Attempts, AttemptsOf
<1>3. CASE evidence = {}
  BY <1>1, <1>2, <1>3 DEF AttemptOn, Unobserved
<1>4. CASE evidence # {}
  <2>1. PICK l \in evidence : Attempts(records)[i] = Observed(chain[i], l)
    BY <1>2, <1>4 DEF AttemptOn
  <2>2. Log[l].channel = chain[i]
    BY <1>1, EvidenceIsOfTheRequest
  <2> QED
    BY <1>1, <2>1, <2>2
<1> QED
  BY <1>3, <1>4

-----------------------------------------------------------------------------
(* The inductive invariant.                                                  *)

\* Only the records of the last Delay seconds may still be missing from the gateway.
SourceInv ==
    /\ now \in Nat /\ Lookback < now /\ now <= MaxTime
    /\ visible \subseteq Expected
    /\ \A l \in visible : Log[l].at <= now
    /\ \A l \in Expected \ visible : now <= Log[l].at + Delay

Windows == [from : Nat, upto : Nat]
Readers == [pc : {"idle", "started", "reading", "saving"}, started : Nat, event : Nat,
            scanned : Nat, lower : Int, todo : Seq(Windows), logs : SUBSET Logs]

\* The windows of a collection follow one another up to its start.
Contiguous(todo, started) ==
    /\ todo # <<>>
    /\ \A i \in 1..Len(todo) : /\ todo[i].from <= todo[i].upto
                               /\ 0 < todo[i].upto /\ todo[i].upto <= started
                               /\ i # 1 => todo[i].from = todo[i - 1].upto

\* A collection continues at its watermark, and reads back from it by the overlap unless
\* there was none.
Continues(row) ==
    /\ row.todo[1].from = IF row.scanned = 0 THEN row.lower - 1 ELSE row.scanned
    /\ \/ row.lower = row.started - Lookback
       \/ row.scanned # 0 /\ row.lower <= row.scanned - Overlap

\* What a collection holds of its window once it has read it.
Complete(row, expected) ==
    \A l \in expected :
        /\ row.todo[1].from - Overlap < Log[l].at
        /\ row.lower <= Log[l].at
        /\ Log[l].at <= row.todo[1].upto - Overlap
        => l \in row.logs

CursorInv == cursor \in [event : Nat, scanned : Nat, gap : BOOLEAN]

\* A collection at some time, of the records that are expected and those that are seen.
Reading(row, expected, seen, time, alone) ==
    /\ row.logs \subseteq seen
    /\ row.pc # "idle" => Lookback < row.started /\ row.started <= time
    /\ row.pc \in {"reading", "saving"} => Contiguous(row.todo, row.started) /\ Continues(row)
    /\ row.pc = "saving" => alone \/ Complete(row, expected)
ReadInv ==
    /\ readAlone \in BOOLEAN
    /\ collector \in [Collectors -> Readers]
    /\ \A c \in Collectors : Reading(collector[c], Expected, visible, now, readAlone)

Accounts == {Account(records) : records \in (SUBSET Logs) \ {{}}}
Revisions == [account : Accounts, saved : Nat]

\* An account was made from visible, usable records of its request, not of the future.
Grounded(r, revision, seen, time) ==
    /\ revision.saved <= time
    /\ \E records \in (SUBSET seen) \ {{}} :
          /\ revision.account = Account(records)
          /\ \A l \in records : Log[l].request = r /\ Log[l].valid /\ Log[l].at <= revision.saved
FactInv ==
    /\ revisions \in [Requests -> Seq(Revisions)]
    /\ \A r \in Requests : \A i \in 1..Len(revisions[r]) : Grounded(r, revisions[r][i], visible, now)

CountInv ==
    /\ through \in Nat /\ through <= now
    /\ counted = [m \in 1..MaxTime |-> counted[m]]

CollectionInv == SourceInv /\ CursorInv /\ ReadInv /\ FactInv /\ CountInv

\* Each step of the watermark is the commit of a window by a collection, which had read every
\* record that no later collection can reach any more, back to the first second it may read;
\* that second is the overlap before the watermark, unless the collection looked back from its
\* start because there was no watermark (Collector.collect, scanWindow and loadWindow; the
\* compare-and-swap of CommitCollectionWindow).
WatermarkFollowsReading ==
    [][cursor'.scanned # cursor.scanned =>
          \E c \in Collectors :
             /\ \/ collector[c].lower = collector[c].started - Lookback
                \/ collector[c].lower <= cursor.scanned - Overlap
             /\ cursor.scanned <= cursor'.scanned
             /\ readAlone \/ \A l \in Expected :
                   /\ cursor.scanned - Overlap < Log[l].at
                   /\ collector[c].lower <= Log[l].at
                   /\ Log[l].at <= cursor'.scanned - Overlap
                   => l \in collector[c].logs]_vars

-----------------------------------------------------------------------------
(* The steps.                                                                *)

\* What every way to end a collection before its end does.
Stops(c) ==
    /\ cursor' = cursor \/ cursor' = [cursor EXCEPT !.gap = TRUE]
    /\ collector' = [collector EXCEPT ![c] = Idle]
    /\ UNCHANGED <<now, sourceVars, factVars, passes, metricVars, readAlone>>

LEMMA StepKinds ==
    ASSUME [Next]_vars
    PROVE  \/ Tick \/ Refresh \/ UNCHANGED vars
           \/ \E l \in Logs : Publish(l)
           \/ \E c \in Collectors : \/ Start(c) \/ Load(c) \/ Read(c) \/ Split(c)
                                    \/ ReadSecond(c) \/ Save(c) \/ Stops(c)
<1>1. \A c \in Collectors : WatermarkAhead(c) => Stops(c)
  BY DEF WatermarkAhead, MarkFailure, Stops
<1>2. \A c \in Collectors : SecondTooFull(c) => Stops(c)
  BY DEF SecondTooFull, MarkFailure, Stops
<1>3. \A c \in Collectors : SaveRefused(c) => Stops(c)
  BY DEF SaveRefused, MarkFailure, Stops
<1>4. \A c \in Collectors : Fail(c) => Stops(c)
  BY DEF Fail, MarkFailure, Stops
<1>5. \A c \in Collectors : Die(c) => Stops(c)
  BY DEF Die, Stops
<1> QED
  BY <1>1, <1>2, <1>3, <1>4, <1>5, Zenon DEF Next

\* Nothing is forgotten: the requests of a behaviour, what the gateway shows, time.
LEMMA SourcesGrow ==
    ASSUME SourceInv, [Next]_vars
    PROVE  SourceInv' /\ Expected' = Expected /\ visible \subseteq visible' /\ now <= now'
<1>1. CASE Tick
  <2>1. /\ now' = now + 1 /\ now < MaxTime /\ UNCHANGED <<traffic, visible>>
        /\ \A l \in Expected \ visible : now < Log[l].at + Delay
    BY <1>1 DEF Tick, sourceVars
  <2>2. Expected' = Expected
    BY <2>1 DEF Expected
  <2>3. \A l \in Logs : Log[l].at \in Nat
    BY LogTypes
  <2>4. Expected \subseteq Logs
    BY DEF Expected
  <2>5. MaxTime \in Nat /\ Lookback \in Nat /\ Delay \in Nat
    BY BoundsAssumption
  <2> QED
    BY <2>1, <2>2, <2>3, <2>4, <2>5 DEF SourceInv
<1>2. CASE \E l \in Logs : Publish(l)
  <2>1. PICK l \in Logs : Publish(l)
    BY <1>2
  <2>2. /\ UNCHANGED <<now, traffic>> /\ visible' = visible \cup {l}
        /\ l \in Expected /\ Log[l].at <= now
    BY <2>1 DEF Publish
  <2>3. Expected' = Expected
    BY <2>2 DEF Expected
  <2> QED
    BY <2>2, <2>3 DEF SourceInv
<1>3. CASE UNCHANGED <<now, traffic, visible>>
  <2>1. Expected' = Expected
    BY <1>3 DEF Expected
  <2> QED
    BY <1>3, <2>1 DEF SourceInv
<1>4. Tick \/ (\E l \in Logs : Publish(l)) \/ UNCHANGED <<now, traffic, visible>>
  BY StepKinds DEF Refresh, Start, Load, Read, Split, ReadSecond, Save, Stops, vars, sourceVars
<1> QED
  BY <1>1, <1>2, <1>3, <1>4

-----------------------------------------------------------------------------
(* The rows of the collectors.                                               *)

\* A row with its seven fields, and what it is after some of them are rewritten.
Row(pc, started, event, scanned, lower, todo, logs) ==
    [pc |-> pc, started |-> started, event |-> event, scanned |-> scanned, lower |-> lower,
     todo |-> todo, logs |-> logs]

LEMMA RowOf ==
    ASSUME NEW row \in Readers
    PROVE  row = Row(row.pc, row.started, row.event, row.scanned, row.lower, row.todo, row.logs)
  BY Z3 DEF Readers, Row

LEMMA StartedRow ==
    ASSUME NEW row \in Readers, NEW place, NEW start
    PROVE  [row EXCEPT !.pc = place, !.started = start] =
               Row(place, start, row.event, row.scanned, row.lower, row.todo, row.logs)
<1>0. row = Row(row.pc, row.started, row.event, row.scanned, row.lower, row.todo, row.logs)
  BY RowOf
<1>1a. [Row(row.pc, row.started, row.event, row.scanned, row.lower, row.todo, row.logs) EXCEPT !.pc = place] =
         Row(place, row.started, row.event, row.scanned, row.lower, row.todo, row.logs)
  BY Z3 DEF Row
<1>1. [row EXCEPT !.pc = place] =
        Row(place, row.started, row.event, row.scanned, row.lower, row.todo, row.logs)
  BY Zenon, <1>0, <1>1a
<1>2a. [Row(place, row.started, row.event, row.scanned, row.lower, row.todo, row.logs) EXCEPT !.started = start] =
         Row(place, start, row.event, row.scanned, row.lower, row.todo, row.logs)
  BY Z3 DEF Row
<1> QED
  BY Zenon, <1>1, <1>2a

LEMMA LoadedRow ==
    ASSUME NEW row \in Readers, NEW place, NEW event, NEW scanned, NEW lower, NEW todo
    PROVE  [row EXCEPT !.pc = place, !.event = event, !.scanned = scanned, !.lower = lower, !.todo = todo] =
               Row(place, row.started, event, scanned, lower, todo, row.logs)
<1>0. row = Row(row.pc, row.started, row.event, row.scanned, row.lower, row.todo, row.logs)
  BY RowOf
<1>1a. [Row(row.pc, row.started, row.event, row.scanned, row.lower, row.todo, row.logs) EXCEPT !.pc = place] =
         Row(place, row.started, row.event, row.scanned, row.lower, row.todo, row.logs)
  BY Z3 DEF Row
<1>1. [row EXCEPT !.pc = place] =
        Row(place, row.started, row.event, row.scanned, row.lower, row.todo, row.logs)
  BY Zenon, <1>0, <1>1a
<1>2a. [Row(place, row.started, row.event, row.scanned, row.lower, row.todo, row.logs) EXCEPT !.event = event] =
         Row(place, row.started, event, row.scanned, row.lower, row.todo, row.logs)
  BY Z3 DEF Row
<1>2. [row EXCEPT !.pc = place, !.event = event] =
        Row(place, row.started, event, row.scanned, row.lower, row.todo, row.logs)
  BY Zenon, <1>1, <1>2a
<1>3a. [Row(place, row.started, event, row.scanned, row.lower, row.todo, row.logs) EXCEPT !.scanned = scanned] =
         Row(place, row.started, event, scanned, row.lower, row.todo, row.logs)
  BY Z3 DEF Row
<1>3. [row EXCEPT !.pc = place, !.event = event, !.scanned = scanned] =
        Row(place, row.started, event, scanned, row.lower, row.todo, row.logs)
  BY Zenon, <1>2, <1>3a
<1>4a. [Row(place, row.started, event, scanned, row.lower, row.todo, row.logs) EXCEPT !.lower = lower] =
         Row(place, row.started, event, scanned, lower, row.todo, row.logs)
  BY Z3 DEF Row
<1>4. [row EXCEPT !.pc = place, !.event = event, !.scanned = scanned, !.lower = lower] =
        Row(place, row.started, event, scanned, lower, row.todo, row.logs)
  BY Zenon, <1>3, <1>4a
<1>5a. [Row(place, row.started, event, scanned, lower, row.todo, row.logs) EXCEPT !.todo = todo] =
         Row(place, row.started, event, scanned, lower, todo, row.logs)
  BY Z3 DEF Row
<1> QED
  BY Zenon, <1>4, <1>5a

LEMMA ReadRow ==
    ASSUME NEW row \in Readers, NEW place, NEW logs
    PROVE  [row EXCEPT !.pc = place, !.logs = logs] =
               Row(place, row.started, row.event, row.scanned, row.lower, row.todo, logs)
<1>0. row = Row(row.pc, row.started, row.event, row.scanned, row.lower, row.todo, row.logs)
  BY RowOf
<1>1a. [Row(row.pc, row.started, row.event, row.scanned, row.lower, row.todo, row.logs) EXCEPT !.pc = place] =
         Row(place, row.started, row.event, row.scanned, row.lower, row.todo, row.logs)
  BY Z3 DEF Row
<1>1. [row EXCEPT !.pc = place] =
        Row(place, row.started, row.event, row.scanned, row.lower, row.todo, row.logs)
  BY Zenon, <1>0, <1>1a
<1>2a. [Row(place, row.started, row.event, row.scanned, row.lower, row.todo, row.logs) EXCEPT !.logs = logs] =
         Row(place, row.started, row.event, row.scanned, row.lower, row.todo, logs)
  BY Z3 DEF Row
<1> QED
  BY Zenon, <1>1, <1>2a

LEMMA SplitRow ==
    ASSUME NEW row \in Readers, NEW todo
    PROVE  [row EXCEPT !.todo = todo] =
               Row(row.pc, row.started, row.event, row.scanned, row.lower, todo, row.logs)
<1>0. row = Row(row.pc, row.started, row.event, row.scanned, row.lower, row.todo, row.logs)
  BY RowOf
<1>1a. [Row(row.pc, row.started, row.event, row.scanned, row.lower, row.todo, row.logs) EXCEPT !.todo = todo] =
         Row(row.pc, row.started, row.event, row.scanned, row.lower, todo, row.logs)
  BY Z3 DEF Row
<1> QED
  BY Zenon, <1>0, <1>1a

LEMMA SavedRow ==
    ASSUME NEW row \in Readers, NEW event, NEW scanned, NEW todo
    PROVE  [row EXCEPT !.pc = "reading", !.event = event, !.scanned = scanned, !.todo = todo, !.logs = {}] =
               Row("reading", row.started, event, scanned, row.lower, todo, {})
<1>0. row = Row(row.pc, row.started, row.event, row.scanned, row.lower, row.todo, row.logs)
  BY RowOf
<1>1a. [Row(row.pc, row.started, row.event, row.scanned, row.lower, row.todo, row.logs) EXCEPT !.pc = "reading"] =
         Row("reading", row.started, row.event, row.scanned, row.lower, row.todo, row.logs)
  BY Z3 DEF Row
<1>1. [row EXCEPT !.pc = "reading"] =
        Row("reading", row.started, row.event, row.scanned, row.lower, row.todo, row.logs)
  BY Zenon, <1>0, <1>1a
<1>2a. [Row("reading", row.started, row.event, row.scanned, row.lower, row.todo, row.logs) EXCEPT !.event = event] =
         Row("reading", row.started, event, row.scanned, row.lower, row.todo, row.logs)
  BY Z3 DEF Row
<1>2. [row EXCEPT !.pc = "reading", !.event = event] =
        Row("reading", row.started, event, row.scanned, row.lower, row.todo, row.logs)
  BY Zenon, <1>1, <1>2a
<1>3a. [Row("reading", row.started, event, row.scanned, row.lower, row.todo, row.logs) EXCEPT !.scanned = scanned] =
         Row("reading", row.started, event, scanned, row.lower, row.todo, row.logs)
  BY Z3 DEF Row
<1>3. [row EXCEPT !.pc = "reading", !.event = event, !.scanned = scanned] =
        Row("reading", row.started, event, scanned, row.lower, row.todo, row.logs)
  BY Zenon, <1>2, <1>3a
<1>4a. [Row("reading", row.started, event, scanned, row.lower, row.todo, row.logs) EXCEPT !.todo = todo] =
         Row("reading", row.started, event, scanned, row.lower, todo, row.logs)
  BY Z3 DEF Row
<1>4. [row EXCEPT !.pc = "reading", !.event = event, !.scanned = scanned, !.todo = todo] =
        Row("reading", row.started, event, scanned, row.lower, todo, row.logs)
  BY Zenon, <1>3, <1>4a
<1>5a. [Row("reading", row.started, event, scanned, row.lower, todo, row.logs) EXCEPT !.logs = {}] =
         Row("reading", row.started, event, scanned, row.lower, todo, {})
  BY Z3 DEF Row
<1> QED
  BY Zenon, <1>4, <1>5a

\* What was said of a collection stays true of it as time goes by.
LEMMA ReadingLasts ==
    ASSUME NEW row \in Readers, NEW expected, NEW seen, NEW more, NEW time \in Nat, NEW later \in Nat,
           NEW alone \in BOOLEAN, NEW ever \in BOOLEAN, Reading(row, expected, seen, time, alone),
           seen \subseteq more, time <= later, alone => ever
    PROVE  Reading(row, expected, more, later, ever)
<1>1. row.started \in Nat
  BY DEF Readers
<1> QED
  BY <1>1, BoundsAssumption DEF Reading

LEMMA IdleIsARow == Idle \in Readers
<1>1. <<>> \in Seq(Windows) /\ {} \in SUBSET Logs /\ 0 \in Nat /\ 0 \in Int
  BY EmptySeq
<1> QED
  BY <1>1 DEF Idle, Readers

LEMMA IdleReads ==
    ASSUME NEW expected, NEW seen, NEW time, NEW alone
    PROVE  Reading(Idle, expected, seen, time, alone)
  BY DEF Idle, Reading

\* A step of one collector, of which its new row is known to be sound.
LEMMA RowKeeps ==
    ASSUME SourceInv, SourceInv', ReadInv, NEW c \in Collectors, NEW row \in Readers,
           collector' = [collector EXCEPT ![c] = row],
           Reading(row, Expected, visible, now, readAlone'),
           UNCHANGED <<now, visible>>, Expected' = Expected,
           readAlone' \in BOOLEAN, readAlone => readAlone'
    PROVE  ReadInv'
<1>1. collector' \in [Collectors -> Readers]
  BY DEF ReadInv
<1>2. now \in Nat
  BY DEF SourceInv
<1>3. ASSUME NEW d \in Collectors
      PROVE  Reading(collector'[d], Expected, visible, now, readAlone')
  <2>1. CASE d = c
    BY <2>1 DEF ReadInv
  <2>2. CASE d # c
    <3>1. collector'[d] = collector[d] /\ collector[d] \in Readers
      BY <2>2 DEF ReadInv
    <3>2. Reading(collector[d], Expected, visible, now, readAlone) /\ readAlone \in BOOLEAN
      BY DEF ReadInv
    <3>3. Reading(collector[d], Expected, visible, now, readAlone')
      BY <1>2, <3>1, <3>2, ReadingLasts
    <3> QED
      BY <3>1, <3>3
  <2> QED
    BY <2>1, <2>2
<1>4. ReadInv' <=> /\ readAlone' \in BOOLEAN
                   /\ collector' \in [Collectors -> Readers]
                   /\ \A d \in Collectors : Reading(collector'[d], Expected', visible', now', readAlone')
  BY Zenon DEF ReadInv
<1> QED
  BY <1>1, <1>3, <1>4

LEMMA MaxOfTwo ==
    ASSUME NEW a \in Int, NEW b \in Int
    PROVE  Max({a, b}) = IF a >= b THEN a ELSE b
<1>1. \E x \in {a, b} : \A y \in {a, b} : x >= y
  OBVIOUS
<1>2. Max({a, b}) \in {a, b} /\ \A y \in {a, b} : Max({a, b}) >= y
  BY <1>1, Zenon DEF Max
<1> QED
  BY <1>2

LEMMA WindowIsOne ==
    ASSUME NEW row \in Readers, Contiguous(row.todo, row.started)
    PROVE  /\ Len(row.todo) \in Nat \ {0}
           /\ Head(row.todo) = row.todo[1]
           /\ row.todo[1] \in Windows
           /\ row.todo[1].from <= row.todo[1].upto
           /\ 0 < row.todo[1].upto /\ row.todo[1].upto <= row.started
<1>1. row.todo \in Seq(Windows) /\ row.todo # <<>>
  BY DEF Readers, Contiguous
<1>2. Len(row.todo) \in Nat \ {0} /\ 1 \in 1..Len(row.todo)
  BY <1>1, EmptySeq, LenProperties
<1>3. Head(row.todo) = row.todo[1] /\ row.todo[1] \in Windows
  BY <1>1, <1>2, HeadTailProperties, ElementOfSeq
<1> QED
  BY <1>2, <1>3 DEF Contiguous

LEMMA StartRow ==
    ASSUME SourceInv, ReadInv, NEW c \in Collectors, Start(c)
    PROVE  \E row \in Readers : /\ collector' = [collector EXCEPT ![c] = row]
                                /\ Reading(row, Expected, visible, now, readAlone)
<1> DEFINE row == Row("started", now, Idle.event, Idle.scanned, Idle.lower, Idle.todo, Idle.logs)
<1>1. [Idle EXCEPT !.pc = "started", !.started = now] = row
  BY StartedRow, IdleIsARow, Zenon
<1>2. collector' = [collector EXCEPT ![c] = row]
  BY <1>1, Zenon DEF Start
<1>3. /\ now \in Nat /\ Lookback < now
      /\ Idle.event \in Nat /\ Idle.scanned \in Nat /\ Idle.lower \in Int
      /\ Idle.todo \in Seq(Windows) /\ Idle.logs \in SUBSET Logs /\ Idle.logs = {}
  BY EmptySeq DEF SourceInv, Idle
<1>4. row \in Readers
  BY <1>3 DEF Readers, Row
<1>5. Reading(row, Expected, visible, now, readAlone)
  BY <1>3 DEF Reading, Row
<1> QED
  BY <1>2, <1>4, <1>5

LEMMA LoadRow ==
    ASSUME SourceInv, CursorInv, ReadInv, NEW c \in Collectors, Load(c)
    PROVE  \E row \in Readers : /\ collector' = [collector EXCEPT ![c] = row]
                                /\ Reading(row, Expected, visible, now, readAlone)
<1> DEFINE old == collector[c]
<1> DEFINE windows == <<[from |-> ScanStart(old.started), upto |-> old.started]>>
<1> DEFINE row == Row("reading", old.started, cursor.event, cursor.scanned,
                      LowerBound(old.started), windows, old.logs)
<1>1. old \in Readers /\ Reading(old, Expected, visible, now, readAlone)
  BY DEF ReadInv
<1>2. [old EXCEPT !.pc = "reading", !.event = cursor.event, !.scanned = cursor.scanned,
                  !.lower = LowerBound(old.started), !.todo = windows] = row
  BY <1>1, LoadedRow, ZenonT(40)
<1>3. collector' = [collector EXCEPT ![c] = row]
  BY <1>2, Zenon DEF Load
<1>4. old.pc = "started" /\ ScanStart(old.started) <= old.started
  BY DEF Load
<1>5. /\ old.started \in Nat /\ Lookback < old.started /\ old.started <= now
      /\ cursor.event \in Nat /\ cursor.scanned \in Nat
      /\ old.logs \in SUBSET Logs /\ old.logs \subseteq visible
  BY <1>1, <1>4 DEF Readers, Reading, CursorInv
<1>6. Lookback \in Nat \ {0} /\ Overlap \in Nat \ {0}
  BY BoundsAssumption
<1>7. LowerBound(old.started) \in Int /\ ScanStart(old.started) \in Nat
  BY <1>5, <1>6 DEF LowerBound, ScanStart
<1>8. windows \in Seq(Windows) /\ windows # <<>> /\ Len(windows) = 1
      /\ windows[1] = [from |-> ScanStart(old.started), upto |-> old.started]
  BY <1>5, <1>7 DEF Windows
<1> HIDE DEF windows, old
<1>9. row \in Readers
  BY <1>5, <1>7, <1>8 DEF Readers, Row
<1>10. Contiguous(windows, old.started)
  BY <1>4, <1>5, <1>6, <1>7, <1>8 DEF Contiguous
<1>11. Continues(row)
  BY <1>5, <1>6, <1>8 DEF Continues, LowerBound, ScanStart, Row
<1>12. Reading(row, Expected, visible, now, readAlone)
  BY <1>5, <1>10, <1>11 DEF Reading, Row
<1> HIDE DEF row
<1> QED
  BY <1>3, <1>9, <1>12 DEF old

\* A record that is old enough to lie before every overlap has been published.
LEMMA OldRecordsAreVisible ==
    ASSUME SourceInv, NEW l \in Expected, NEW upto \in Nat, upto <= now, Log[l].at <= upto - Overlap
    PROVE  l \in visible
<1>1. Log[l].at \in Nat
  BY LogTypes DEF Expected
<1>2. Delay \in Nat /\ Overlap \in Nat /\ Delay < Overlap
  BY BoundsAssumption
<1> QED
  BY <1>1, <1>2 DEF SourceInv

LEMMA ReadingRow ==
    ASSUME SourceInv, ReadInv, NEW c \in Collectors, NEW logs, logs \subseteq visible,
           collector[c].pc = "reading", readAlone' \/ Complete([collector[c] EXCEPT !.logs = logs], Expected),
           collector' = [collector EXCEPT ![c].pc = "saving", ![c].logs = logs]
    PROVE  \E row \in Readers : /\ collector' = [collector EXCEPT ![c] = row]
                                /\ Reading(row, Expected, visible, now, readAlone')
<1> DEFINE old == collector[c]
<1> DEFINE row == Row("saving", old.started, old.event, old.scanned, old.lower, old.todo, logs)
<1>1. old \in Readers /\ Reading(old, Expected, visible, now, readAlone)
  BY DEF ReadInv
<1>2. [old EXCEPT !.pc = "saving", !.logs = logs] = row
  BY <1>1, ReadRow, Zenon
<1>3. collector' = [collector EXCEPT ![c] = [old EXCEPT !.pc = "saving", !.logs = logs]]
  BY Zenon DEF ReadInv
<1>4. collector' = [collector EXCEPT ![c] = row]
  BY <1>2, <1>3, Zenon
<1>5. logs \in SUBSET Logs
  BY DEF SourceInv, Expected
<1>6. row \in Readers
  BY <1>1, <1>5 DEF Readers, Row
<1>7. [old EXCEPT !.logs = logs].todo = row.todo /\ [old EXCEPT !.logs = logs].lower = row.lower
      /\ [old EXCEPT !.logs = logs].logs = row.logs
  BY <1>1, Z3 DEF Readers, Row
<1>8. readAlone' \/ Complete(row, Expected)
  BY <1>7, Zenon DEF Complete
<1>9. Contiguous(row.todo, row.started) /\ Continues(row) /\ Lookback < row.started /\ row.started <= now
  BY <1>1 DEF Reading, Row, Continues
<1>10. row.logs = logs /\ row.pc = "saving"
  BY DEF Row
<1> HIDE DEF row
<1>11. Reading(row, Expected, visible, now, readAlone')
  BY <1>8, <1>9, <1>10 DEF Reading
<1> QED
  BY <1>4, <1>6, <1>11

LEMMA ReadKeeps ==
    ASSUME SourceInv, ReadInv, NEW c \in Collectors, Read(c)
    PROVE  \E row \in Readers : /\ collector' = [collector EXCEPT ![c] = row]
                                /\ Reading(row, Expected, visible, now, readAlone')
<1> DEFINE old == collector[c]
<1> DEFINE w == old.todo[1]
<1> DEFINE logs == WindowLogs(c)
<1>1. old \in Readers /\ Reading(old, Expected, visible, now, readAlone) /\ old.pc = "reading"
  BY DEF ReadInv, Read
<1>2. Contiguous(old.todo, old.started) /\ old.started <= now /\ old.started \in Nat
  BY <1>1 DEF Reading, Readers
<1>3. /\ Head(old.todo) = w /\ w.from \in Nat /\ w.upto \in Nat /\ w.upto <= old.started
      /\ old.lower \in Int /\ Overlap \in Nat
  BY <1>1, <1>2, WindowIsOne, BoundsAssumption DEF Windows, Readers
<1> DEFINE first == Max({w.from - Overlap + 1, old.lower})
<1>4. logs = {l \in visible : first <= Log[l].at /\ Log[l].at <= w.upto}
  BY <1>3 DEF WindowLogs, Within, Window
<1>5. first \in Int /\ (first = w.from - Overlap + 1 \/ first = old.lower)
  BY <1>3, MaxOfTwo
<1>6. ASSUME NEW l \in Expected, w.from - Overlap < Log[l].at, old.lower <= Log[l].at,
             Log[l].at <= w.upto - Overlap
      PROVE  l \in logs
  <2>1. Log[l].at \in Nat
    BY LogTypes DEF Expected
  <2>2. w.upto <= now
    BY <1>2, <1>3 DEF SourceInv
  <2>3. l \in visible
    BY <1>3, <1>6, <2>2, OldRecordsAreVisible
  <2>4. first <= Log[l].at
    BY <1>3, <1>5, <1>6, <2>1
  <2>5. Log[l].at <= w.upto
    BY <1>3, <1>6, <2>1
  <2> QED
    BY <1>4, <2>3, <2>4, <2>5
<1>7. [old EXCEPT !.logs = logs].todo = old.todo /\ [old EXCEPT !.logs = logs].lower = old.lower
      /\ [old EXCEPT !.logs = logs].logs = logs
  BY <1>1, Z3 DEF Readers
<1>8. collector' = [collector EXCEPT ![c].pc = "saving", ![c].logs = logs] /\ logs \subseteq visible
  BY <1>4 DEF Read
<1> HIDE DEF logs, first
<1>9. Complete([old EXCEPT !.logs = logs], Expected)
  BY <1>6, <1>7 DEF Complete
<1> QED
  BY <1>1, <1>8, <1>9, ReadingRow

LEMMA ReadSecondKeeps ==
    ASSUME SourceInv, ReadInv, NEW c \in Collectors, ReadSecond(c)
    PROVE  \E row \in Readers : /\ collector' = [collector EXCEPT ![c] = row]
                                /\ Reading(row, Expected, visible, now, readAlone')
<1> DEFINE logs == Within(Window(c).upto, Window(c).upto)
<1>1. /\ collector' = [collector EXCEPT ![c].pc = "saving", ![c].logs = logs]
      /\ logs \subseteq visible /\ readAlone' = TRUE /\ collector[c].pc = "reading"
  BY DEF ReadSecond, Within
<1> HIDE DEF logs
<1> QED
  BY <1>1, ReadingRow

LEMMA HalfIsInside ==
    ASSUME NEW a \in Nat, NEW b \in Nat, ~(b - a <= 1)
    PROVE  /\ a + (b - a) \div 2 \in Nat
           /\ a < a + (b - a) \div 2 /\ a + (b - a) \div 2 < b
<1>1. \A d \in Nat : d > 1 => d \div 2 \in Nat /\ 0 < d \div 2 /\ d \div 2 < d
  OBVIOUS
<1>2. b - a \in Nat /\ b - a > 1
  OBVIOUS
<1>3. PICK h \in Nat : h = (b - a) \div 2 /\ 0 < h /\ h < b - a
  BY <1>1, <1>2
<1> QED
  BY <1>3

LEMMA SplitKeeps ==
    ASSUME SourceInv, ReadInv, NEW c \in Collectors, Split(c)
    PROVE  \E row \in Readers : /\ collector' = [collector EXCEPT ![c] = row]
                                /\ Reading(row, Expected, visible, now, readAlone)
<1> DEFINE old == collector[c]
<1> DEFINE w == old.todo[1]
<1> DEFINE middle == w.from + (w.upto - w.from) \div 2
<1> DEFINE halves == <<[from |-> w.from, upto |-> middle], [from |-> middle, upto |-> w.upto]>>
<1> DEFINE todo == halves \o Tail(old.todo)
<1> DEFINE row == Row(old.pc, old.started, old.event, old.scanned, old.lower, todo, old.logs)
<1>1. old \in Readers /\ Reading(old, Expected, visible, now, readAlone) /\ old.pc = "reading"
  BY DEF ReadInv, Split
<1>2. Contiguous(old.todo, old.started) /\ Continues(old)
  BY <1>1 DEF Reading
<1>3. /\ Head(old.todo) = w /\ w.from \in Nat /\ w.upto \in Nat
      /\ 0 < w.upto /\ w.upto <= old.started /\ Len(old.todo) \in Nat \ {0}
      /\ old.started \in Nat
  BY <1>1, <1>2, WindowIsOne DEF Windows, Readers
<1>4. ~(w.upto - w.from <= 1)
  BY <1>3 DEF Split, Indivisible, Window
<1>5. middle \in Nat /\ w.from < middle /\ middle < w.upto
  BY <1>3, <1>4, HalfIsInside
<1>6. collector' = [collector EXCEPT ![c].todo = todo]
  <2>1. Window(c) = w
    BY <1>3 DEF Window
  <2> QED
    BY <2>1, Zenon DEF Split
<1> HIDE DEF middle
<1>7. [old EXCEPT !.todo = todo] = row
  BY <1>1, SplitRow, Zenon
<1>8. collector' = [collector EXCEPT ![c] = row]
  <2>1. collector' = [collector EXCEPT ![c] = [old EXCEPT !.todo = todo]]
    BY <1>6, Zenon
  <2> QED
    BY <1>7, <2>1, Zenon
<1>9. old.todo \in Seq(Windows) /\ old.todo # <<>>
  BY <1>1, <1>2 DEF Readers, Contiguous
<1> DEFINE rest == Tail(old.todo)
<1>10. /\ rest \in Seq(Windows) /\ Len(rest) = Len(old.todo) - 1
       /\ \A i \in 1..Len(rest) : rest[i] = old.todo[i + 1]
  BY <1>9, HeadTailProperties
<1>11. /\ halves \in Seq(Windows) /\ Len(halves) = 2
       /\ halves[1] = [from |-> w.from, upto |-> middle]
       /\ halves[2] = [from |-> middle, upto |-> w.upto]
  BY <1>3, <1>5 DEF Windows
<1> HIDE DEF halves, rest, w
<1>12. todo = halves \o rest
  BY DEF rest
<1> HIDE DEF todo
<1>13. /\ todo \in Seq(Windows) /\ Len(todo) = Len(old.todo) + 1
       /\ todo[1] = halves[1] /\ todo[2] = halves[2]
       /\ \A i \in 3..Len(todo) : todo[i] = old.todo[i - 1]
  <2>1. /\ todo \in Seq(Windows) /\ Len(todo) = 2 + Len(rest)
        /\ \A i \in 1 .. 2 + Len(rest) : todo[i] = IF i <= 2 THEN halves[i] ELSE rest[i - 2]
    <3>1. /\ halves \o rest \in Seq(Windows) /\ Len(halves \o rest) = Len(halves) + Len(rest)
          /\ \A i \in 1 .. Len(halves) + Len(rest) :
                (halves \o rest)[i] = IF i <= Len(halves) THEN halves[i] ELSE rest[i - Len(halves)]
      BY <1>10, <1>11, ConcatProperties, Zenon
    <3> QED
      BY <1>11, <1>12, <3>1, Zenon
  <2>2. Len(todo) = Len(old.todo) + 1 /\ Len(rest) \in Nat
    BY <1>3, <1>10, <2>1
  <2>3. todo[1] = halves[1] /\ todo[2] = halves[2]
    BY <2>1, <2>2
  <2>4. ASSUME NEW i \in 3..Len(todo)
        PROVE  todo[i] = old.todo[i - 1]
    <3>1. i - 2 \in 1..Len(rest) /\ i \in 1 .. 2 + Len(rest) /\ ~(i <= 2)
      BY <1>3, <1>10, <2>2
    <3>2. todo[i] = rest[i - 2] /\ rest[i - 2] = old.todo[(i - 2) + 1] /\ (i - 2) + 1 = i - 1
      BY <1>10, <2>1, <3>1
    <3> QED
      BY <3>2
  <2> QED
    BY <2>1, <2>2, <2>3, <2>4
<1>14. row \in Readers
  BY <1>1, <1>13 DEF Readers, Row
<1>15. Contiguous(todo, old.started)
  <2>1. todo # <<>>
    BY <1>3, <1>13
  <2>2. ASSUME NEW i \in 1..Len(todo)
        PROVE  /\ todo[i].from <= todo[i].upto
               /\ 0 < todo[i].upto /\ todo[i].upto <= old.started
               /\ i # 1 => todo[i].from = todo[i - 1].upto
    <3>1. CASE i = 1
      BY <1>3, <1>5, <1>11, <1>13, <3>1
    <3>2. CASE i = 2
      BY <1>3, <1>5, <1>11, <1>13, <3>2
    <3>3. CASE i = 3
      <4>1. 2 \in 1..Len(old.todo) /\ 3 \in 3..Len(todo)
        BY <1>3, <1>13, <3>3
      <4>2. todo[3] = old.todo[2]
        BY <1>13, <4>1
      <4>3. /\ old.todo[2].from <= old.todo[2].upto /\ old.todo[2].from = old.todo[1].upto
            /\ 0 < old.todo[2].upto /\ old.todo[2].upto <= old.started
        BY <1>2, <4>1 DEF Contiguous
      <4> QED
        BY <1>11, <1>13, <3>3, <4>2, <4>3 DEF w
    <3>4. CASE i > 3
      <4>1. i - 1 \in 1..Len(old.todo) /\ i \in 3..Len(todo) /\ i - 1 \in 3..Len(todo) /\ i - 1 # 1
        <5>1. \A m, n \in Nat : \A x \in 1..n : n = m + 1 /\ x > 3 =>
                  x - 1 \in 1..m /\ x \in 3..n /\ x - 1 \in 3..n /\ x - 1 # 1
          OBVIOUS
        <5>2. Len(old.todo) \in Nat /\ Len(todo) \in Nat /\ Len(todo) = Len(old.todo) + 1
          BY <1>3, <1>13
        <5> QED
          BY <3>4, <5>1, <5>2, Zenon
      <4>2. todo[i] = old.todo[i - 1] /\ todo[i - 1] = old.todo[(i - 1) - 1]
        BY <1>13, <4>1
      <4> QED
        BY <1>2, <4>1, <4>2 DEF Contiguous
    <3> QED
      BY <1>3, <1>13, <3>1, <3>2, <3>3, <3>4
  <2> QED
    BY <2>1, <2>2 DEF Contiguous
<1>16. Continues(row)
  BY <1>2, <1>11, <1>13 DEF Continues, Row, w
<1>17. Reading(row, Expected, visible, now, readAlone)
  BY <1>1, <1>15, <1>16 DEF Reading, Row
<1> HIDE DEF row
<1> QED
  BY <1>8, <1>14, <1>17

\* The highest position among the records of a window and the watermark is a number.
LEMMA EventType ==
    ASSUME NEW event \in Nat, NEW logs \in SUBSET Logs
    PROVE  Max({event} \cup {Position[l] : l \in logs}) \in Nat
<1> DEFINE place == [l \in logs |-> Position[l]]
<1> DEFINE places == {place[l] : l \in logs}
<1>1. \A l \in logs : place[l] = Position[l] /\ place[l] \in Nat
  BY PositionType
<1>2. DOMAIN place = logs /\ place = [l \in logs |-> place[l]] /\ IsFiniteSet(logs)
  BY LogsAssumption, FS_Subset
<1> HIDE DEF place
<1>3. IsFiniteSet(places)
  BY <1>2, ImageIsFinite
<1>4. IsFiniteSet({event} \cup places)
  BY <1>3, FS_Singleton, FS_Union
<1>5. {event} \cup places \in SUBSET Nat /\ {event} \cup places # {}
  BY <1>1
<1>6. Max({event} \cup places) \in Nat
  BY <1>4, <1>5, MaxIsGreatest
<1>7. places = {Position[l] : l \in logs}
  BY <1>1
<1> QED
  BY <1>6, <1>7

LEMMA SaveKeeps ==
    ASSUME SourceInv, ReadInv, NEW c \in Collectors, Save(c)
    PROVE  \E row \in Readers : /\ collector' = [collector EXCEPT ![c] = row]
                                /\ Reading(row, Expected, visible, now, readAlone)
<1> DEFINE old == collector[c]
<1> DEFINE w == old.todo[1]
<1> DEFINE rest == Tail(old.todo)
<1> DEFINE event == Max({old.event} \cup {Position[l] : l \in old.logs})
<1> DEFINE row == Row("reading", old.started, event, w.upto, old.lower, rest, {})
<1>1. old \in Readers /\ Reading(old, Expected, visible, now, readAlone) /\ old.pc = "saving"
  BY DEF ReadInv, Save
<1>2. Contiguous(old.todo, old.started) /\ Continues(old) /\ Lookback < old.started /\ old.started <= now
  BY <1>1 DEF Reading
<1>3. /\ Head(old.todo) = w /\ w.from \in Nat /\ w.upto \in Nat /\ w.from <= w.upto
      /\ 0 < w.upto /\ w.upto <= old.started /\ Len(old.todo) \in Nat \ {0}
      /\ old.started \in Nat /\ old.scanned \in Nat /\ old.lower \in Int
  BY <1>1, <1>2, WindowIsOne DEF Windows, Readers
<1>4. collector' = [collector EXCEPT ![c] =
            IF rest = <<>> THEN Idle
            ELSE [old EXCEPT !.pc = "reading", !.event = event, !.scanned = w.upto,
                             !.todo = rest, !.logs = {}]]
  <2>1. Window(c) = w
    BY <1>3 DEF Window
  <2> QED
    BY <2>1, Zenon DEF Save
<1>5. [old EXCEPT !.pc = "reading", !.event = event, !.scanned = w.upto, !.todo = rest, !.logs = {}] = row
  <2> HIDE DEF event, rest, w
  <2> QED
    BY <1>1, SavedRow, Zenon
<1>6. CASE rest = <<>>
  <2>1. collector' = [collector EXCEPT ![c] = Idle]
    BY <1>4, <1>6, Zenon
  <2> QED
    BY <2>1, IdleIsARow, IdleReads
<1>7. CASE rest # <<>>
  <2>1. collector' = [collector EXCEPT ![c] = row]
    BY <1>4, <1>5, <1>7, Zenon
  <2>2. event \in Nat
    BY <1>1, EventType DEF Readers
  <2>3. old.todo \in Seq(Windows) /\ old.todo # <<>>
    BY <1>1, <1>2 DEF Readers, Contiguous
  <2>4. /\ rest \in Seq(Windows) /\ Len(rest) = Len(old.todo) - 1
        /\ \A i \in 1..Len(rest) : rest[i] = old.todo[i + 1]
    BY <2>3, HeadTailProperties
  <2>5. Len(rest) \in Nat \ {0}
    BY <1>7, <2>4, EmptySeq
  <2> HIDE DEF event, rest, w
  <2>6. row \in Readers
    <3>1. {} \in SUBSET Logs
      OBVIOUS
    <3> QED
      BY <1>3, <2>2, <2>4, <3>1 DEF Readers, Row
  <2>7. Contiguous(rest, old.started)
    <3>1. ASSUME NEW i \in 1..Len(rest)
          PROVE  /\ rest[i].from <= rest[i].upto
                 /\ 0 < rest[i].upto /\ rest[i].upto <= old.started
                 /\ i # 1 => rest[i].from = rest[i - 1].upto
      <4>1. i + 1 \in 1..Len(old.todo) /\ i + 1 # 1
        BY <1>3, <2>4, <2>5
      <4>2. rest[i] = old.todo[i + 1]
        BY <2>4
      <4>3. /\ old.todo[i + 1].from <= old.todo[i + 1].upto
            /\ 0 < old.todo[i + 1].upto /\ old.todo[i + 1].upto <= old.started
            /\ old.todo[i + 1].from = old.todo[(i + 1) - 1].upto
        BY <1>2, <4>1 DEF Contiguous
      <4>4. i # 1 => rest[i - 1] = old.todo[(i - 1) + 1] /\ (i - 1) + 1 = (i + 1) - 1
        BY <2>4, <2>5
      <4> QED
        BY <4>2, <4>3, <4>4
    <3> QED
      BY <1>7, <3>1 DEF Contiguous
  <2>8. Continues(row)
    <3>1. 1 \in 1..Len(rest) /\ 2 \in 1..Len(old.todo)
      <4>1. Len(rest) = Len(old.todo) - 1 /\ Len(old.todo) \in Nat
        BY <1>3, <2>4
      <4>2. \A m \in Nat \ {0} : \A n \in Nat : m = n - 1 => 1 \in 1..m /\ 2 \in 1..n
        OBVIOUS
      <4> QED
        BY <2>5, <4>1, <4>2, Zenon
    <3>2. rest[1] = old.todo[2] /\ old.todo[2].from = w.upto
      <4>1. rest[1] = old.todo[1 + 1]
        BY <2>4, <3>1
      <4>2. old.todo[2].from = old.todo[2 - 1].upto
        BY <1>2, <3>1 DEF Contiguous
      <4> QED
        BY <4>1, <4>2 DEF w
    <3>3. Overlap \in Nat
      BY BoundsAssumption
    <3>4. old.lower = old.started - Lookback \/ old.lower <= w.upto - Overlap
      <4>1. old.scanned # 0 => w.from = old.scanned
        BY <1>2 DEF Continues, w
      <4> QED
        BY <1>2, <1>3, <3>3, <4>1 DEF Continues
    <3> QED
      BY <1>3, <3>2, <3>4 DEF Continues, Row
  <2>9. Reading(row, Expected, visible, now, readAlone)
    BY <1>2, <2>7, <2>8 DEF Reading, Row
  <2> HIDE DEF row
  <2> QED
    BY <2>1, <2>6, <2>9
<1> QED
  BY <1>6, <1>7

-----------------------------------------------------------------------------
(* The invariant is kept by every step.                                      *)

\* What the steps that are no Save, Refresh or change of a collector leave alone.
LEMMA Untouched ==
    ASSUME [Next]_vars
    PROVE  /\ (\E c \in Collectors : Save(c)) \/ UNCHANGED factVars
           /\ Refresh \/ UNCHANGED metricVars
           /\ (\E c \in Collectors : Save(c) \/ Stops(c)) \/ UNCHANGED cursor
           /\ (\E c \in Collectors : ReadSecond(c)) \/ UNCHANGED readAlone
<1>1. Tick => UNCHANGED <<factVars, metricVars, cursor, readAlone>>
  BY DEF Tick
<1>2. Refresh => UNCHANGED <<factVars, cursor, readAlone>>
  BY DEF Refresh
<1>3. UNCHANGED vars => UNCHANGED <<factVars, metricVars, cursor, readAlone>>
  BY DEF vars, factVars, metricVars
<1>4. \A l \in Logs : Publish(l) => UNCHANGED <<factVars, metricVars, cursor, readAlone>>
  BY DEF Publish
<1>5. \A c \in Collectors : /\ Start(c) => UNCHANGED <<factVars, metricVars, cursor, readAlone>>
                            /\ Load(c) => UNCHANGED <<factVars, metricVars, cursor, readAlone>>
                            /\ Read(c) => UNCHANGED <<factVars, metricVars, cursor, readAlone>>
                            /\ Split(c) => UNCHANGED <<factVars, metricVars, cursor, readAlone>>
                            /\ ReadSecond(c) => UNCHANGED <<factVars, metricVars, cursor>>
                            /\ Save(c) => UNCHANGED <<metricVars, readAlone>>
                            /\ Stops(c) => UNCHANGED <<factVars, metricVars, readAlone>>
  BY Zenon DEF Start, Load, Read, Split, ReadSecond, Save, Stops
<1> QED
  BY <1>1, <1>2, <1>3, <1>4, <1>5, StepKinds, Zenon

LEMMA ReadStep ==
    ASSUME CollectionInv, [Next]_vars
    PROVE  ReadInv'
<1>1. /\ SourceInv /\ ReadInv /\ CursorInv
      /\ SourceInv' /\ Expected' = Expected /\ visible \subseteq visible' /\ now <= now'
  BY SourcesGrow DEF CollectionInv
<1>2. readAlone \in BOOLEAN
  BY <1>1 DEF ReadInv
<1>3. ASSUME UNCHANGED <<collector, readAlone>>
      PROVE  ReadInv'
  <2>1. now \in Nat /\ now' \in Nat
    BY <1>1 DEF SourceInv
  <2>2. ASSUME NEW c \in Collectors
        PROVE  Reading(collector[c], Expected, visible', now', readAlone)
    BY <1>1, <1>2, <2>1, ReadingLasts DEF ReadInv
  <2>3. ReadInv' <=> /\ readAlone' \in BOOLEAN
                     /\ collector' \in [Collectors -> Readers]
                     /\ \A d \in Collectors : Reading(collector'[d], Expected', visible', now', readAlone')
    BY Zenon DEF ReadInv
  <2> QED
    BY <1>1, <1>3, <2>2, <2>3 DEF ReadInv
<1>4. ASSUME NEW c \in Collectors,
             Start(c) \/ Load(c) \/ Read(c) \/ Split(c) \/ ReadSecond(c) \/ Save(c) \/ Stops(c)
      PROVE  ReadInv'
  <2>1. /\ UNCHANGED <<now, visible>>
        /\ readAlone' \in BOOLEAN /\ (readAlone => readAlone')
    BY <1>2, <1>4 DEF Start, Load, Read, Split, ReadSecond, Save, Stops, sourceVars
  <2>2. ReadSecond(c) \/ readAlone' = readAlone
    BY <1>4 DEF Start, Load, Read, Split, Save, Stops
  <2>3. PICK row \in Readers : /\ collector' = [collector EXCEPT ![c] = row]
                               /\ Reading(row, Expected, visible, now, readAlone')
    <3>1. CASE Start(c)
      <4>1. readAlone' = readAlone
        BY <3>1 DEF Start
      <4> QED
        BY <1>1, <3>1, <4>1, StartRow
    <3>2. CASE Load(c)
      <4>1. readAlone' = readAlone
        BY <3>2 DEF Load
      <4> QED
        BY <1>1, <3>2, <4>1, LoadRow
    <3>3. CASE Read(c)
      BY <1>1, <3>3, ReadKeeps
    <3>4. CASE Split(c)
      <4>1. readAlone' = readAlone
        BY <3>4 DEF Split
      <4> QED
        BY <1>1, <3>4, <4>1, SplitKeeps
    <3>5. CASE ReadSecond(c)
      BY <1>1, <3>5, ReadSecondKeeps
    <3>6. CASE Save(c)
      <4>1. readAlone' = readAlone
        BY <3>6 DEF Save
      <4> QED
        BY <1>1, <3>6, <4>1, SaveKeeps
    <3>7. CASE Stops(c)
      BY <3>7, IdleIsARow, IdleReads DEF Stops
    <3> QED
      BY <1>4, <3>1, <3>2, <3>3, <3>4, <3>5, <3>6, <3>7
  <2> QED
    BY <1>1, <2>1, <2>3, RowKeeps
<1>5. Tick \/ Refresh \/ UNCHANGED vars \/ (\E l \in Logs : Publish(l)) => UNCHANGED <<collector, readAlone>>
  BY DEF Tick, Refresh, Publish, vars
<1> QED
  BY <1>3, <1>4, <1>5, StepKinds

LEMMA CursorStep ==
    ASSUME CollectionInv, [Next]_vars
    PROVE  CursorInv'
<1>1. CASE UNCHANGED cursor
  BY <1>1 DEF CollectionInv, CursorInv
<1>2. ASSUME NEW c \in Collectors, Stops(c)
      PROVE  CursorInv'
  BY <1>2 DEF CollectionInv, CursorInv, Stops
<1>3. ASSUME NEW c \in Collectors, Save(c)
      PROVE  CursorInv'
  <2> DEFINE event == Max({collector[c].event} \cup {Position[l] : l \in collector[c].logs})
  <2> DEFINE gap == GapAfterSuccess(quarantined')
  <2>1. cursor' = [event |-> event, scanned |-> Window(c).upto, gap |-> gap]
    BY <1>3 DEF Save
  <2>2. collector[c] \in Readers /\ Contiguous(collector[c].todo, collector[c].started)
    BY <1>3 DEF CollectionInv, ReadInv, Reading, Save
  <2>3. event \in Nat
    BY <2>2, EventType DEF Readers
  <2>4. Window(c).upto \in Nat
    BY <2>2, WindowIsOne DEF Window, Windows
  <2>5. gap \in BOOLEAN
    BY DEF GapAfterSuccess
  <2> HIDE DEF event, gap
  <2> QED
    BY <2>1, <2>3, <2>4, <2>5 DEF CursorInv
<1> QED
  BY <1>1, <1>2, <1>3, Untouched

LEMMA GroundedLasts ==
    ASSUME NEW r, NEW revision \in Revisions, NEW seen, NEW more, NEW time \in Nat, NEW later \in Nat,
           Grounded(r, revision, seen, time), seen \subseteq more, time <= later
    PROVE  Grounded(r, revision, more, later)
<1>1. revision.saved \in Nat
  BY DEF Revisions
<1>2. (SUBSET seen) \ {{}} \subseteq (SUBSET more) \ {{}}
  OBVIOUS
<1> QED
  BY <1>1, <1>2 DEF Grounded

LEMMA SavedIsGrounded ==
    ASSUME CollectionInv, NEW c \in Collectors, NEW r \in Requests, RecordsOf(collector[c].logs, r) # {}
    PROVE  /\ NewRevision(collector[c].logs, r) \in Revisions
           /\ Grounded(r, NewRevision(collector[c].logs, r), visible, now)
<1> DEFINE records == RecordsOf(collector[c].logs, r)
<1>1. collector[c].logs \subseteq visible /\ visible \subseteq Logs /\ now \in Nat
  BY DEF CollectionInv, ReadInv, Reading, SourceInv, Expected
<1>2. records \in (SUBSET visible) \ {{}} /\ records \in (SUBSET Logs) \ {{}}
  BY <1>1 DEF RecordsOf
<1>3. \A l \in records : Log[l].request = r /\ Log[l].valid /\ Log[l].at <= now
  BY <1>1 DEF RecordsOf, CollectionInv, SourceInv
<1>4. NewRevision(collector[c].logs, r) = [account |-> Account(records), saved |-> now]
  BY DEF NewRevision
<1> HIDE DEF records
<1>5. Account(records) \in Accounts
  BY <1>2 DEF Accounts
<1>6. [account |-> Account(records), saved |-> now] \in Revisions
  BY <1>1, <1>5 DEF Revisions
<1>7. Grounded(r, [account |-> Account(records), saved |-> now], visible, now)
  BY <1>1, <1>2, <1>3 DEF Grounded
<1> QED
  BY <1>4, <1>6, <1>7

\* The revisions of a request only grow at their end.
LEMMA RevisionsGrow ==
    ASSUME CollectionInv, [Next]_vars, NEW r \in Requests
    PROVE  \/ revisions'[r] = revisions[r]
           \/ \E c \in Collectors :
                 /\ Save(c) /\ RecordsOf(collector[c].logs, r) # {}
                 /\ revisions'[r] = Append(revisions[r], NewRevision(collector[c].logs, r))
<1>1. CASE UNCHANGED factVars
  BY <1>1 DEF factVars
<1>2. ASSUME NEW c \in Collectors, Save(c)
      PROVE  \/ revisions'[r] = revisions[r]
             \/ /\ RecordsOf(collector[c].logs, r) # {}
                /\ revisions'[r] = Append(revisions[r], NewRevision(collector[c].logs, r))
  <2>1. revisions'[r] = IF r \in Rewritten(collector[c].logs)
                        THEN Append(revisions[r], NewRevision(collector[c].logs, r)) ELSE revisions[r]
    BY <1>2, Zenon DEF Save
  <2> QED
    BY <2>1 DEF Rewritten, NewAccount
<1> QED
  BY <1>1, <1>2, Untouched

LEMMA FactStep ==
    ASSUME CollectionInv, [Next]_vars
    PROVE  FactInv'
<1>1. visible \subseteq visible' /\ now <= now' /\ now \in Nat /\ now' \in Nat
  BY SourcesGrow DEF CollectionInv, SourceInv
<1>2. ASSUME NEW r \in Requests
      PROVE  /\ revisions'[r] \in Seq(Revisions)
             /\ \A i \in 1..Len(revisions'[r]) : Grounded(r, revisions'[r][i], visible', now')
  <2>1. revisions[r] \in Seq(Revisions) /\ \A i \in 1..Len(revisions[r]) : Grounded(r, revisions[r][i], visible, now)
    BY DEF CollectionInv, FactInv
  <2>2. \A i \in 1..Len(revisions[r]) : Grounded(r, revisions[r][i], visible', now')
    BY <1>1, <2>1, ElementOfSeq, GroundedLasts
  <2>3. ASSUME NEW c \in Collectors, RecordsOf(collector[c].logs, r) # {},
               revisions'[r] = Append(revisions[r], NewRevision(collector[c].logs, r))
        PROVE  /\ revisions'[r] \in Seq(Revisions)
               /\ \A i \in 1..Len(revisions'[r]) : Grounded(r, revisions'[r][i], visible', now')
    <3>1. PICK revision \in Revisions : /\ revision = NewRevision(collector[c].logs, r)
                                        /\ Grounded(r, revision, visible, now)
      BY <2>3, SavedIsGrounded
    <3>2. Grounded(r, revision, visible', now')
      BY <1>1, <3>1, GroundedLasts
    <3>3. /\ Append(revisions[r], revision) \in Seq(Revisions)
          /\ Len(Append(revisions[r], revision)) = Len(revisions[r]) + 1
          /\ \A i \in 1..Len(revisions[r]) : Append(revisions[r], revision)[i] = revisions[r][i]
          /\ Append(revisions[r], revision)[Len(revisions[r]) + 1] = revision
      BY <2>1, AppendProperties
    <3>4. Len(revisions[r]) \in Nat
      BY <2>1, LenProperties
    <3>5. revisions'[r] = Append(revisions[r], revision)
      BY <2>3, <3>1
    <3>6. \A i \in 1..Len(revisions'[r]) : i \in 1..Len(revisions[r]) \/ i = Len(revisions[r]) + 1
      BY <3>3, <3>4, <3>5
    <3> QED
      BY <2>2, <3>2, <3>3, <3>5, <3>6
  <2> QED
    BY <2>1, <2>2, <2>3, RevisionsGrow
<1>3. revisions' = [r \in Requests |-> revisions'[r]]
  <2>1. CASE UNCHANGED factVars
    BY <2>1 DEF factVars, CollectionInv, FactInv
  <2>2. CASE \E c \in Collectors : Save(c)
    BY <2>2 DEF Save
  <2> QED
    BY <2>1, <2>2, Untouched
<1>4. FactInv' <=> /\ revisions' \in [Requests -> Seq(Revisions)]
                   /\ \A r \in Requests : \A i \in 1..Len(revisions'[r]) :
                         Grounded(r, revisions'[r][i], visible', now')
  BY Zenon DEF FactInv
<1> QED
  BY <1>2, <1>3, <1>4

LEMMA CountStep ==
    ASSUME CollectionInv, [Next]_vars
    PROVE  CountInv'
<1>1. now <= now' /\ now \in Nat /\ now' \in Nat
  BY SourcesGrow DEF CollectionInv, SourceInv
<1>2. CASE Refresh
  BY <1>1, <1>2 DEF Refresh, CountInv
<1>3. CASE UNCHANGED metricVars
  BY <1>1, <1>3 DEF metricVars, CollectionInv, CountInv
<1> QED
  BY <1>2, <1>3, Untouched

LEMMA CollectionStep ==
    ASSUME CollectionInv, [Next]_vars
    PROVE  CollectionInv'
<1>1. SourceInv'
  BY SourcesGrow DEF CollectionInv
<1> QED
  BY <1>1, ReadStep, CursorStep, FactStep, CountStep DEF CollectionInv

LEMMA CollectionInit ==
    ASSUME Init
    PROVE  CollectionInv
<1>1. SourceInv
  <2>1. /\ now = Lookback + 1 /\ visible = {l \in Expected : Log[l].at + Delay < now}
        /\ Expected \subseteq Logs
    BY DEF Init, Expected
  <2>2. Lookback \in Nat /\ MaxTime \in Nat /\ Lookback < MaxTime /\ Delay \in Nat
    BY BoundsAssumption
  <2>3. \A l \in Expected : Log[l].at \in Nat
    BY <2>1, LogTypes
  <2> QED
    BY <2>1, <2>2, <2>3 DEF SourceInv
<1>2. CursorInv
  BY DEF Init, CursorInv
<1>3. ReadInv
  BY IdleIsARow, IdleReads DEF Init, ReadInv
<1>4. FactInv
  <2>1. <<>> \in Seq(Revisions) /\ Len(<<>>) = 0
    BY EmptySeq
  <2> QED
    BY <2>1 DEF Init, FactInv
<1>5. CountInv
  BY <1>1 DEF Init, CountInv, SourceInv
<1> QED
  BY <1>1, <1>2, <1>3, <1>4, <1>5 DEF CollectionInv

\* The state of a collection is sound in every reachable state: its windows follow one another
\* from the watermark to its start, what it holds of a window is complete, and every stored
\* account was made from visible records of its request.
THEOREM CollectionInvariant == Spec => []CollectionInv
<1>1. Init => CollectionInv
  BY CollectionInit
<1>2. CollectionInv /\ [Next]_vars => CollectionInv'
  BY CollectionStep
<1> QED
  BY <1>1, <1>2, PTL DEF Spec

-----------------------------------------------------------------------------
(* The theorems.                                                             *)

\* The watermark only moves with a window that was read completely, except for the records
\* written before the window of a collection that had to read a single second alone
\* (Collector.scanWindow, CommitCollectionWindow).
THEOREM WatermarkFollows == Spec => WatermarkFollowsReading
<1>1. ASSUME CollectionInv, [Next]_vars, cursor'.scanned # cursor.scanned
      PROVE  \E c \in Collectors :
                /\ \/ collector[c].lower = collector[c].started - Lookback
                   \/ collector[c].lower <= cursor.scanned - Overlap
                /\ cursor.scanned <= cursor'.scanned
                /\ readAlone \/ \A l \in Expected :
                      /\ cursor.scanned - Overlap < Log[l].at
                      /\ collector[c].lower <= Log[l].at
                      /\ Log[l].at <= cursor'.scanned - Overlap
                      => l \in collector[c].logs
  <2>1. ASSUME NEW c \in Collectors, Stops(c)
        PROVE  FALSE
    BY <1>1, <2>1 DEF Stops, CollectionInv, CursorInv
  <2>2. PICK c \in Collectors : Save(c)
    BY <1>1, <2>1, Untouched
  <2> DEFINE row == collector[c]
  <2> DEFINE w == row.todo[1]
  <2>3. row \in Readers /\ Reading(row, Expected, visible, now, readAlone) /\ row.pc = "saving"
    BY <1>1, <2>2 DEF CollectionInv, ReadInv, Save
  <2>4. Contiguous(row.todo, row.started) /\ Continues(row) /\ (readAlone \/ Complete(row, Expected))
    BY <2>3 DEF Reading
  <2>5. /\ Head(row.todo) = w /\ w.from \in Nat /\ w.upto \in Nat /\ w.from <= w.upto
        /\ row.scanned \in Nat /\ row.lower \in Int
    BY <2>3, <2>4, WindowIsOne DEF Windows, Readers
  <2>6. cursor.scanned = row.scanned /\ cursor'.scanned = w.upto
    BY <2>2, <2>5 DEF Save, SameWatermark, Window
  <2>7. Overlap \in Nat \ {0}
    BY BoundsAssumption
  <2>8. w.from = IF row.scanned = 0 THEN row.lower - 1 ELSE row.scanned
    BY <2>4 DEF Continues
  <2>9. \/ row.lower = row.started - Lookback
        \/ row.lower <= cursor.scanned - Overlap
    BY <2>4, <2>6 DEF Continues
  <2>10. cursor.scanned <= cursor'.scanned
    BY <2>5, <2>6, <2>8
  <2>11. ASSUME Complete(row, Expected), NEW l \in Expected, cursor.scanned - Overlap < Log[l].at,
                row.lower <= Log[l].at, Log[l].at <= cursor'.scanned - Overlap
         PROVE  l \in row.logs
    <3>1. Log[l].at \in Nat
      BY LogTypes DEF Expected
    <3>2. w.from - Overlap < Log[l].at /\ Log[l].at <= w.upto - Overlap
      BY <2>5, <2>6, <2>7, <2>8, <2>11, <3>1
    <3> QED
      BY <2>11, <3>2 DEF Complete
  <2> HIDE DEF w
  <2> QED
    BY <2>4, <2>9, <2>10, <2>11
<1>2. CollectionInv /\ [Next]_vars =>
         [cursor'.scanned # cursor.scanned =>
            \E c \in Collectors :
               /\ \/ collector[c].lower = collector[c].started - Lookback
                  \/ collector[c].lower <= cursor.scanned - Overlap
               /\ cursor.scanned <= cursor'.scanned
               /\ readAlone \/ \A l \in Expected :
                     /\ cursor.scanned - Overlap < Log[l].at
                     /\ collector[c].lower <= Log[l].at
                     /\ Log[l].at <= cursor'.scanned - Overlap
                     => l \in collector[c].logs]_vars
  BY <1>1
<1> QED
  BY <1>2, CollectionInvariant, PTL DEF Spec, WatermarkFollowsReading

\* As long as a record is in quarantine, the gap of the site shows: only a commit without any
\* quarantine clears it, and a failure never does (CommitCollectionWindow, MarkCollectionFailure).
THEOREM QuarantineIsShown == Spec => []QuarantineShows
<1>1. Init => QuarantineShows
  BY DEF Init, QuarantineShows
<1>2. ASSUME CollectionInv, QuarantineShows, [Next]_vars
      PROVE  QuarantineShows'
  <2>1. CASE UNCHANGED <<cursor, factVars>>
    BY <1>2, <2>1 DEF QuarantineShows, factVars
  <2>2. ASSUME NEW c \in Collectors, Stops(c)
        PROVE  QuarantineShows'
    BY <1>2, <2>2 DEF QuarantineShows, Stops, factVars, CollectionInv, CursorInv
  <2>3. ASSUME NEW c \in Collectors, Save(c)
        PROVE  QuarantineShows'
    <3>1. cursor'.gap = GapAfterSuccess(quarantined')
      BY <2>3 DEF Save
    <3> QED
      BY <3>1 DEF QuarantineShows, GapAfterSuccess
  <2> QED
    BY <1>2, <2>1, <2>2, <2>3, Untouched
<1> QED
  BY <1>1, <1>2, CollectionInvariant, PTL DEF Spec

\* Whatever the log says and however the windows cut it, a supplier is charged only on a record
\* of that request in which its channel failed while it was bound to it, and once for a record
\* (ConvertNewAPILogsWithResolver, convertNewAPIRequest, channelAttributionResolver).
THEOREM ChargesHaveEvidence == Spec => []ChargedOnEvidence
<1>1. ASSUME CollectionInv
      PROVE  ChargedOnEvidence
  <2> SUFFICES ASSUME NEW r \in Requests, NEW v \in Values(revisions[r]),
                      NEW i \in DOMAIN v.account.attempts, NEW j \in DOMAIN v.account.attempts,
                      Charged(v.account.attempts[i])
               PROVE  /\ \E l \in visible :
                            /\ l = v.account.attempts[i].log /\ Log[l].request = r /\ Failed(l)
                            /\ Log[l].channel = v.account.attempts[i].channel
                            /\ v.account.attempts[i].supplier = SupplierOf(Log[l].channel, Log[l].at)
                      /\ i # j => v.account.attempts[i].log # v.account.attempts[j].log
    BY DEF ChargedOnEvidence
  <2>1. revisions[r] \in Seq(Revisions) /\ \A k \in 1..Len(revisions[r]) : Grounded(r, revisions[r][k], visible, now)
    BY <1>1 DEF CollectionInv, FactInv
  <2>2. DOMAIN revisions[r] = 1..Len(revisions[r])
    BY <2>1, LenProperties
  <2>3. PICK k \in 1..Len(revisions[r]) : v = revisions[r][k]
    BY <2>2 DEF Values
  <2>4. PICK records \in (SUBSET visible) \ {{}} :
            /\ v.account = Account(records)
            /\ \A l \in records : Log[l].request = r /\ Log[l].at <= v.saved
    BY <2>1, <2>3 DEF Grounded
  <2>5. records \in SUBSET Logs /\ records # {} /\ records \subseteq visible
    BY <1>1 DEF CollectionInv, SourceInv, Expected
  <2>6. v.account.attempts = Attempts(records)
    BY <2>4 DEF Account, AccountOf
  <2> DEFINE evidence(k_1) == EvidenceFor(records, Chain(records), k_1)
  <2>7. \A k_1 \in DOMAIN Attempts(records) :
           /\ k_1 \in 1..Len(Chain(records))
           /\ \/ /\ Attempts(records)[k_1].log = None
                 /\ Attempts(records)[k_1].fault = "unknown"
              \/ \E l \in evidence(k_1) : Attempts(records)[k_1] = Observed(Log[l].channel, l)
    BY <2>5, AttemptsRestOnRecords, Zenon
  <2>8. Charged(Attempts(records)[i]) /\ i \in DOMAIN Attempts(records) /\ j \in DOMAIN Attempts(records)
    BY <2>6
  <2>9. PICK l \in evidence(i) : Attempts(records)[i] = Observed(Log[l].channel, l)
    BY <2>7, <2>8 DEF Charged
  <2>10. l \in records
    BY <2>5, <2>7, <2>8, EvidenceIsOfTheRequest
  <2>11. /\ Attempts(records)[i].log = l /\ Attempts(records)[i].channel = Log[l].channel
         /\ Attempts(records)[i].supplier = SupplierOf(Log[l].channel, Log[l].at)
         /\ Attempts(records)[i].outcome = Outcome(l)
    BY <2>9 DEF Observed
  <2>12. Failed(l)
    BY <2>8, <2>11 DEF Charged, Outcome
  <2>13. ASSUME i # j
         PROVE  Attempts(records)[j].log # l
    <3>1. l # None
      BY <2>5, <2>10, LogTypes
    <3>2. CASE Attempts(records)[j].log = None
      BY <3>1, <3>2
    <3>3. CASE \E m \in evidence(j) : Attempts(records)[j] = Observed(Log[m].channel, m)
      <4>1. PICK m \in evidence(j) : Attempts(records)[j] = Observed(Log[m].channel, m)
        BY <3>3
      <4>2. Attempts(records)[j].log = m
        BY <4>1 DEF Observed
      <4>3. i \in 1..Len(Chain(records)) /\ j \in 1..Len(Chain(records)) /\ (i < j \/ j < i)
        BY <2>7, <2>8, <2>13
      <4>4. evidence(i) \cap evidence(j) = {}
        BY <2>5, <4>3, EvidenceIsDistinct
      <4> QED
        BY <4>2, <4>4
    <3> QED
      BY <2>7, <2>8, <3>2, <3>3
  <2> QED
    BY <2>4, <2>5, <2>6, <2>10, <2>11, <2>12, <2>13
<1> QED
  BY <1>1, CollectionInvariant, PTL

-----------------------------------------------------------------------------
(* The minute tables.                                                        *)

\* The last account in a list of a request is counted where it should be.
Punctual(r, list, end, table) ==
    list # <<>> =>
        \A i \in DOMAIN list[Len(list)].account.attempts :
            LET a == list[Len(list)].account.attempts[i] IN
            (a.supplier # None /\ list[Len(list)].saved <= a.at + MetricOverlap /\ list[Len(list)].saved < end)
                => [request |-> r, number |-> Len(list), ordinal |-> i] \in table[a.at]

LEMMA PunctualIsPerRequest ==
    PunctualFactsAreCounted <=> \A r \in Requests : Punctual(r, revisions[r], through, counted)
  BY DEF PunctualFactsAreCounted, Punctual, Current

LEMMA MinOfTwo ==
    ASSUME NEW a \in Int, NEW b \in Int
    PROVE  Min({a, b}) = IF a <= b THEN a ELSE b
<1>1. \E x \in {a, b} : \A y \in {a, b} : x <= y
  OBVIOUS
<1>2. Min({a, b}) \in {a, b} /\ \A y \in {a, b} : Min({a, b}) <= y
  BY <1>1, Zenon DEF Min
<1> QED
  BY <1>2

\* An attempt on a supplier happened at a second of the log, not after its account was saved.
LEMMA AttemptsHappened ==
    ASSUME CollectionInv, NEW r \in Requests, revisions[r] # <<>>,
           NEW i \in DOMAIN Current(r).account.attempts, Current(r).account.attempts[i].supplier # None
    PROVE  /\ Current(r).account.attempts[i].at \in Nat \ {0}
           /\ Current(r).account.attempts[i].at <= Current(r).saved
           /\ Current(r).saved \in Nat /\ Current(r).saved <= now
<1>1. revisions[r] \in Seq(Revisions) /\ \A k \in 1..Len(revisions[r]) : Grounded(r, revisions[r][k], visible, now)
  BY DEF CollectionInv, FactInv
<1>2. Len(revisions[r]) \in 1..Len(revisions[r])
  <2>1. Len(revisions[r]) \in Nat \ {0}
    BY <1>1, EmptySeq
  <2> QED
    BY <2>1
<1>3. Current(r) \in Revisions /\ Grounded(r, Current(r), visible, now)
  BY <1>1, <1>2, ElementOfSeq DEF Current
<1>4. PICK records \in (SUBSET visible) \ {{}} :
          /\ Current(r).account = Account(records)
          /\ \A l \in records : Log[l].request = r /\ Log[l].at <= Current(r).saved
  BY <1>3 DEF Grounded
<1>5. records \in SUBSET Logs /\ records # {}
  BY DEF CollectionInv, SourceInv, Expected
<1>6. Current(r).account.attempts = Attempts(records)
  BY <1>4 DEF Account, AccountOf
<1>7. PICK l \in EvidenceFor(records, Chain(records), i) : Attempts(records)[i] = Observed(Log[l].channel, l)
  BY <1>5, <1>6, AttemptsRestOnRecords
<1>8. l \in records
  BY <1>5, <1>6, <1>7, AttemptsRestOnRecords, EvidenceIsOfTheRequest
<1>9. Attempts(records)[i].at = Log[l].at
  BY <1>7 DEF Observed
<1>10. Log[l].at \in Nat \ {0} /\ Log[l].at <= Current(r).saved
  BY <1>4, <1>5, <1>8, LogTypes
<1>11. Current(r).saved \in Nat /\ Current(r).saved <= now
  BY <1>3 DEF Revisions, Grounded
<1> QED
  BY <1>6, <1>9, <1>10, <1>11

LEMMA CurrentIsCounted ==
    ASSUME NEW r \in Requests, revisions[r] # <<>>, NEW i \in DOMAIN Current(r).account.attempts,
           Current(r).account.attempts[i].supplier # None
    PROVE  [request |-> r, number |-> Len(revisions[r]), ordinal |-> i]
               \in CurrentAttempts(Current(r).account.attempts[i].at)
<1> DEFINE row == [request |-> r, number |-> Len(revisions[r]), ordinal |-> i]
<1>1. row \in AttemptRows(r) /\ row.ordinal = i
  BY DEF AttemptRows
<1> HIDE DEF row
<1> QED
  BY <1>1 DEF CurrentAttempts, row

LEMMA RefreshCounts ==
    ASSUME CollectionInv, Refresh, NEW r \in Requests, Punctual(r, revisions[r], through, counted)
    PROVE  Punctual(r, revisions[r], now, counted')
<1> DEFINE a(i) == Current(r).account.attempts[i]
<1> DEFINE row(i) == [request |-> r, number |-> Len(revisions[r]), ordinal |-> i]
<1> SUFFICES ASSUME revisions[r] # <<>>, NEW i \in DOMAIN Current(r).account.attempts,
                    a(i).supplier # None, Current(r).saved <= a(i).at + MetricOverlap, Current(r).saved < now
             PROVE  row(i) \in counted'[a(i).at]
  BY DEF Punctual, Current
<1>1. PICK minute \in Nat \ {0} : minute = a(i).at
  BY AttemptsHappened
<1>2. PICK saved \in Nat : saved = Current(r).saved /\ minute <= saved
  BY <1>1, AttemptsHappened
<1>3. /\ now \in Nat /\ now <= MaxTime /\ through \in Nat /\ through <= now
      /\ MetricOverlap \in Nat /\ MaxTime \in Nat
  BY BoundsAssumption DEF CollectionInv, SourceInv, CountInv
<1>4. minute \in 1..MaxTime /\ minute < now /\ saved <= minute + MetricOverlap
  BY <1>1, <1>2, <1>3
<1>5. counted'[minute] = IF RefreshStart(now) <= minute /\ minute < now
                         THEN CurrentAttempts(minute) ELSE counted[minute]
  BY <1>4 DEF Refresh
<1>6. CASE RefreshStart(now) <= minute
  BY <1>1, <1>4, <1>5, <1>6, CurrentIsCounted
<1>7. CASE ~(RefreshStart(now) <= minute)
  <2>1. Min({now, through}) = through \/ Min({now, through}) = now
    BY <1>3, MinOfTwo
  <2>2. Min({now, through}) = through
    BY <1>3, <2>1, MinOfTwo
  <2>3. minute < through - MetricOverlap
    BY <1>3, <1>4, <1>7, <2>2 DEF RefreshStart
  <2>4. saved < through
    BY <1>3, <1>4, <2>3
  <2>5. row(i) \in counted[minute]
    BY <1>1, <1>2, <1>4, <2>4 DEF Punctual, Current
  <2> QED
    BY <1>1, <1>5, <1>7, <2>5
<1> QED
  BY <1>6, <1>7

\* A fact that was saved at most MetricOverlap minutes after it happened is in the row of its
\* minute after the next refresh, whenever the refreshes run and whatever is revised meanwhile
\* (RefreshScoringMetrics and its start time, RefreshSupplierMinuteMetrics).
THEOREM PunctualFactsCount == Spec => []PunctualFactsAreCounted
<1>1. Init => PunctualFactsAreCounted
  BY DEF Init, PunctualFactsAreCounted
<1>2. ASSUME CollectionInv, PunctualFactsAreCounted, [Next]_vars
      PROVE  PunctualFactsAreCounted'
  <2>1. \A r \in Requests : Punctual(r, revisions[r], through, counted)
    BY <1>2, PunctualIsPerRequest
  <2>2. ASSUME NEW r \in Requests
        PROVE  Punctual(r, revisions'[r], through', counted')
    <3>1. CASE Refresh
      <4>1. revisions' = revisions /\ through' = now
        BY <3>1 DEF Refresh, factVars
      <4> QED
        BY <1>2, <2>1, <3>1, <4>1, RefreshCounts
    <3>2. CASE UNCHANGED metricVars /\ revisions'[r] = revisions[r]
      BY <2>1, <3>2 DEF metricVars
    <3>3. ASSUME UNCHANGED metricVars, NEW c \in Collectors, RecordsOf(collector[c].logs, r) # {},
                 revisions'[r] = Append(revisions[r], NewRevision(collector[c].logs, r))
          PROVE  Punctual(r, revisions'[r], through', counted')
      <4>1. PICK revision \in Revisions : revision = NewRevision(collector[c].logs, r)
        BY <1>2, <3>3, SavedIsGrounded
      <4>2. revision.saved = now
        BY <4>1 DEF NewRevision
      <4>3. revisions[r] \in Seq(Revisions)
        BY <1>2 DEF CollectionInv, FactInv
      <4> DEFINE list == Append(revisions[r], revision)
      <4>4. list[Len(list)] = revision
        BY <4>3, AppendProperties
      <4>5. ~(revision.saved < through)
        BY <1>2, <4>2 DEF CollectionInv, CountInv, SourceInv
      <4> HIDE DEF list
      <4>6. Punctual(r, list, through, counted)
        BY <4>4, <4>5 DEF Punctual
      <4>7. revisions'[r] = list /\ through' = through /\ counted' = counted
        BY <3>3, <4>1 DEF list, metricVars
      <4> QED
        BY <4>6, <4>7
    <3> QED
      BY <1>2, <3>1, <3>2, <3>3, RevisionsGrow, Untouched
  <2>3. PunctualFactsAreCounted' <=> \A r \in Requests : Punctual(r, revisions'[r], through', counted')
    BY PunctualIsPerRequest DEF PunctualFactsAreCounted, Punctual, Current
  <2> QED
    BY <2>2, <2>3
<1> QED
  BY <1>1, <1>2, CollectionInvariant, PTL DEF Spec

-----------------------------------------------------------------------------
(* Nothing is skipped.                                                       *)

\* A record that shows in every account made with it.  The last record of a request always
\* does; another one does when the chain has an attempt for it.
Lasting(l) ==
    Log[l].valid => \A records \in SUBSET RecordsOf(Logs, Log[l].request) :
        l \in records => \/ l = Terminal(records)
                         \/ \E i \in DOMAIN Attempts(records) : Attempts(records)[i].log = l

\* The first collection is made before its look-back has passed a record.
InReach == cursor.scanned = 0 => \A l \in Expected : now <= Log[l].at + Lookback

Busy(row) == row.pc \in {"reading", "saving"}

\* A collection knows the watermark of its last commit or an older one.
NotAhead(row, mark) == Busy(row) => row.scanned <= mark

\* It reads back over the overlap, or to before every record.
Reaches(row, expected) ==
    Busy(row) => \/ row.scanned # 0 /\ row.lower <= row.scanned - Overlap
                 \/ \A l \in expected : row.lower <= Log[l].at

UpTo(row) == row.pc = "saving" => \A l \in row.logs : Log[l].at <= row.todo[1].upto
MarkInv == \A c \in Collectors : /\ NotAhead(collector[c], cursor.scanned)
                                 /\ Reaches(collector[c], Expected)
                                 /\ UpTo(collector[c])

\* Accounts end with records that are not ahead of the watermark.
Behind(list, mark) ==
    \A i \in 1..Len(list) : \A l \in Logs :
        list[i].account.terminal = Position[l] => Log[l].at <= mark
BehindInv == \A r \in Requests : Behind(revisions[r], cursor.scanned)

\* Of two windows one was read later: what they have in common, it has too.
Covers(row, l) ==
    /\ row.todo[1].from - Overlap < Log[l].at
    /\ row.lower <= Log[l].at
    /\ Log[l].at <= row.todo[1].upto
Covered(p, q) == \A l \in p.logs : Covers(q, l) => l \in q.logs
Comparable(p, q) == p.pc = "saving" /\ q.pc = "saving" => Covered(p, q) \/ Covered(q, p)
OrderInv == readAlone \/ \A c, d \in Collectors : Comparable(collector[c], collector[d])

\* A collection whose watermark still holds has read the end of every account that is newer
\* than one of its records, unless an account has that record already.
Kept(l, list) ==
    \E i \in 1..Len(list) :
        \/ list[i].account.terminal = Position[l]
        \/ \E k \in DOMAIN list[i].account.attempts : list[i].account.attempts[k].log = l
NotOvertaken(row, mark, facts) ==
    row.pc = "saving" /\ row.scanned = mark =>
        \A l \in row.logs : Lasting(l) /\ Log[l].valid /\ mark - Overlap < Log[l].at =>
            \A i \in 1..Len(facts[Log[l].request]) :
                LET last == facts[Log[l].request][i].account.terminal IN
                Position[l] < last =>
                    \/ Kept(l, facts[Log[l].request])
                    \/ \E t \in RecordsOf(row.logs, Log[l].request) : Position[t] = last
OvertakeInv ==
    readAlone \/ \A c \in Collectors : NotOvertaken(collector[c], cursor.scanned, revisions)

\* Once no later collection can reach it, a lasting record is in the facts or in quarantine.
LastingAreTaken ==
    readAlone \/ \A l \in Expected :
        Lasting(l) /\ Log[l].at <= cursor.scanned - Overlap => Taken(l)

LEMMA BusyRow ==
    ASSUME CollectionInv, NEW c \in Collectors, Busy(collector[c])
    PROVE  LET row == collector[c]
               w == collector[c].todo[1]
           IN /\ row \in Readers /\ Window(c) = w
              /\ row.scanned \in Nat /\ row.lower \in Int /\ row.started <= now
              /\ w.from \in Nat /\ w.upto \in Nat /\ w.from <= w.upto /\ 0 < w.upto
              /\ w.from = IF row.scanned = 0 THEN row.lower - 1 ELSE row.scanned
              /\ row.logs \subseteq visible
<1> DEFINE row == collector[c]
<1>1. row \in Readers /\ Reading(row, Expected, visible, now, readAlone)
  BY DEF CollectionInv, ReadInv
<1>2. Contiguous(row.todo, row.started) /\ Continues(row) /\ row.started <= now /\ row.logs \subseteq visible
  BY <1>1 DEF Reading, Busy
<1>3. /\ Head(row.todo) = row.todo[1] /\ row.todo[1] \in Windows
      /\ row.todo[1].from <= row.todo[1].upto /\ 0 < row.todo[1].upto
  BY <1>1, <1>2, WindowIsOne
<1>4. row.scanned \in Nat /\ row.lower \in Int
  BY <1>1 DEF Readers
<1>5. row.todo[1].from \in Nat /\ row.todo[1].upto \in Nat
  BY <1>3 DEF Windows
<1>6. row.todo[1].from = IF row.scanned = 0 THEN row.lower - 1 ELSE row.scanned
  BY <1>2 DEF Continues
<1> QED
  BY <1>1, <1>2, <1>3, <1>4, <1>5, <1>6 DEF Window

LEMMA SaveMoves ==
    ASSUME CollectionInv, NEW c \in Collectors, Save(c)
    PROVE  /\ Busy(collector[c]) /\ collector[c].pc = "saving"
           /\ cursor.scanned = collector[c].scanned
           /\ cursor'.scanned = collector[c].todo[1].upto
           /\ cursor.scanned \in Nat /\ cursor'.scanned \in Nat /\ 0 < cursor'.scanned
           /\ cursor.scanned <= cursor'.scanned
<1>1. Busy(collector[c]) /\ collector[c].pc = "saving" /\ cursor.scanned = collector[c].scanned
      /\ cursor'.scanned = Window(c).upto
  BY DEF Save, SameWatermark, Busy
<1> QED
  BY <1>1, BusyRow

\* Only a commit moves the watermark, and only forward.
LEMMA MarkGrows ==
    ASSUME CollectionInv, [Next]_vars
    PROVE  /\ cursor.scanned \in Nat /\ cursor'.scanned \in Nat /\ cursor.scanned <= cursor'.scanned
           /\ cursor'.scanned = cursor.scanned \/ \E c \in Collectors : Save(c)
<1>1. cursor.scanned \in Nat
  BY DEF CollectionInv, CursorInv
<1>2. ASSUME NEW c \in Collectors, Stops(c)
      PROVE  cursor'.scanned = cursor.scanned
  BY <1>2 DEF Stops, CollectionInv, CursorInv
<1> QED
  BY <1>1, <1>2, SaveMoves, Untouched

\* What a step of a collector makes of its row.
Moves(c, row) ==
    \/ ~Busy(row)
    \/ /\ Load(c) /\ row.pc = "reading" /\ row.scanned = cursor.scanned
       /\ row.lower = LowerBound(collector[c].started)
    \/ /\ Split(c) /\ row.pc = "reading" /\ row.scanned = collector[c].scanned
       /\ row.lower = collector[c].lower
    \/ /\ Save(c) /\ row.pc = "reading" /\ row.scanned = cursor'.scanned
       /\ row.lower = collector[c].lower
    \/ /\ Read(c) \/ ReadSecond(c)
       /\ row.pc = "saving" /\ row.scanned = collector[c].scanned
       /\ row.lower = collector[c].lower /\ row.todo = collector[c].todo
       /\ Read(c) => row.logs = WindowLogs(c)
       /\ ReadSecond(c) => row.logs = Within(Window(c).upto, Window(c).upto)

LEMMA RowMoves ==
    ASSUME CollectionInv, [Next]_vars, NEW c \in Collectors,
           Start(c) \/ Load(c) \/ Read(c) \/ Split(c) \/ ReadSecond(c) \/ Save(c) \/ Stops(c)
    PROVE  Moves(c, collector'[c]) /\ \A d \in Collectors \ {c} : collector'[d] = collector[d]
<1> DEFINE old == collector[c]
<1>1. collector \in [Collectors -> Readers] /\ old \in Readers
  BY DEF CollectionInv, ReadInv
<1>2. CASE Start(c)
  <2>1. collector' = [collector EXCEPT ![c] = [Idle EXCEPT !.pc = "started", !.started = now]]
    BY <1>2, Zenon DEF Start
  <2>2. [Idle EXCEPT !.pc = "started", !.started = now]
           = Row("started", now, Idle.event, Idle.scanned, Idle.lower, Idle.todo, Idle.logs)
    BY StartedRow, IdleIsARow, Zenon
  <2>3. collector' = [collector EXCEPT ![c] =
            Row("started", now, Idle.event, Idle.scanned, Idle.lower, Idle.todo, Idle.logs)]
    BY <2>1, <2>2, Zenon
  <2> QED
    BY <1>1, <2>3 DEF Row, Moves, Busy
<1>3. CASE Load(c)
  <2> DEFINE windows == <<[from |-> ScanStart(old.started), upto |-> old.started]>>
  <2>1. collector' = [collector EXCEPT ![c] =
          [@ EXCEPT !.pc = "reading", !.event = cursor.event, !.scanned = cursor.scanned,
                    !.lower = LowerBound(old.started), !.todo = windows]]
    BY <1>3, Zenon DEF Load
  <2>2. [old EXCEPT !.pc = "reading", !.event = cursor.event, !.scanned = cursor.scanned,
                    !.lower = LowerBound(old.started), !.todo = windows]
          = Row("reading", old.started, cursor.event, cursor.scanned, LowerBound(old.started),
                windows, old.logs)
    BY <1>1, LoadedRow, ZenonT(40)
  <2> HIDE DEF windows
  <2>3. collector' = [collector EXCEPT ![c] =
           Row("reading", old.started, cursor.event, cursor.scanned, LowerBound(old.started),
               windows, old.logs)]
    BY <2>1, <2>2, Zenon
  <2> QED
    BY <1>1, <1>3, <2>3 DEF Row, Moves
<1>4. ASSUME NEW logs, collector' = [collector EXCEPT ![c].pc = "saving", ![c].logs = logs]
      PROVE  /\ collector'[c].pc = "saving" /\ collector'[c].scanned = old.scanned
             /\ collector'[c].lower = old.lower /\ collector'[c].todo = old.todo
             /\ collector'[c].logs = logs
             /\ \A d \in Collectors \ {c} : collector'[d] = collector[d]
  <2>1. collector' = [collector EXCEPT ![c] = [old EXCEPT !.pc = "saving", !.logs = logs]]
    BY <1>1, <1>4, Zenon
  <2>2. [old EXCEPT !.pc = "saving", !.logs = logs]
          = Row("saving", old.started, old.event, old.scanned, old.lower, old.todo, logs)
    BY <1>1, ReadRow, Zenon
  <2>3. collector' = [collector EXCEPT ![c] =
            Row("saving", old.started, old.event, old.scanned, old.lower, old.todo, logs)]
    BY <2>1, <2>2, Zenon
  <2> QED
    BY <1>1, <2>3 DEF Row
<1>5. CASE Read(c)
  <2>1. collector' = [collector EXCEPT ![c].pc = "saving", ![c].logs = WindowLogs(c)] /\ ~ReadSecond(c)
    BY <1>5 DEF Read, ReadSecond
  <2> QED
    BY <1>4, <1>5, <2>1 DEF Moves
<1>6. CASE ReadSecond(c)
  <2>1. collector' = [collector EXCEPT ![c].pc = "saving", ![c].logs = Within(Window(c).upto, Window(c).upto)]
        /\ ~Read(c)
    BY <1>6 DEF Read, ReadSecond
  <2> QED
    BY <1>4, <1>6, <2>1 DEF Moves
<1>7. CASE Split(c)
  <2>1. \E todo : collector' = [collector EXCEPT ![c].todo = todo]
    BY <1>7, Zenon DEF Split
  <2>2. PICK todo : collector' = [collector EXCEPT ![c].todo = todo]
    BY <2>1
  <2>3. collector' = [collector EXCEPT ![c] = [old EXCEPT !.todo = todo]]
    BY <1>1, <2>2, Zenon
  <2>4. [old EXCEPT !.todo = todo]
          = Row(old.pc, old.started, old.event, old.scanned, old.lower, todo, old.logs)
    BY <1>1, SplitRow, Zenon
  <2>5. collector' = [collector EXCEPT ![c] =
            Row(old.pc, old.started, old.event, old.scanned, old.lower, todo, old.logs)]
    BY <2>3, <2>4, Zenon
  <2>6. old.pc = "reading"
    BY <1>7 DEF Split
  <2> QED
    BY <1>1, <1>7, <2>5, <2>6 DEF Row, Moves
<1>8. CASE Save(c)
  <2> DEFINE event == Max({old.event} \cup {Position[l] : l \in old.logs})
  <2> DEFINE rest == Tail(old.todo)
  <2>1. collector' = [collector EXCEPT ![c] =
            IF rest = <<>> THEN Idle
            ELSE [old EXCEPT !.pc = "reading", !.event = event, !.scanned = Window(c).upto,
                             !.todo = rest, !.logs = {}]]
    BY <1>8, Zenon DEF Save
  <2>2. cursor'.scanned = Window(c).upto
    BY <1>8 DEF Save
  <2> HIDE DEF event, rest
  <2>3. [old EXCEPT !.pc = "reading", !.event = event, !.scanned = Window(c).upto, !.todo = rest, !.logs = {}]
           = Row("reading", old.started, event, Window(c).upto, old.lower, rest, {})
    BY <1>1, SavedRow, Zenon
  <2>4. CASE rest = <<>>
    <3>1. collector' = [collector EXCEPT ![c] = Idle]
      BY <2>1, <2>4, Zenon
    <3> QED
      BY <1>1, <3>1 DEF Idle, Moves, Busy
  <2>5. CASE rest # <<>>
    <3>1. collector' = [collector EXCEPT ![c] =
              Row("reading", old.started, event, Window(c).upto, old.lower, rest, {})]
      BY <2>1, <2>3, <2>5, Zenon
    <3> QED
      BY <1>1, <1>8, <2>2, <3>1 DEF Row, Moves
  <2> QED
    BY <2>4, <2>5
<1>9. CASE Stops(c)
  BY <1>1, <1>9 DEF Stops, Idle, Moves, Busy
<1> QED
  BY <1>2, <1>3, <1>5, <1>6, <1>7, <1>8, <1>9

\* A step of no collector changes none of their rows.
LEMMA RowsStay ==
    ASSUME CollectionInv, [Next]_vars
    PROVE  \/ collector' = collector
           \/ \E c \in Collectors :
                 Start(c) \/ Load(c) \/ Read(c) \/ Split(c) \/ ReadSecond(c) \/ Save(c) \/ Stops(c)
  BY StepKinds DEF Tick, Refresh, Publish, vars

\* What a collector reads is what the gateway shows of its window.
LEMMA WindowIsCovered ==
    ASSUME CollectionInv, NEW c \in Collectors, collector[c].pc = "reading"
    PROVE  WindowLogs(c) = {l \in visible : Covers(collector[c], l)}
<1> DEFINE row == collector[c]
<1> DEFINE w == row.todo[1]
<1>1. /\ Window(c) = w /\ w.from \in Nat /\ w.upto \in Nat /\ row.lower \in Int
  BY BusyRow DEF Busy
<1>2. Overlap \in Nat
  BY BoundsAssumption
<1> DEFINE first == Max({w.from - Overlap + 1, row.lower})
<1>3. first = IF w.from - Overlap + 1 >= row.lower THEN w.from - Overlap + 1 ELSE row.lower
  BY <1>1, <1>2, MaxOfTwo
<1>4. WindowLogs(c) = {l \in visible : first <= Log[l].at /\ Log[l].at <= w.upto}
  BY <1>1 DEF WindowLogs, Within
<1>5. \A l \in visible : Log[l].at \in Nat
  BY LogTypes DEF CollectionInv, SourceInv, Expected
<1> HIDE DEF first
<1>6. \A l \in visible : (first <= Log[l].at /\ Log[l].at <= w.upto) <=> Covers(row, l)
  BY <1>1, <1>2, <1>3, <1>5 DEF Covers
<1> QED
  BY <1>4, <1>6

LEMMA MarkStep ==
    ASSUME CollectionInv, MarkInv, InReach, [Next]_vars
    PROVE  MarkInv'
<1>1. /\ Expected' = Expected /\ cursor.scanned \in Nat /\ cursor'.scanned \in Nat
      /\ cursor.scanned <= cursor'.scanned
  BY SourcesGrow, MarkGrows DEF CollectionInv
<1>2. Overlap \in Nat /\ Lookback \in Nat /\ now \in Nat /\ \A l \in Expected : Log[l].at \in Nat
  BY BoundsAssumption, LogTypes DEF CollectionInv, SourceInv, Expected
<1>3. ASSUME NEW d \in Collectors
      PROVE  /\ NotAhead(collector[d], cursor'.scanned)
             /\ Reaches(collector[d], Expected)
             /\ UpTo(collector[d])
  <2>1. Busy(collector[d]) => collector[d].scanned \in Nat
    BY BusyRow
  <2> QED
    BY <1>1, <2>1 DEF MarkInv, NotAhead
<1>4. ASSUME NEW c \in Collectors,
             Start(c) \/ Load(c) \/ Read(c) \/ Split(c) \/ ReadSecond(c) \/ Save(c) \/ Stops(c),
             NEW row, row = collector'[c]
      PROVE  NotAhead(row, cursor'.scanned) /\ Reaches(row, Expected) /\ UpTo(row)
  <2> DEFINE old == collector[c]
  <2>1. Moves(c, row)
    BY <1>4, RowMoves
  <2>2. CASE ~Busy(row)
    BY <2>2 DEF NotAhead, Reaches, UpTo, Busy
  <2>3. CASE /\ Load(c) /\ row.pc = "reading" /\ row.scanned = cursor.scanned
             /\ row.lower = LowerBound(old.started)
    <3>1. old \in Readers /\ Reading(old, Expected, visible, now, readAlone) /\ old.pc = "started"
      BY <2>3 DEF CollectionInv, ReadInv, Load
    <3>2. old.started \in Nat /\ old.started <= now
      BY <3>1 DEF Readers, Reading
    <3>3. CASE cursor.scanned = 0
      <4>1. row.lower = old.started - Lookback
        BY <2>3, <3>3 DEF LowerBound
      <4>2. \A l \in Expected : now <= Log[l].at + Lookback
        BY <3>3 DEF InReach
      <4>3. \A l \in Expected : row.lower <= Log[l].at
        BY <1>2, <3>2, <4>1, <4>2
      <4> QED
        BY <1>1, <2>3, <4>3 DEF NotAhead, Reaches, UpTo
    <3>4. CASE cursor.scanned # 0
      <4>1. row.lower = cursor.scanned - Overlap
        BY <2>3, <3>4 DEF LowerBound
      <4>2. row.lower <= row.scanned - Overlap
        BY <1>1, <1>2, <2>3, <4>1
      <4> QED
        BY <1>1, <2>3, <3>4, <4>2 DEF NotAhead, Reaches, UpTo
    <3> QED
      BY <3>3, <3>4
  <2>4. CASE /\ Split(c) /\ row.pc = "reading" /\ row.scanned = old.scanned /\ row.lower = old.lower
    <3>1. Busy(old)
      BY <2>4 DEF Split, Busy
    <3> QED
      BY <1>3, <2>4, <3>1 DEF NotAhead, Reaches, UpTo
  <2>5. CASE /\ Save(c) /\ row.pc = "reading" /\ row.scanned = cursor'.scanned /\ row.lower = old.lower
    <3>1. Busy(old) /\ old.scanned = cursor.scanned /\ 0 < cursor'.scanned
      BY <2>5, SaveMoves
    <3>2. Reaches(old, Expected) /\ old.lower \in Int
      BY <1>3, <3>1, BusyRow
    <3>3. Reaches(row, Expected)
      BY <1>1, <1>2, <2>5, <3>1, <3>2 DEF Reaches
    <3> QED
      BY <1>1, <2>5, <3>3 DEF NotAhead, UpTo
  <2>6. CASE /\ Read(c) \/ ReadSecond(c)
             /\ row.pc = "saving" /\ row.scanned = old.scanned
             /\ row.lower = old.lower /\ row.todo = old.todo
             /\ Read(c) => row.logs = WindowLogs(c)
             /\ ReadSecond(c) => row.logs = Within(Window(c).upto, Window(c).upto)
    <3>1. Busy(old) /\ old.pc = "reading"
      BY <2>6 DEF Read, ReadSecond, Busy
    <3>2. Window(c) = old.todo[1]
      BY <3>1, BusyRow
    <3>3. \A l \in row.logs : Log[l].at <= row.todo[1].upto
      BY <2>6, <3>1, <3>2, WindowIsCovered DEF Covers, Within
    <3> QED
      BY <1>3, <2>6, <3>1, <3>3 DEF NotAhead, Reaches, UpTo, Busy
  <2> HIDE DEF old
  <2> QED
    BY <2>1, <2>2, <2>3, <2>4, <2>5, <2>6 DEF Moves, old
<1>5. MarkInv' <=> \A d \in Collectors : /\ NotAhead(collector'[d], cursor'.scanned)
                                         /\ Reaches(collector'[d], Expected')
                                         /\ UpTo(collector'[d])
  BY Zenon DEF MarkInv
<1>6. ASSUME NEW d \in Collectors
      PROVE  /\ NotAhead(collector'[d], cursor'.scanned)
             /\ Reaches(collector'[d], Expected)
             /\ UpTo(collector'[d])
  <2>1. CASE collector' = collector
    BY <1>3, <2>1
  <2>2. ASSUME NEW c \in Collectors,
               Start(c) \/ Load(c) \/ Read(c) \/ Split(c) \/ ReadSecond(c) \/ Save(c) \/ Stops(c)
        PROVE  /\ NotAhead(collector'[d], cursor'.scanned)
               /\ Reaches(collector'[d], Expected)
               /\ UpTo(collector'[d])
    <3>1. d # c => collector'[d] = collector[d]
      BY <2>2, RowMoves
    <3> QED
      BY <1>3, <1>4, <2>2, <3>1
  <2> QED
    BY <2>1, <2>2, RowsStay
<1> QED
  BY <1>1, <1>5, <1>6

\* Positions tell records apart.
LEMMA PositionOrders ==
    ASSUME NEW l \in Logs, NEW m \in Logs
    PROVE  /\ Position[l] \in Nat
           /\ Position[l] = Position[m] => l = m
           /\ Position[l] <= Position[m] => Log[l].at <= Log[m].at
<1>1. Position[l] \in Nat /\ Position[m] \in Nat
  BY PositionType
<1>2. l = m \/ Older(l, m) \/ Older(m, l)
  BY OlderIsAnOrder
<1>3. Older(l, m) => Position[l] < Position[m]
  BY PositionGrows
<1>4. Older(m, l) => Position[m] < Position[l]
  BY PositionGrows
<1>5. Older(l, m) => Log[l].at <= Log[m].at
  BY LogTypes DEF Older
<1> QED
  BY <1>1, <1>2, <1>3, <1>4, <1>5, LogTypes

\* The account that a collector makes of a request ends with the last of its usable records.
LEMMA AccountEnds ==
    ASSUME CollectionInv, NEW c \in Collectors, NEW r \in Requests, RecordsOf(collector[c].logs, r) # {}
    PROVE  LET records == RecordsOf(collector[c].logs, r) IN
           /\ records \in SUBSET RecordsOf(Logs, r) /\ records \in SUBSET Logs
           /\ Terminal(records) \in records
           /\ Account(records).terminal = Position[Terminal(records)]
           /\ Account(records).attempts = Attempts(records)
           /\ \A l \in records : Position[l] <= Position[Terminal(records)]
<1> DEFINE records == RecordsOf(collector[c].logs, r)
<1>1. collector[c].logs \subseteq Logs
  BY DEF CollectionInv, ReadInv, Readers
<1>2. records \in SUBSET RecordsOf(Logs, r) /\ records \in SUBSET Logs
  BY <1>1 DEF RecordsOf
<1> HIDE DEF records
<1>3. /\ Terminal(records) \in records
      /\ \A m \in records \ {Terminal(records)} : Older(m, Terminal(records))
  BY <1>2, TerminalIsLast DEF records
<1>4. \A l \in records : Position[l] \in Nat
  BY <1>2, PositionOrders
<1>5. \A l \in records : Position[l] <= Position[Terminal(records)]
  <2> SUFFICES ASSUME NEW l \in records PROVE Position[l] <= Position[Terminal(records)]
    OBVIOUS
  <2>1. CASE l = Terminal(records)
    BY <1>4, <2>1
  <2>2. CASE l # Terminal(records)
    <3>1. Position[l] < Position[Terminal(records)]
      BY <1>2, <1>3, <2>2, PositionGrows
    <3> QED
      BY <1>3, <1>4, <3>1
  <2> QED
    BY <2>1, <2>2
<1>6. /\ Account(records).terminal = Position[Terminal(records)]
      /\ Account(records).attempts = Attempts(records)
  BY DEF Account, AccountOf
<1> QED
  BY <1>2, <1>3, <1>5, <1>6 DEF records

LEMMA BehindStep ==
    ASSUME CollectionInv, MarkInv, BehindInv, [Next]_vars
    PROVE  BehindInv'
<1>1. cursor.scanned \in Nat /\ cursor'.scanned \in Nat /\ cursor.scanned <= cursor'.scanned
  BY MarkGrows
<1>2. \A l \in Logs : Log[l].at \in Nat
  BY LogTypes
<1>3. ASSUME NEW r \in Requests
      PROVE  Behind(revisions'[r], cursor'.scanned)
  <2>1. Behind(revisions[r], cursor'.scanned)
    BY <1>1, <1>2 DEF BehindInv, Behind
  <2>2. ASSUME NEW c \in Collectors, Save(c), RecordsOf(collector[c].logs, r) # {},
               revisions'[r] = Append(revisions[r], NewRevision(collector[c].logs, r))
        PROVE  Behind(revisions'[r], cursor'.scanned)
    <3> DEFINE records == RecordsOf(collector[c].logs, r)
    <3>1. revisions[r] \in Seq(Revisions) /\ NewRevision(collector[c].logs, r) \in Revisions
      BY <2>2, SavedIsGrounded DEF CollectionInv, FactInv
    <3>2. /\ Len(revisions'[r]) = Len(revisions[r]) + 1 /\ Len(revisions[r]) \in Nat
          /\ \A i \in 1..Len(revisions[r]) : revisions'[r][i] = revisions[r][i]
          /\ revisions'[r][Len(revisions[r]) + 1] = NewRevision(collector[c].logs, r)
      BY <2>2, <3>1, AppendProperties, LenProperties
    <3>3. /\ Terminal(records) \in records /\ records \in SUBSET Logs
          /\ Account(records).terminal = Position[Terminal(records)]
      BY <2>2, AccountEnds
    <3>4. NewRevision(collector[c].logs, r).account.terminal = Position[Terminal(records)]
      BY <3>3 DEF NewRevision
    <3>5. collector[c].pc = "saving" /\ cursor'.scanned = collector[c].todo[1].upto
      BY <2>2, SaveMoves
    <3>6. Terminal(records) \in collector[c].logs
      BY <3>3 DEF RecordsOf
    <3> HIDE DEF records
    <3>7. Log[Terminal(records)].at <= cursor'.scanned
      BY <3>5, <3>6 DEF MarkInv, UpTo
    <3>8. ASSUME NEW i \in 1..Len(revisions'[r]), NEW l \in Logs,
                 revisions'[r][i].account.terminal = Position[l]
          PROVE  Log[l].at <= cursor'.scanned
      <4>1. CASE i \in 1..Len(revisions[r])
        BY <2>1, <3>2, <3>8, <4>1 DEF Behind
      <4>2. CASE i = Len(revisions[r]) + 1
        <5>1. Position[l] = Position[Terminal(records)]
          BY <3>2, <3>4, <3>8, <4>2
        <5>2. l = Terminal(records)
          BY <3>3, <5>1, PositionOrders
        <5> QED
          BY <3>7, <5>2
      <4> QED
        BY <3>2, <4>1, <4>2
    <3> QED
      BY <3>8 DEF Behind
  <2> QED
    BY <2>1, <2>2, RevisionsGrow
<1>4. BehindInv' <=> \A r \in Requests : Behind(revisions'[r], cursor'.scanned)
  BY Zenon DEF BehindInv
<1> QED
  BY <1>3, <1>4

LEMMA OrderStep ==
    ASSUME CollectionInv, OrderInv, [Next]_vars
    PROVE  OrderInv'
<1>1. OrderInv' <=> readAlone' \/ \A c, d \in Collectors : Comparable(collector'[c], collector'[d])
  BY Zenon DEF OrderInv
<1> SUFFICES ASSUME ~readAlone' PROVE \A c, d \in Collectors : Comparable(collector'[c], collector'[d])
  BY <1>1
<1>2. ~(\E c \in Collectors : ReadSecond(c))
  BY DEF ReadSecond
<1>3. ~readAlone
  BY <1>2, Untouched
<1>4. \A c, d \in Collectors : Comparable(collector[c], collector[d])
  BY <1>3 DEF OrderInv
<1>5. \A p, q : Comparable(p, q) <=> Comparable(q, p)
  BY DEF Comparable
<1>6. ASSUME NEW c \in Collectors,
             Start(c) \/ Load(c) \/ Read(c) \/ Split(c) \/ Save(c) \/ Stops(c),
             NEW d \in Collectors, NEW row, row = collector'[c]
      PROVE  Comparable(collector'[d], row)
  <2>1. Moves(c, row) /\ (d # c => collector'[d] = collector[d])
    BY <1>6, RowMoves
  <2>2. CASE row.pc # "saving"
    BY <2>2 DEF Comparable
  <2>3. CASE row.pc = "saving"
    <3>1. Busy(row)
      BY <2>3 DEF Busy
    <3>2. /\ Read(c) /\ row.lower = collector[c].lower /\ row.todo = collector[c].todo
          /\ row.logs = WindowLogs(c)
      BY <1>2, <2>1, <2>3, <3>1 DEF Moves
    <3>3. collector[c].pc = "reading"
      BY <3>2 DEF Read
    <3>4. row.logs = {l \in visible : Covers(collector[c], l)}
      BY <3>2, <3>3, WindowIsCovered
    <3>5. \A l : Covers(collector[c], l) <=> Covers(row, l)
      BY <3>2 DEF Covers
    <3>6. CASE d = c
      BY <1>6, <3>6 DEF Comparable, Covered
    <3>7. CASE d # c
      <4>1. collector[d].logs \subseteq visible
        BY DEF CollectionInv, ReadInv, Reading
      <4>2. Covered(collector[d], row)
        BY <3>4, <3>5, <4>1 DEF Covered
      <4> QED
        BY <2>1, <3>7, <4>2 DEF Comparable
    <3> QED
      BY <3>6, <3>7
  <2> QED
    BY <2>2, <2>3
<1>7. CASE collector' = collector
  BY <1>4, <1>7
<1>8. ASSUME NEW e \in Collectors,
             Start(e) \/ Load(e) \/ Read(e) \/ Split(e) \/ Save(e) \/ Stops(e),
             NEW c \in Collectors, NEW d \in Collectors
      PROVE  Comparable(collector'[c], collector'[d])
  <2>1. \A x \in Collectors \ {e} : collector'[x] = collector[x]
    BY <1>8, RowMoves
  <2>2. CASE d = e
    BY <1>6, <1>8, <2>2
  <2>3. CASE c = e
    BY <1>5, <1>6, <1>8, <2>3
  <2>4. CASE c # e /\ d # e
    BY <1>4, <2>1, <2>4
  <2> QED
    BY <2>2, <2>3, <2>4
<1> QED
  BY <1>2, <1>7, <1>8, RowsStay

\* What a commit stores of a request keeps every lasting record it was made from.
LEMMA StoredIsKept ==
    ASSUME CollectionInv, NEW c \in Collectors, NEW l \in collector[c].logs,
           Log[l].valid, Lasting(l), NEW list \in Seq(Revisions), NEW more,
           more = Append(list, NewRevision(collector[c].logs, Log[l].request))
    PROVE  Kept(l, more)
<1> DEFINE r == Log[l].request
<1> DEFINE records == RecordsOf(collector[c].logs, r)
<1>1. l \in records /\ l \in Logs /\ r \in Requests
  <2>1. collector[c].logs \subseteq Logs
    BY DEF CollectionInv, ReadInv, Readers
  <2> QED
    BY <2>1 DEF RecordsOf, Requests
<1>2. /\ records \in SUBSET RecordsOf(Logs, r)
      /\ Account(records).terminal = Position[Terminal(records)]
      /\ Account(records).attempts = Attempts(records)
  BY <1>1, AccountEnds
<1>3. NewRevision(collector[c].logs, r) \in Revisions
  BY <1>1, SavedIsGrounded
<1>4. /\ Len(more) = Len(list) + 1 /\ Len(list) \in Nat
      /\ more[Len(list) + 1] = NewRevision(collector[c].logs, r)
  BY <1>3, AppendProperties, LenProperties
<1>5. NewRevision(collector[c].logs, r).account = Account(records)
  BY DEF NewRevision
<1> HIDE DEF records
<1>6. l = Terminal(records) \/ \E k \in DOMAIN Attempts(records) : Attempts(records)[k].log = l
  BY <1>1, <1>2 DEF Lasting
<1>7. Len(list) + 1 \in 1..Len(more)
  BY <1>4
<1> DEFINE last == more[Len(list) + 1]
<1>8. last.account.terminal = Position[l] \/ \E k \in DOMAIN last.account.attempts : last.account.attempts[k].log = l
  BY <1>2, <1>4, <1>5, <1>6
<1> QED
  BY <1>7, <1>8 DEF Kept

\* What is kept stays.
LEMMA KeptStays ==
    ASSUME CollectionInv, [Next]_vars, NEW l \in Logs, Kept(l, revisions[Log[l].request])
    PROVE  Kept(l, revisions'[Log[l].request])
<1> DEFINE r == Log[l].request
<1>1. r \in Requests
  BY DEF Requests
<1>2. CASE revisions'[r] = revisions[r]
  BY <1>2
<1>3. ASSUME NEW c \in Collectors, RecordsOf(collector[c].logs, r) # {},
             revisions'[r] = Append(revisions[r], NewRevision(collector[c].logs, r))
      PROVE  Kept(l, revisions'[r])
  <2>1. revisions[r] \in Seq(Revisions) /\ NewRevision(collector[c].logs, r) \in Revisions
    BY <1>1, <1>3, SavedIsGrounded DEF CollectionInv, FactInv
  <2>2. /\ Len(revisions'[r]) = Len(revisions[r]) + 1 /\ Len(revisions[r]) \in Nat
        /\ \A i \in 1..Len(revisions[r]) : revisions'[r][i] = revisions[r][i]
    BY <1>3, <2>1, AppendProperties, LenProperties
  <2>3. PICK i \in 1..Len(revisions[r]) :
            \/ revisions[r][i].account.terminal = Position[l]
            \/ \E k \in DOMAIN revisions[r][i].account.attempts : revisions[r][i].account.attempts[k].log = l
    BY DEF Kept
  <2>4. i \in 1..Len(revisions'[r]) /\ revisions'[r][i] = revisions[r][i]
    BY <2>2
  <2> HIDE DEF r
  <2> QED
    BY <2>3, <2>4 DEF Kept
<1> QED
  BY <1>1, <1>2, <1>3, RevisionsGrow

\* A collector that still holds the watermark reads every record of the last seconds of its
\* overlap, up to the end of its window.
LEMMA StillCovered ==
    ASSUME CollectionInv, MarkInv, NEW c \in Collectors, collector[c].pc = "saving",
           collector[c].scanned = cursor.scanned, cursor.scanned # 0,
           NEW l \in Expected, NEW t \in Logs, cursor.scanned - Overlap < Log[l].at,
           Log[l].at <= Log[t].at, Log[t].at <= collector[c].todo[1].upto
    PROVE  Covers(collector[c], t)
<1> DEFINE row == collector[c]
<1>1. /\ row.scanned \in Nat /\ row.lower \in Int
      /\ row.todo[1].from \in Nat /\ row.todo[1].upto \in Nat
      /\ row.todo[1].from = row.scanned
  BY BusyRow DEF Busy
<1>2. \/ row.lower <= row.scanned - Overlap
      \/ row.lower <= Log[l].at
  BY DEF MarkInv, Reaches, Busy
<1>3. Overlap \in Nat /\ Log[l].at \in Nat /\ Log[t].at \in Nat
  BY BoundsAssumption, LogTypes DEF Expected
<1> QED
  BY <1>1, <1>2, <1>3 DEF Covers

LEMMA OvertakeStep ==
    ASSUME CollectionInv, MarkInv, BehindInv, OrderInv, OvertakeInv, [Next]_vars
    PROVE  OvertakeInv'
<1>1. OvertakeInv' <=>
         readAlone' \/ \A c \in Collectors : NotOvertaken(collector'[c], cursor'.scanned, revisions')
  BY Zenon DEF OvertakeInv
<1> SUFFICES ASSUME ~readAlone', NEW c \in Collectors
             PROVE  NotOvertaken(collector'[c], cursor'.scanned, revisions')
  BY <1>1
<1>2. ~(\E d \in Collectors : ReadSecond(d))
  BY DEF ReadSecond
<1>3. ~readAlone
  BY <1>2, Untouched
<1>4. /\ NotOvertaken(collector[c], cursor.scanned, revisions)
      /\ \A d \in Collectors : Comparable(collector[c], collector[d])
  BY <1>3 DEF OrderInv, OvertakeInv
<1>5. /\ cursor.scanned \in Nat /\ cursor'.scanned \in Nat /\ cursor.scanned <= cursor'.scanned
      /\ cursor'.scanned = cursor.scanned \/ \E d \in Collectors : Save(d)
  BY MarkGrows
<1>6. \A l \in Logs : Log[l].request \in Requests /\ Log[l].at \in Nat
  BY LogTypes DEF Requests
<1> SUFFICES ASSUME collector'[c].pc = "saving", collector'[c].scanned = cursor'.scanned,
                    NEW l \in collector'[c].logs, Lasting(l), Log[l].valid, cursor'.scanned - Overlap < Log[l].at,
                    NEW i \in 1..Len(revisions'[Log[l].request]),
                    Position[l] < revisions'[Log[l].request][i].account.terminal
             PROVE  \/ Kept(l, revisions'[Log[l].request])
                    \/ \E t \in RecordsOf(collector'[c].logs, Log[l].request) :
                          Position[t] = revisions'[Log[l].request][i].account.terminal
  BY DEF NotOvertaken
<1> DEFINE r == Log[l].request
\* The collector has just read its window.
<1>7. CASE Read(c)
  <2>1. Moves(c, collector'[c]) /\ Busy(collector'[c])
    BY <1>7, RowMoves DEF Busy
  <2>2. /\ collector'[c].scanned = collector[c].scanned /\ collector'[c].logs = WindowLogs(c)
        /\ collector[c].pc = "reading" /\ UNCHANGED <<cursor, revisions>>
    BY <1>2, <1>7, <2>1 DEF Moves, Read, factVars
  <2>3. collector'[c].logs = {x \in visible : Covers(collector[c], x)}
    BY <2>2, WindowIsCovered
  <2>4. l \in visible /\ Covers(collector[c], l) /\ visible \subseteq Logs
    BY <2>3 DEF CollectionInv, SourceInv, Expected
  <2>5. r \in Requests
    BY <1>6, <2>4
  <2>6. revisions[r] \in Seq(Revisions) /\ Grounded(r, revisions[r][i], visible, now) /\ i \in 1..Len(revisions[r])
    BY <2>2, <2>5 DEF CollectionInv, FactInv
  <2>7. PICK records \in (SUBSET visible) \ {{}} :
            /\ revisions[r][i].account = Account(records)
            /\ \A x \in records : Log[x].request = r /\ Log[x].valid
    BY <2>6 DEF Grounded
  <2> DEFINE t == Terminal(records)
  <2>8. t \in records /\ t \in visible /\ t \in Logs
    BY <2>4, <2>7, TerminalIsLast
  <2>9. revisions[r][i].account.terminal = Position[t]
    BY <2>7 DEF Account, AccountOf
  <2>10. Log[l].at <= Log[t].at /\ Log[t].at <= cursor.scanned
    <3>1. Position[l] \in Nat /\ Position[t] \in Nat /\ Position[l] < Position[t]
      BY <2>2, <2>4, <2>8, <2>9, PositionOrders
    <3>2. Log[l].at <= Log[t].at
      BY <2>4, <2>8, <3>1, PositionOrders
    <3>3. Log[t].at <= cursor.scanned
      BY <2>5, <2>6, <2>8, <2>9 DEF BehindInv, Behind
    <3> QED
      BY <3>2, <3>3
  <2>11. /\ collector[c].scanned = cursor.scanned
         /\ collector[c].todo[1].from = IF collector[c].scanned = 0 THEN collector[c].lower - 1
                                        ELSE collector[c].scanned
         /\ collector[c].todo[1].from \in Nat /\ collector[c].todo[1].upto \in Nat
         /\ collector[c].todo[1].from <= collector[c].todo[1].upto /\ collector[c].lower \in Int
    BY <2>2, BusyRow DEF Busy
  <2>12. Log[t].at \in Nat \ {0} /\ Log[l].at \in Nat /\ Overlap \in Nat
    BY <2>4, <2>8, LogTypes, BoundsAssumption
  <2> HIDE DEF t
  <2>13. Covers(collector[c], t)
    <3>1. /\ collector[c].todo[1].from - Overlap < Log[l].at
          /\ collector[c].lower <= Log[l].at
      BY <2>4 DEF Covers
    <3>2. cursor.scanned # 0
      BY <1>5, <2>10, <2>12
    <3>3. Log[t].at <= collector[c].todo[1].upto
      BY <1>5, <2>10, <2>11, <2>12, <3>2
    <3> QED
      BY <2>10, <2>11, <2>12, <3>1, <3>3 DEF Covers
  <2>14. t \in collector'[c].logs
    BY <2>3, <2>8, <2>13
  <2>15. Log[t].valid /\ Log[t].request = r
    BY <2>7, <2>8
  <2> QED
    BY <2>2, <2>9, <2>14, <2>15 DEF RecordsOf
<1>8. CASE ~Read(c)
  <2>1. collector'[c] = collector[c]
    <3>1. CASE collector' = collector
      BY <3>1
    <3>2. ASSUME NEW d \in Collectors,
                 Start(d) \/ Load(d) \/ Read(d) \/ Split(d) \/ Save(d) \/ Stops(d)
          PROVE  collector'[c] = collector[c]
      <4>1. Moves(d, collector'[d]) /\ \A e \in Collectors \ {d} : collector'[e] = collector[e]
        BY <3>2, RowMoves
      <4>2. d # c
        BY <1>2, <1>8, <4>1 DEF Moves, Busy
      <4> QED
        BY <4>1, <4>2
    <3> QED
      BY <1>2, <3>1, <3>2, RowsStay
  <2>2. collector[c].scanned <= cursor.scanned /\ Busy(collector[c]) /\ collector[c].scanned \in Nat
    BY <2>1, BusyRow DEF MarkInv, NotAhead, Busy
  <2>3. cursor'.scanned = cursor.scanned /\ collector[c].scanned = cursor.scanned
    BY <1>5, <2>1, <2>2
  <2>4. l \in visible /\ l \in Expected /\ l \in Logs
    BY <2>1, <2>2, BusyRow DEF CollectionInv, SourceInv, Expected
  <2>5. r \in Requests
    BY <1>6, <2>4
  \* What was stored before.
  <2>6. ASSUME i \in 1..Len(revisions[r]), revisions'[r][i] = revisions[r][i]
        PROVE  \/ Kept(l, revisions'[r])
               \/ \E t \in RecordsOf(collector'[c].logs, r) : Position[t] = revisions'[r][i].account.terminal
    <3>1. \/ Kept(l, revisions[r])
          \/ \E t \in RecordsOf(collector[c].logs, r) : Position[t] = revisions[r][i].account.terminal
      BY <1>4, <2>1, <2>3, <2>6 DEF NotOvertaken
    <3> QED
      BY <2>1, <2>4, <2>6, <3>1, KeptStays
  \* What another collector stores now.
  <2>7. ASSUME NEW d \in Collectors, Save(d), RecordsOf(collector[d].logs, r) # {},
               revisions'[r] = Append(revisions[r], NewRevision(collector[d].logs, r))
        PROVE  \/ Kept(l, revisions'[r])
               \/ \E t \in RecordsOf(collector'[c].logs, r) : Position[t] = revisions'[r][i].account.terminal
    <3>1. revisions[r] \in Seq(Revisions) /\ NewRevision(collector[d].logs, r) \in Revisions
      BY <2>5, <2>7, SavedIsGrounded DEF CollectionInv, FactInv
    <3>2. /\ Len(revisions'[r]) = Len(revisions[r]) + 1 /\ Len(revisions[r]) \in Nat
          /\ \A j \in 1..Len(revisions[r]) : revisions'[r][j] = revisions[r][j]
          /\ revisions'[r][Len(revisions[r]) + 1] = NewRevision(collector[d].logs, r)
      BY <2>7, <3>1, AppendProperties, LenProperties
    <3>3. i \in 1..Len(revisions[r]) \/ i = Len(revisions[r]) + 1
      BY <3>2
    <3>4. CASE i = Len(revisions[r]) + 1
      <4> DEFINE records == RecordsOf(collector[d].logs, r)
      <4> DEFINE t == Terminal(records)
      <4>1. /\ records \in SUBSET Logs /\ t \in records /\ Account(records).terminal = Position[t]
        BY <2>5, <2>7, AccountEnds
      <4>2. revisions'[r][i].account.terminal = Position[t]
        BY <3>2, <3>4, <4>1 DEF NewRevision
      <4>3. t \in collector[d].logs /\ t \in Logs /\ Log[t].request = r /\ Log[t].valid
        BY <4>1 DEF RecordsOf
      <4> HIDE DEF records, t
      <4>4. Log[l].at <= Log[t].at
        <5>1. Position[l] \in Nat /\ Position[t] \in Nat /\ Position[l] < Position[t]
          BY <2>4, <4>2, <4>3, PositionOrders
        <5> QED
          BY <2>4, <4>3, <5>1, PositionOrders
      <4>5. /\ collector[d].pc = "saving" /\ collector[d].scanned = cursor.scanned /\ cursor.scanned # 0
            /\ cursor.scanned = collector[d].todo[1].upto
        BY <2>3, <2>7, SaveMoves
      <4>6. Log[t].at <= collector[d].todo[1].upto
        BY <4>3, <4>5 DEF MarkInv, UpTo
      <4>7. /\ collector[c].pc = "saving" /\ collector[c].todo[1].from = cursor.scanned
            /\ collector[c].todo[1].from <= collector[c].todo[1].upto
            /\ collector[c].todo[1].upto \in Nat
        BY <2>1, <2>2, <2>3, <4>5, BusyRow
      <4>8. Log[t].at \in Nat /\ Log[l].at \in Nat /\ Log[t].at <= collector[c].todo[1].upto
            /\ Log[l].at <= collector[d].todo[1].upto
        BY <1>5, <1>6, <2>4, <4>3, <4>4, <4>5, <4>6, <4>7
      <4>9. Comparable(collector[c], collector[d])
        BY <1>4
      <4>10. CASE Covered(collector[d], collector[c])
        <5>1. Covers(collector[c], t)
          BY <2>3, <2>4, <4>3, <4>4, <4>5, <4>7, <4>8, StillCovered
        <5>2. t \in collector'[c].logs
          BY <2>1, <4>3, <4>10, <5>1 DEF Covered
        <5> QED
          BY <4>2, <4>3, <5>2 DEF RecordsOf
      <4>11. CASE Covered(collector[c], collector[d])
        <5>1. Log[l].at <= Log[l].at
          BY <4>8
        <5>2. Covers(collector[d], l)
          BY <2>3, <2>4, <4>5, <4>8, <5>1, StillCovered
        <5>3. l \in collector[d].logs
          BY <2>1, <4>11, <5>2 DEF Covered
        <5> QED
          BY <2>7, <3>1, <5>3, StoredIsKept
      <4> QED
        BY <4>5, <4>7, <4>9, <4>10, <4>11 DEF Comparable
    <3> HIDE DEF r
    <3> QED
      BY <2>6, <3>2, <3>3, <3>4
  <2> HIDE DEF r
  <2> QED
    BY <2>5, <2>6, <2>7, RevisionsGrow DEF r
<1> QED
  BY <1>7, <1>8

LEMMA TakenIsKept ==
    ASSUME CollectionInv, NEW l \in Logs
    PROVE  Taken(l) <=> l \in quarantined \/ Kept(l, revisions[Log[l].request])
<1> DEFINE list == revisions[Log[l].request]
<1>1. list \in Seq(Revisions)
  BY DEF CollectionInv, FactInv, Requests
<1>2. DOMAIN list = 1..Len(list)
  BY <1>1, LenProperties
<1> HIDE DEF list
<1>3. Kept(l, list) <=>
        \E v \in Values(list) : v.account.terminal = Position[l] \/ \E a \in Values(v.account.attempts) : a.log = l
  BY <1>2, Zenon DEF Values, Kept
<1> QED
  BY <1>3, Zenon DEF Taken, list

\* A commit keeps the usable records that no later collection can reach.
LEMMA CommitKeeps ==
    ASSUME CollectionInv, MarkInv, OvertakeInv, ~readAlone, [Next]_vars, NEW c \in Collectors, Save(c),
           NEW l \in collector[c].logs, Lasting(l), Log[l].valid, cursor.scanned - Overlap < Log[l].at
    PROVE  Kept(l, revisions'[Log[l].request])
<1> DEFINE r == Log[l].request
<1> DEFINE logs == collector[c].logs
<1> DEFINE records == RecordsOf(logs, r)
<1>1. l \in Logs /\ r \in Requests /\ l \in records
  <2>1. logs \subseteq Logs
    BY DEF CollectionInv, ReadInv, Readers
  <2> QED
    BY <2>1 DEF RecordsOf, Requests
<1>2. revisions'[r] = IF r \in Rewritten(logs) THEN Append(revisions[r], NewRevision(logs, r)) ELSE revisions[r]
  BY <1>1, Zenon DEF Save
<1>3. revisions[r] \in Seq(Revisions)
  BY <1>1 DEF CollectionInv, FactInv
<1>4. CASE r \in Rewritten(logs)
  BY <1>1, <1>2, <1>3, <1>4, StoredIsKept
<1>5. CASE r \notin Rewritten(logs)
  <2> DEFINE n == Len(revisions[r])
  <2>1. revisions[r] # <<>> /\ ~Supersedes(Account(records), Current(r).account)
    BY <1>1, <1>5 DEF Rewritten, NewAccount
  <2>2. n \in Nat /\ n \in 1..n /\ Current(r) = revisions[r][n]
    BY <1>3, <2>1, EmptySeq, LenProperties DEF Current
  <2>3. PICK old \in (SUBSET Logs) \ {{}} : revisions[r][n].account = Account(old)
    <3>1. revisions[r][n] \in Revisions
      BY <1>3, <2>2, ElementOfSeq
    <3> QED
      BY <3>1 DEF Revisions, Accounts
  <2>4. /\ Account(records).terminal = Position[Terminal(records)] /\ Terminal(records) \in records
        /\ \A m \in records : Position[m] <= Position[Terminal(records)]
        /\ records \in SUBSET Logs /\ records \in SUBSET RecordsOf(Logs, r)
    BY <1>1, AccountEnds
  <2>5. /\ Account(old).source = SourceKey(Terminal(old), Attempts(old))
        /\ Account(old).terminal = Position[Terminal(old)]
        /\ Account(old).attempts = Attempts(old)
        /\ Account(records).source = SourceKey(Terminal(records), Attempts(records))
    BY DEF Account, AccountOf
  <2> HIDE DEF records
  <2>6. l = Terminal(records) \/ \E k \in DOMAIN Attempts(records) : Attempts(records)[k].log = l
    BY <1>1, <2>4 DEF Lasting
  \* The account says what the current one says.
  <2>7. CASE Account(records).source = Account(old).source
    <3> DEFINE table(attempts) == [k \in DOMAIN attempts |-> <<attempts[k].log, attempts[k].channel>>]
    <3>1. <<Terminal(records), table(Attempts(records))>> = <<Terminal(old), table(Attempts(old))>>
      BY <2>5, <2>7 DEF SourceKey
    <3>2. Terminal(records) = Terminal(old) /\ table(Attempts(records)) = table(Attempts(old))
      BY <3>1
    <3>3. \A k \in DOMAIN Attempts(records) :
            k \in DOMAIN Attempts(old) /\ Attempts(old)[k].log = Attempts(records)[k].log
      <4> SUFFICES ASSUME NEW k \in DOMAIN Attempts(records)
                   PROVE  k \in DOMAIN Attempts(old) /\ Attempts(old)[k].log = Attempts(records)[k].log
        OBVIOUS
      <4>1. DOMAIN table(Attempts(records)) = DOMAIN Attempts(records)
            /\ DOMAIN table(Attempts(old)) = DOMAIN Attempts(old)
        OBVIOUS
      <4>2. k \in DOMAIN Attempts(old)
        BY <3>2, <4>1
      <4>3. table(Attempts(records))[k] = <<Attempts(records)[k].log, Attempts(records)[k].channel>>
            /\ table(Attempts(old))[k] = <<Attempts(old)[k].log, Attempts(old)[k].channel>>
        BY <4>2
      <4>4. <<Attempts(records)[k].log, Attempts(records)[k].channel>>
              = <<Attempts(old)[k].log, Attempts(old)[k].channel>>
        BY <3>2, <4>3
      <4> QED
        BY <4>2, <4>4
    <3> HIDE DEF table
    <3>4. \/ revisions[r][n].account.terminal = Position[l]
          \/ \E k \in DOMAIN revisions[r][n].account.attempts : revisions[r][n].account.attempts[k].log = l
      BY <2>3, <2>5, <2>6, <3>2, <3>3
    <3>5. Kept(l, revisions[r])
      BY <2>2, <3>4 DEF Kept
    <3> QED
      BY <1>2, <1>5, <3>5
  \* The current account is newer.
  <2>8. CASE ~(Account(records).terminal >= Current(r).account.terminal)
    <3>1. Terminal(old) \in Logs /\ Terminal(records) \in Logs
      BY <2>3, <2>4, TerminalIsLast
    <3>2. /\ Position[l] \in Nat /\ Position[Terminal(old)] \in Nat /\ Position[Terminal(records)] \in Nat
          /\ Position[l] <= Position[Terminal(records)]
      BY <1>1, <2>4, <3>1, PositionOrders
    <3>3. Position[Terminal(records)] < revisions[r][n].account.terminal
          /\ Position[l] < revisions[r][n].account.terminal
      BY <2>2, <2>3, <2>4, <2>5, <2>8, <3>2
    <3>4. collector[c].pc = "saving" /\ collector[c].scanned = cursor.scanned
      BY SaveMoves
    <3>5. \/ Kept(l, revisions[r])
          \/ \E t \in records : Position[t] = revisions[r][n].account.terminal
      BY <2>2, <3>3, <3>4 DEF OvertakeInv, NotOvertaken, records
    <3>6. ASSUME NEW t \in records, Position[t] = revisions[r][n].account.terminal
          PROVE  FALSE
      <4>1. Position[t] \in Nat /\ Position[t] <= Position[Terminal(records)]
        BY <2>4, PositionOrders
      <4> QED
        BY <3>2, <3>3, <3>6, <4>1
    <3> QED
      BY <1>2, <1>5, <3>5, <3>6
  <2> QED
    BY <2>1, <2>2, <2>3, <2>7, <2>8 DEF Supersedes
<1> QED
  BY <1>4, <1>5

LEMMA TakenStep ==
    ASSUME CollectionInv, MarkInv, OvertakeInv, LastingAreTaken, [Next]_vars
    PROVE  LastingAreTaken'
<1>1. /\ Expected' = Expected /\ CollectionInv'
      /\ cursor.scanned \in Nat /\ cursor'.scanned \in Nat
      /\ cursor'.scanned = cursor.scanned \/ \E c \in Collectors : Save(c)
  BY SourcesGrow, MarkGrows, CollectionStep DEF CollectionInv
<1>2. readAlone => readAlone'
  BY Untouched DEF ReadSecond
<1>3. LastingAreTaken' <=>
         readAlone' \/ \A l \in Expected' :
             Lasting(l) /\ Log[l].at <= cursor'.scanned - Overlap => Taken(l)'
  BY Zenon DEF LastingAreTaken
<1>4. ASSUME ~readAlone', NEW l \in Expected, Lasting(l), Log[l].at <= cursor'.scanned - Overlap
      PROVE  Taken(l)'
  <2>1. l \in Logs /\ Log[l].at \in Nat /\ Overlap \in Nat
    BY LogTypes, BoundsAssumption DEF Expected
  <2>2. l \in quarantined \/ Kept(l, revisions[Log[l].request]) =>
          l \in quarantined' \/ Kept(l, revisions'[Log[l].request])
    <3>1. quarantined \subseteq quarantined'
      BY Untouched DEF factVars, Save, Quarantine
    <3> QED
      BY <2>1, <3>1, KeptStays
  <2>3. Taken(l)' <=> l \in quarantined' \/ Kept(l, revisions'[Log[l].request])
    <3> DEFINE list == revisions'[Log[l].request]
    <3>1. list \in Seq(Revisions)
      BY <1>1, <2>1 DEF CollectionInv, FactInv, Requests
    <3>2. DOMAIN list = 1..Len(list)
      BY <3>1, LenProperties
    <3>3. Taken(l)' <=> \/ l \in quarantined'
                        \/ \E v \in Values(revisions'[Log[l].request]) :
                              v.account.terminal = Position[l] \/ \E a \in Values(v.account.attempts) : a.log = l
      BY Zenon DEF Taken
    <3> HIDE DEF list
    <3>4. Kept(l, list) <=>
            \E v \in Values(list) : v.account.terminal = Position[l] \/ \E a \in Values(v.account.attempts) : a.log = l
      BY <3>2, Zenon DEF Values, Kept
    <3> QED
      BY <3>3, <3>4, Zenon DEF list
  <2>4. CASE Log[l].at <= cursor.scanned - Overlap
    <3>1. Taken(l)
      BY <1>2, <1>4, <2>4 DEF LastingAreTaken
    <3> QED
      BY <2>1, <2>2, <2>3, <3>1, TakenIsKept
  <2>5. CASE ~(Log[l].at <= cursor.scanned - Overlap)
    <3>1. PICK c \in Collectors : Save(c)
      BY <1>1, <1>4, <2>5
    <3> DEFINE row == collector[c]
    <3>2. /\ Busy(row) /\ row.pc = "saving" /\ cursor.scanned = row.scanned
          /\ cursor'.scanned = row.todo[1].upto /\ cursor.scanned - Overlap < Log[l].at
      BY <1>1, <2>1, <2>5, <3>1, SaveMoves
    <3>3. Complete(row, Expected)
      BY <1>2, <1>4, <3>2 DEF CollectionInv, ReadInv, Reading
    <3>4. /\ row.todo[1].from = IF row.scanned = 0 THEN row.lower - 1 ELSE row.scanned
          /\ row.lower \in Int
      BY <3>2, BusyRow
    <3>5. \/ row.scanned # 0 /\ row.lower <= row.scanned - Overlap
          \/ row.lower <= Log[l].at
      BY <3>2 DEF MarkInv, Reaches
    <3>6. row.todo[1].from - Overlap < Log[l].at /\ row.lower <= Log[l].at
      BY <1>1, <2>1, <3>2, <3>4, <3>5, BoundsAssumption
    <3>7. l \in row.logs
      BY <1>4, <3>2, <3>3, <3>6 DEF Complete
    <3>8. CASE ~Log[l].valid
      BY <2>3, <3>1, <3>7, <3>8 DEF Save, Quarantine
    <3>9. CASE Log[l].valid
      BY <1>2, <1>4, <2>3, <3>1, <3>2, <3>7, <3>9, CommitKeeps
    <3> QED
      BY <3>8, <3>9
  <2> QED
    BY <2>4, <2>5
<1> QED
  BY <1>1, <1>3, <1>4

\* The last record of a request is in every account made with it.
LEMMA LastIsLasting ==
    ASSUME NEW l \in Logs, Log[l].valid, NEW others \in SUBSET Logs,
           others = RecordsOf(Logs, Log[l].request) \ {l}, \A m \in others : Older(m, l)
    PROVE  Lasting(l)
<1> SUFFICES ASSUME NEW records \in SUBSET RecordsOf(Logs, Log[l].request), l \in records
             PROVE  l = Terminal(records)
  BY DEF Lasting
<1>1. records \in SUBSET Logs /\ records # {} /\ \A m \in records \ {l} : Older(m, l)
  BY DEF RecordsOf
<1>2. Terminal(records) \in records /\ \A m \in records \ {Terminal(records)} : Older(m, Terminal(records))
  BY <1>1, TerminalIsLast
<1>3. ASSUME l # Terminal(records)
      PROVE  FALSE
  BY <1>1, <1>2, <1>3, OlderIsAnOrder
<1> QED
  BY <1>3

\* Every record that shows in the accounts made with it is in the facts or in quarantine once no
\* later collection can reach it, unless a second had to be read alone: whatever collectors
\* overlap, fail, die and write in each other's windows (Collector.scanWindow, loadWindow,
\* CommitCollectionWindow, upsertMeasurementRequest).
THEOREM LastingRecordsAreTaken == Spec /\ []InReach => []LastingAreTaken
<1>1. Init => MarkInv /\ BehindInv /\ OrderInv /\ OvertakeInv /\ LastingAreTaken
  <2> SUFFICES ASSUME Init PROVE MarkInv /\ BehindInv /\ OrderInv /\ OvertakeInv /\ LastingAreTaken
    OBVIOUS
  <2>1. \A c \in Collectors : collector[c].pc = "idle"
    BY DEF Init, Idle
  <2>2. MarkInv /\ OrderInv /\ OvertakeInv
    BY <2>1 DEF MarkInv, OrderInv, OvertakeInv, NotAhead, Reaches, UpTo, Comparable, NotOvertaken, Busy
  <2>3. BehindInv
    <3>1. \A r \in Requests : Len(revisions[r]) = 0
      BY EmptySeq DEF Init
    <3> QED
      BY <3>1 DEF BehindInv, Behind
  <2>4. LastingAreTaken
    <3>1. cursor.scanned = 0 /\ Overlap \in Nat \ {0}
      BY BoundsAssumption DEF Init
    <3>2. \A l \in Expected : Log[l].at \in Nat
      BY LogTypes DEF Expected
    <3> QED
      BY <3>1, <3>2 DEF LastingAreTaken
  <2> QED
    BY <2>2, <2>3, <2>4
<1>2. CollectionInv /\ MarkInv /\ BehindInv /\ OrderInv /\ OvertakeInv /\ LastingAreTaken
        /\ InReach /\ [Next]_vars
        => MarkInv' /\ BehindInv' /\ OrderInv' /\ OvertakeInv' /\ LastingAreTaken'
  BY MarkStep, BehindStep, OrderStep, OvertakeStep, TakenStep
<1> QED
  BY <1>1, <1>2, CollectionInvariant, PTL DEF Spec

\* If every record shows in the accounts made with it, nothing is skipped.
THEOREM NothingIsSkipped ==
    ASSUME \A l \in Logs : Lasting(l)
    PROVE  Spec /\ []InReach => []NothingSkipped
<1>1. LastingAreTaken => NothingSkipped
  BY DEF LastingAreTaken, NothingSkipped, Expected
<1> QED
  BY <1>1, LastingRecordsAreTaken, PTL
=============================================================================
