--------------------------- MODULE DatasetProofs ---------------------------
(* Theorems about DatasetBuild, for any builders, instances and faults. *)
EXTENDS DatasetBuild, Recursion

-----------------------------------------------------------------------------
(* Evidence and audit: facts about the operators *)

\* While every run of a request is there, deletions elsewhere do not matter.
Same(s, o, req) == \A k \in DOMAIN req : s[req[k]] = o[req[k]]

LEMMA SameLedger ==
  ASSUME NEW s, NEW o, NEW req, Same(s, o, req)
  PROVE  LedgerOf(s, req) = LedgerOf(o, req)
<1>1. EpisodePlaces(s, req) = EpisodePlaces(o, req)
  BY DEF Same, EpisodePlaces
<1>2. RoundPlaces(s, req) = RoundPlaces(o, req)
  BY DEF Same, RoundPlaces
<1>3. \A p \in EpisodePlaces(o, req) : p[1] \in DOMAIN req
  BY DEF EpisodePlaces
<1>4. \A p \in RoundPlaces(o, req) : p[1] \in DOMAIN req
  BY DEF RoundPlaces
<1>5. [p \in EpisodePlaces(s, req) |-> s[req[p[1]]].episodes[p[2]]]
        = [p \in EpisodePlaces(o, req) |-> o[req[p[1]]].episodes[p[2]]]
  BY <1>1, <1>3 DEF Same
<1>6. [p \in RoundPlaces(s, req) |-> s[req[p[1]]].rounds[p[2]]]
        = [p \in RoundPlaces(o, req) |-> o[req[p[1]]].rounds[p[2]]]
  BY <1>2, <1>4 DEF Same
<1> QED BY <1>5, <1>6 DEF LedgerOf

LEMMA SameSources ==
  ASSUME NEW s, NEW o, NEW req, Same(s, o, req)
  PROVE  SourceRows(s, req) = SourceRows(o, req)
<1>1. \A k \in DOMAIN req : TasksOf(s, req[k]) = TasksOf(o, req[k])
  BY DEF Same, TasksOf
<1> QED BY <1>1 DEF Same, SourceRows

\* No example is taught for a write unless the Memory was offered later.
LEMMA NoCreditWithoutUse ==
  ASSUME NEW ledger, NEW m, Observed(ledger, m) = {}
  PROVE  ~Telling(Score(ledger, m))
<1>1. Chosen(ledger, m) = {}
  BY DEF Chosen
<1>2. \A g \in Groups : Within(ledger, Chosen(ledger, m), g) = {}
  BY <1>1 DEF Within
<1>3. Contrasts(ledger, m) = {}
  BY <1>2 DEF Contrasts
<1>4. Score(ledger, m).value = None
  BY <1>3 DEF Score
<1> QED BY <1>4 DEF Telling

\* The positions of a single run.
LEMMA OneRunPlaces ==
  ASSUME NEW s, NEW r
  PROVE  /\ EpisodePlaces(s, <<r>>) = {<<1, i>> : i \in DOMAIN s[r].episodes}
         /\ \A i \in DOMAIN s[r].episodes :
              LedgerOf(s, <<r>>).episodes[<<1, i>>] = s[r].episodes[i]
<1>1. DOMAIN <<r>> = {1} /\ <<r>>[1] = r
  OBVIOUS
<1>2. EpisodePlaces(s, <<r>>) = {<<1, i>> : i \in DOMAIN s[r].episodes}
  BY <1>1 DEF EpisodePlaces
<1> QED BY <1>1, <1>2 DEF LedgerOf

\* One run alone never teaches writing: what its tasks created was in no
\* snapshot they were offered Memories from (_build_episode_record), so that
\* no later use is ever observed and the write data of its dataset is empty.
THEOREM NoWritingFromOneRun ==
  ASSUME NEW s, NEW r, Buildable(s, <<r>>)
  PROVE  WritingExamples(LedgerOf(s, <<r>>), Scores(LedgerOf(s, <<r>>))) = {}
<1> DEFINE ledger == LedgerOf(s, <<r>>)
<1>1. \A i \in DOMAIN s[r].episodes : Vouched(s[r], s[r].episodes[i])
  <2>1. DOMAIN <<r>> = {1} /\ <<r>>[1] = r
    OBVIOUS
  <2> QED BY <2>1 DEF Buildable
<1>0. \A i \in DOMAIN s[r].episodes : ledger.episodes[<<1, i>>] = s[r].episodes[i]
  <2>1. TAKE i \in DOMAIN s[r].episodes
  <2>2. LedgerOf(s, <<r>>).episodes[<<1, i>>] = s[r].episodes[i]
    BY OneRunPlaces
  <2> QED BY <2>2
<1> HIDE DEF ledger
<1>2. Positions(ledger) = {<<1, i>> : i \in DOMAIN s[r].episodes}
  BY OneRunPlaces DEF Positions, LedgerOf, ledger
<1>3. ASSUME NEW p \in Positions(ledger), NEW m \in Written(ledger.episodes[p])
      PROVE  ~Telling(Scores(ledger)[m])
  <2>1. PICK i \in DOMAIN s[r].episodes : p = <<1, i>>
    BY <1>2
  <2>2. m \in s[r].episodes[i].created
    <3>1. ledger.episodes[p] = s[r].episodes[i]
      BY <2>1, <1>0
    <3> QED BY <3>1 DEF Written
  <2>3. m \notin s[r].input
    BY <1>1, <2>2 DEF Vouched
  <2>4. \A q \in Positions(ledger) : m \notin Candidates(ledger.episodes[q])
    <3>1. TAKE q \in Positions(ledger)
    <3>2. PICK j \in DOMAIN s[r].episodes : q = <<1, j>>
      BY <1>2
    <3>3. ledger.episodes[q] = s[r].episodes[j]
      BY <3>2, <1>0
    <3> QED BY <1>1, <2>3, <3>3 DEF Vouched
  <2>5. Observed(ledger, m) = {}
    BY <2>4 DEF Observed
  <2>6. m \in Known(ledger)
    <3>1. m \in Proposed(ledger.episodes[p])
      BY DEF Written, Proposed
    <3>2. m \in UNION {Candidates(ledger.episodes[q]) \cup Proposed(ledger.episodes[q])
                          : q \in Positions(ledger)}
      BY <3>1
    <3> QED BY <3>2 DEF Known
  <2>7. Scores(ledger)[m] = Score(ledger, m)
    BY <2>6 DEF Scores
  <2> QED BY <2>5, <2>7, NoCreditWithoutUse
<1> QED BY <1>3 DEF WritingExamples, ledger

-----------------------------------------------------------------------------
(* What is built passes the audit *)

LEMMA DerivedParts ==
  ASSUME NEW s, NEW req, NEW place
  PROVE  LET d == Derived(s, req, place)
         IN  /\ DOMAIN d = {"rows", "manifest"}
             /\ d.rows = RowsOf(LedgerOf(s, req))
             /\ d.rows.evidence = LedgerOf(s, req)
             /\ d.rows.scores = Scores(LedgerOf(s, req))
             /\ d.rows.examples = AllExamples(LedgerOf(s, req), Scores(LedgerOf(s, req)))
             /\ DOMAIN d.manifest
                  = {"place", "request", "sources", "chain", "artifacts", "counts"}
             /\ d.manifest.place = place /\ d.manifest.request = req
             /\ d.manifest.sources = SourceRows(s, req)
             /\ d.manifest.chain = SnapshotChain(SourceRows(s, req))
             /\ d.manifest.artifacts = d.rows
             /\ d.manifest.counts = Counts(d.rows)
BY DEF Derived, RowsOf

\* The tasks of a loadable request are all different.
LEMMA TasksDiffer ==
  ASSUME NEW s, NEW req, Loadable(s, req),
         NEW p \in EpisodePlaces(s, req), NEW q \in EpisodePlaces(s, req), p # q
  PROVE  LedgerOf(s, req).episodes[p].task # LedgerOf(s, req).episodes[q].task
<1>1. PICK k \in DOMAIN req : \E i \in DOMAIN s[req[k]].episodes : p = <<k, i>>
  BY DEF EpisodePlaces
<1>2. PICK l \in DOMAIN req : \E j \in DOMAIN s[req[l]].episodes : q = <<l, j>>
  BY DEF EpisodePlaces
<1> PICK i \in DOMAIN s[req[k]].episodes : p = <<k, i>>
  BY <1>1
<1> PICK j \in DOMAIN s[req[l]].episodes : q = <<l, j>>
  BY <1>2
<1>3. LedgerOf(s, req).episodes[p] = s[req[k]].episodes[i]
  BY DEF LedgerOf
<1>4. LedgerOf(s, req).episodes[q] = s[req[l]].episodes[j]
  BY DEF LedgerOf
<1>5. CASE k = l
  <2>1. i # j
    BY <1>5
  <2> QED BY <1>3, <1>4, <1>5, <2>1 DEF Loadable, TasksDistinct
<1>6. CASE k # l
  <2>1. s[req[k]].episodes[i].task \in TasksOf(s, req[k])
    BY DEF TasksOf
  <2>2. s[req[l]].episodes[j].task \in TasksOf(s, req[l])
    BY DEF TasksOf
  <2>3. TasksOf(s, req[k]) \cap TasksOf(s, req[l]) = {}
    BY <1>6 DEF Loadable
  <2> QED BY <1>3, <1>4, <2>1, <2>2, <2>3
<1> QED BY <1>5, <1>6

LEMMA DerivedEvidence ==
  ASSUME NEW s, NEW req, NEW place, Loadable(s, req)
  PROVE  EvidenceAccepted(Derived(s, req, place))
<1> DEFINE episodes == LedgerOf(s, req).episodes
<1>1. DOMAIN episodes = EpisodePlaces(s, req)
  BY DEF LedgerOf
<1>2. \A p, q \in DOMAIN episodes : p # q => episodes[p].task # episodes[q].task
  BY <1>1, TasksDiffer
<1>3. \A k \in DOMAIN req : \A i \in DOMAIN s[req[k]].episodes :
        /\ <<k, i>> \in DOMAIN episodes
        /\ episodes[<<k, i>>] = s[req[k]].episodes[i]
  BY DEF LedgerOf, EpisodePlaces
<1>4. \A p \in DOMAIN episodes :
        \E k \in DOMAIN req : \E i \in DOMAIN s[req[k]].episodes : p = <<k, i>>
  BY <1>1 DEF EpisodePlaces
<1> DEFINE tasks == UNION {SourceRows(s, req)[k].tasks : k \in DOMAIN SourceRows(s, req)}
<1>5. /\ DOMAIN SourceRows(s, req) = DOMAIN req
      /\ \A k \in DOMAIN req : SourceRows(s, req)[k].tasks = TasksOf(s, req[k])
  BY DEF SourceRows
<1>6. tasks = UNION {TasksOf(s, req[k]) : k \in DOMAIN req}
  BY <1>5
<1>7. {episodes[p].task : p \in DOMAIN episodes} \subseteq tasks
  <2>1. SUFFICES ASSUME NEW p \in DOMAIN episodes
                 PROVE  episodes[p].task \in tasks
    OBVIOUS
  <2>2. PICK k \in DOMAIN req : \E i \in DOMAIN s[req[k]].episodes : p = <<k, i>>
    BY <1>4
  <2> PICK i \in DOMAIN s[req[k]].episodes : p = <<k, i>>
    BY <2>2
  <2>3. episodes[p].task \in TasksOf(s, req[k])
    BY <1>3 DEF TasksOf
  <2> QED BY <1>6, <2>3
<1>8. tasks \subseteq {episodes[p].task : p \in DOMAIN episodes}
  <2>1. SUFFICES ASSUME NEW k \in DOMAIN req, NEW t \in TasksOf(s, req[k])
                 PROVE  t \in {episodes[p].task : p \in DOMAIN episodes}
    BY <1>6
  <2>2. PICK i \in DOMAIN s[req[k]].episodes : t = s[req[k]].episodes[i].task
    BY DEF TasksOf
  <2> QED BY <1>3, <2>2
<1> HIDE DEF episodes, tasks
<1>9. {episodes[p].task : p \in DOMAIN episodes} = tasks
  BY <1>7, <1>8
<1>10. /\ Derived(s, req, place).rows.evidence.episodes = episodes
       /\ UNION {Derived(s, req, place).manifest.sources[k].tasks
                   : k \in DOMAIN Derived(s, req, place).manifest.sources} = tasks
  BY DerivedParts DEF episodes, tasks
<1> QED BY <1>2, <1>9, <1>10 DEF EvidenceAccepted

LEMMA DerivedScores ==
  ASSUME NEW s, NEW req, NEW place, Consistent(LedgerOf(s, req))
  PROVE  ScoresAccepted(Derived(s, req, place))
<1> DEFINE ledger == LedgerOf(s, req)
<1>1. DOMAIN Scores(ledger) = Known(ledger)
  BY DEF Scores
<1>2. ASSUME NEW m \in Known(ledger)
      PROVE  /\ Scores(ledger)[m].sources = Observed(ledger, m)
             /\ Scores(ledger)[m].creator = Creator(ledger, m)
  BY DEF Scores, Score
<1>3. ASSUME NEW m \in Known(ledger)
      PROVE  /\ Observed(ledger, m) \subseteq Positions(ledger)
             /\ Creator(ledger, m) # None =>
                  \A p \in Observed(ledger, m) : Precedes(Creator(ledger, m), p)
  BY DEF Observed, Creator
<1> HIDE DEF ledger
<1>4. \A m \in DOMAIN Scores(ledger) :
        /\ Scores(ledger)[m].sources \subseteq Positions(ledger)
        /\ Scores(ledger)[m].creator # None =>
             \A p \in Scores(ledger)[m].sources : Precedes(Scores(ledger)[m].creator, p)
  BY <1>1, <1>2, <1>3
<1> QED BY <1>4, DerivedParts DEF ScoresAccepted, ledger

LEMMA ExampleUnits ==
  ASSUME NEW ledger, NEW scores, NEW kind \in Kinds,
         NEW x \in ExamplesOf(ledger, scores, kind)
  PROVE  /\ x.kind = kind
         /\ x.unit \in IF kind = "maint" THEN Rounds(ledger) ELSE Positions(ledger)
         /\ \A y \in ExamplesOf(ledger, scores, kind) : x.unit = y.unit => x = y
<1>1. CASE kind = "sel"
  BY <1>1 DEF ExamplesOf, SelectionExamples
<1>2. CASE kind = "act"
  BY <1>2 DEF ExamplesOf, ActionExamples, Successful
<1>3. CASE kind = "write"
  BY <1>3 DEF ExamplesOf, WritingExamples
<1>4. CASE kind = "maint"
  BY <1>4 DEF ExamplesOf, MaintenanceExamples
<1> QED BY <1>1, <1>2, <1>3, <1>4 DEF Kinds

\* The rounds of a ledger are all different.
RoundsDistinct(ledger) ==
  \A p, q \in Rounds(ledger) :
    p # q => ledger.maintenance[p].number # ledger.maintenance[q].number

LEMMA ActUnits ==
  ASSUME NEW ledger, NEW scores
  PROVE  {x.unit : x \in ExamplesOf(ledger, scores, "act")} = Successful(ledger)
<1>1. ExamplesOf(ledger, scores, "act") = ActionExamples(ledger, scores)
  BY DEF ExamplesOf
<1>2. ASSUME NEW i \in Successful(ledger)
      PROVE  \E x \in ActionExamples(ledger, scores) : x.unit = i
  <2> DEFINE x == [kind |-> "act", unit |-> i, public |-> ledger.episodes[i].echo,
                   hindsight |-> [m \in Hints(ledger.episodes[i], scores) |-> Judged(scores[m])]]
  <2>1. x \in ActionExamples(ledger, scores)
    BY DEF ActionExamples
  <2> QED BY <2>1
<1>3. \A x \in ActionExamples(ledger, scores) : x.unit \in Successful(ledger)
  BY DEF ActionExamples
<1> QED BY <1>1, <1>2, <1>3

LEMMA DerivedExamples ==
  ASSUME NEW s, NEW req, NEW place, Derivable(s, req), RoundsDistinct(LedgerOf(s, req))
  PROVE  ExamplesAccepted(Derived(s, req, place))
<1> DEFINE ledger == LedgerOf(s, req)
           scores == Scores(ledger)
           examples == AllExamples(ledger, scores)
<1>1. \A kind \in Kinds : examples[kind] = ExamplesOf(ledger, scores, kind)
  BY DEF AllExamples
<1>2. \A kind \in Kinds : \A x \in examples[kind] : WithinBounds(x)
  BY <1>1 DEF Derivable, Presentable
<1>3. \A p, q \in Positions(ledger) :
        p # q => ledger.episodes[p].task # ledger.episodes[q].task
  <2>1. Positions(ledger) = EpisodePlaces(s, req)
    BY DEF Positions, LedgerOf
  <2> QED BY <2>1, TasksDiffer DEF Derivable, Buildable
<1>4. RoundsDistinct(ledger)
  OBVIOUS
<1> HIDE DEF ledger, scores
<1> HIDE DEF examples
<1>5. ASSUME NEW kind \in Kinds, NEW x \in examples[kind]
      PROVE  /\ x.kind = kind
             /\ x.unit \in IF kind = "maint" THEN Rounds(ledger) ELSE Positions(ledger)
  BY <1>1, ExampleUnits
<1>6. ASSUME NEW kind \in Kinds, NEW x \in examples[kind], NEW y \in examples[kind], x # y
      PROVE  LogicalKey(ledger, x) # LogicalKey(ledger, y)
  <2>1. x.unit # y.unit
    BY <1>1, <1>6, ExampleUnits
  <2>2. x.kind = kind /\ y.kind = kind
    BY <1>5
  <2>3. CASE kind = "maint"
    <3>1. x.unit \in Rounds(ledger) /\ y.unit \in Rounds(ledger)
      BY <1>5, <2>3
    <3>2. ledger.maintenance[x.unit].number # ledger.maintenance[y.unit].number
      BY <1>4, <2>1, <3>1 DEF RoundsDistinct
    <3> QED BY <2>2, <2>3, <3>2 DEF LogicalKey
  <2>4. CASE kind # "maint"
    <3>1. x.unit \in Positions(ledger) /\ y.unit \in Positions(ledger)
      BY <1>5, <2>4
    <3>2. ledger.episodes[x.unit].task # ledger.episodes[y.unit].task
      BY <1>3, <2>1, <3>1
    <3> QED BY <2>2, <2>4, <3>2 DEF LogicalKey
  <2> QED BY <2>3, <2>4
<1>7. {x.unit : x \in examples["act"]} = Successful(ledger)
  BY <1>1, ActUnits DEF Kinds
<1>8. UnitsKnown(ledger, examples)
  BY <1>5 DEF UnitsKnown
<1>9. /\ Derived(s, req, place).rows.evidence = ledger
      /\ Derived(s, req, place).rows.scores = scores
      /\ Derived(s, req, place).rows.examples = examples
  BY DerivedParts DEF ledger, scores, examples
<1>10. examples = AllExamples(ledger, scores)
  BY DEF examples
<1> QED BY <1>2, <1>5, <1>6, <1>7, <1>8, <1>9, <1>10 DEF ExamplesAccepted

\* Builder and audit agree: what is derived from runs that follow each other
\* passes the audit as long as they are there, wherever else runs are deleted.
LEMMA DerivedPasses ==
  ASSUME NEW s, NEW o, NEW req, NEW place, Same(s, o, req), Derivable(o, req),
         RoundsDistinct(LedgerOf(o, req)), Continuous(SourceRows(o, req))
  PROVE  Passes(Derived(o, req, place), s, TRUE)
<1> DEFINE d == Derived(o, req, place)
<1>1. Intact(d)
  BY DerivedParts DEF Intact
<1>2. LineageAccepted(d)
  BY DerivedParts DEF LineageAccepted
<1>3. EvidenceAccepted(d)
  BY DerivedEvidence DEF Derivable, Buildable
<1>4. SourcesAccepted(d, s, TRUE)
  <2>1. LedgerOf(s, req) = LedgerOf(o, req) /\ SourceRows(s, req) = SourceRows(o, req)
    BY SameLedger, SameSources
  <2>2. \A k \in DOMAIN req : TasksOf(s, req[k]) = TasksOf(o, req[k])
    BY DEF Same, TasksOf
  <2>3. Loadable(s, req)
    BY <2>2 DEF Derivable, Buildable, Loadable, OneLineage, Same
  <2>4. Buildable(s, req)
    BY <2>3 DEF Derivable, Buildable, Same
  <2> QED BY <2>1, <2>4, DerivedParts DEF SourcesAccepted
<1>5. ScoresAccepted(d)
  BY DerivedScores DEF Derivable
<1>6. ExamplesAccepted(d)
  BY DerivedExamples
<1>7. CountsAccepted(d)
  BY DerivedParts DEF CountsAccepted
<1> QED BY <1>1, <1>2, <1>3, <1>4, <1>5, <1>6, <1>7 DEF Passes

-----------------------------------------------------------------------------
(* The inductive invariant *)

\* Requests and the sources as they were come from one instance.
Asked ==
  \E instance \in Instances : origin = instance.source /\ request = instance.request

\* What a builder has written or is about to write follows from the sources.
Honest ==
  \A b \in Builders :
    /\ pc[b] \in {"mkdir", "write"} => built[b] = Derived(origin, request[b], FinalPlace)
    /\ temp[b].state = "full" => temp[b].data = Derived(origin, request[b], FinalPlace)
    /\ pc[b] \in {"mkdir", "write", "audit", "publish"} => Derivable(origin, request[b])

\* Whatever is altered, the published directory remains one of some request.
Formed ==
  Published =>
    /\ final.manifest.request = request[owner]
    /\ DOMAIN final = {"rows", "manifest"}
    /\ DOMAIN final.manifest
         = {"place", "request", "sources", "chain", "artifacts", "counts"}

Shaped == DOMAIN source = RunIds /\ DOMAIN built = Builders /\ DOMAIN temp = Builders

IInv == TypeOK /\ Shaped /\ Asked /\ Honest /\ Formed

LEMMA AskedTypes ==
  ASSUME Asked
  PROVE  \A b \in Builders : \A k \in DOMAIN request[b] : request[b][k] \in RunIds
<1>1. PICK instance \in Instances : origin = instance.source /\ request = instance.request
  BY DEF Asked
<1>2. request \in [Builders -> Seq(RunIds)]
  BY <1>1, InstancesAssumption
<1>3. ASSUME NEW b \in Builders PROVE request[b] \in Seq(RunIds)
  BY <1>2
<1> QED BY <1>3

\* Among distinct runs of an instance no round occurs twice.
LEMMA AskedRounds ==
  ASSUME Asked, NEW b \in Builders, Derivable(origin, request[b])
  PROVE  RoundsDistinct(LedgerOf(origin, request[b]))
<1> DEFINE req == request[b]
<1>1. PICK instance \in Instances : origin = instance.source /\ request = instance.request
  BY DEF Asked
<1>2. \A k, l \in DOMAIN req : k # l => req[k] # req[l]
  BY DEF Derivable, Buildable, Loadable
<1>3. \A k \in DOMAIN req : req[k] \in RunIds
  BY AskedTypes
<1> HIDE DEF req
<1>4. SUFFICES ASSUME NEW p \in RoundPlaces(origin, req), NEW q \in RoundPlaces(origin, req),
                      p # q
               PROVE  LedgerOf(origin, req).maintenance[p].number
                        # LedgerOf(origin, req).maintenance[q].number
  BY DEF RoundsDistinct, Rounds, LedgerOf, req
<1>5. PICK k \in DOMAIN req : \E i \in DOMAIN origin[req[k]].rounds : p = <<k, i>>
  BY DEF RoundPlaces
<1> PICK i \in DOMAIN origin[req[k]].rounds : p = <<k, i>>
  BY <1>5
<1>6. PICK l \in DOMAIN req : \E j \in DOMAIN origin[req[l]].rounds : q = <<l, j>>
  BY DEF RoundPlaces
<1> PICK j \in DOMAIN origin[req[l]].rounds : q = <<l, j>>
  BY <1>6
<1>7. /\ LedgerOf(origin, req).maintenance[p] = origin[req[k]].rounds[i]
      /\ LedgerOf(origin, req).maintenance[q] = origin[req[l]].rounds[j]
  BY DEF LedgerOf
<1> DEFINE all == UNION {{<<r, n>> : n \in DOMAIN origin[r].rounds} : r \in RunIds}
<1>8. <<req[k], i>> \in all /\ <<req[l], j>> \in all
  BY <1>3
<1>9. <<req[k], i>> # <<req[l], j>>
  BY <1>4, <1>2
<1>10. \A u, v \in all : u # v => origin[u[1]].rounds[u[2]].number # origin[v[1]].rounds[v[2]].number
  BY <1>1, RoundsAssumption
<1> HIDE DEF all
<1>11. origin[req[k]].rounds[i].number # origin[req[l]].rounds[j].number
  <2> DEFINE u == <<req[k], i>>
             v == <<req[l], j>>
  <2>1. origin[u[1]].rounds[u[2]].number # origin[v[1]].rounds[v[2]].number
    BY <1>8, <1>9, <1>10
  <2> QED BY <2>1
<1> QED BY <1>7, <1>11

\* A request whose runs are all there is told the same as at the start.
LEMMA StillThere ==
  ASSUME NEW req, \A k \in DOMAIN req : req[k] \in RunIds,
         \A r \in RunIds : source[r] \in {origin[r], None},
         \A k \in DOMAIN req : source[req[k]] # None
  PROVE  Same(source, origin, req) /\ Same(origin, source, req)
BY DEF Same

LEMMA Initiation == Init => IInv
<1> SUFFICES ASSUME Init PROVE IInv
  OBVIOUS
<1> USE DEF Init
<1>1. PICK i \in Instances : source = i.source /\ request = i.request /\ faults = i.faults
  OBVIOUS
<1>2. source \in [RunIds -> SourceRun] /\ faults \in Nat
  BY <1>1, InstancesAssumption
<1>3. TypeOK
  BY <1>2 DEF TypeOK, NoDirectory, NoTrainer
<1>4. Shaped
  BY <1>2 DEF Shaped
<1>5. Asked
  BY <1>1 DEF Asked
<1>6. Honest
  BY DEF Honest, NoDirectory
<1>7. Formed
  BY DEF Formed, Published
<1> QED BY <1>3, <1>4, <1>5, <1>6, <1>7 DEF IInv

\* No step changes what was asked.
LEMMA AskedKept == ASSUME Asked, [Next]_vars PROVE Asked' /\ origin' = origin /\ request' = request
<1>1. CASE UNCHANGED vars
  BY <1>1 DEF vars, Asked
<1>2. CASE Next
  <2>1. origin' = origin /\ request' = request
    BY <1>2 DEF Next, Step, Begin, Materialize, RefuseSources, MakeTemporary, WriteDataset,
                AuditTemporary, RejectTemporary, Publish, LosePublication, Finish,
                Fail, Crash, Delete, Alter, Preflight
  <2> QED BY <2>1 DEF Asked
<1> QED BY <1>1, <1>2

LEMMA StepKeeps ==
  ASSUME IInv, NEW b \in Builders, Step(b)
  PROVE  (TypeOK /\ Shaped /\ Honest /\ Formed)'
<1> USE DEF IInv, TypeOK, Shaped, Goto
<1>0. origin' = origin /\ request' = request /\ source' = source
  BY DEF Step, Begin, Materialize, RefuseSources, MakeTemporary, WriteDataset,
         AuditTemporary, RejectTemporary, Publish, LosePublication, Finish
<1>1. CASE Begin(b)
  BY <1>1 DEF Begin, Ended, Honest, Formed, Published
<1>2. CASE Materialize(b)
  <2>1. \A k \in DOMAIN request[b] : source[request[b][k]] # None
    BY <1>2 DEF Materialize, Derivable, Buildable, Loadable
  <2>2. Same(source, origin, request[b])
    BY <2>1, AskedTypes, StillThere
  <2>3. /\ SourceRows(source, request[b]) = SourceRows(origin, request[b])
        /\ LedgerOf(source, request[b]) = LedgerOf(origin, request[b])
    BY <2>2, SameLedger, SameSources
  <2>4. Derived(source, request[b], FinalPlace) = Derived(origin, request[b], FinalPlace)
    BY <2>3 DEF Derived
  <2>5. \A k \in DOMAIN request[b] : TasksOf(source, request[b][k]) = TasksOf(origin, request[b][k])
    BY <2>2 DEF Same, TasksOf
  <2>6. Loadable(origin, request[b])
    BY <1>2, <2>2, <2>5 DEF Materialize, Derivable, Buildable, Loadable, OneLineage, Same
  <2>7. Derivable(origin, request[b])
    BY <1>2, <2>2, <2>3, <2>6 DEF Materialize, Derivable, Buildable, Same
  <2>8. (TypeOK /\ Shaped /\ Formed)'
    BY <1>2 DEF Materialize, Ended, Formed, Published
  <2>9. Honest'
    BY <1>0, <1>2, <2>4, <2>7 DEF Materialize, Honest
  <2> QED BY <2>8, <2>9
<1>3. CASE RefuseSources(b)
  BY <1>3 DEF RefuseSources, Ended, Honest, Formed, Published
<1>4. CASE MakeTemporary(b)
  <2>1. (TypeOK /\ Shaped /\ Formed)'
    BY <1>4 DEF MakeTemporary, PartialDirectory, Ended, Formed, Published
  <2>2. Honest'
    BY <1>0, <1>4 DEF MakeTemporary, PartialDirectory, Honest
  <2> QED BY <2>1, <2>2
<1>5. CASE WriteDataset(b)
  <2>1. (TypeOK /\ Shaped /\ Formed)'
    BY <1>5 DEF WriteDataset, FullDirectory, Ended, Formed, Published
  <2>2. Honest'
    BY <1>0, <1>5 DEF WriteDataset, FullDirectory, Honest
  <2> QED BY <2>1, <2>2
<1>6. CASE AuditTemporary(b)
  <2>1. (TypeOK /\ Shaped /\ Formed)'
    BY <1>6 DEF AuditTemporary, Ended, Formed, Published
  <2>2. Honest'
    BY <1>0, <1>6 DEF AuditTemporary, Honest
  <2> QED BY <2>1, <2>2
<1>7. CASE RejectTemporary(b)
  <2>1. (TypeOK /\ Shaped /\ Formed)'
    BY <1>7 DEF RejectTemporary, NoDirectory, Ended, Formed, Published
  <2>2. Honest'
    BY <1>0, <1>7 DEF RejectTemporary, NoDirectory, Honest
  <2> QED BY <2>1, <2>2
<1>8. CASE Publish(b)
  <2>1. (TypeOK /\ Shaped)'
    BY <1>8 DEF Publish, NoDirectory, Ended
  <2>2. Honest'
    BY <1>0, <1>8 DEF Publish, NoDirectory, Honest
  <2>3. final' = Derived(origin, request[b], FinalPlace) /\ owner' = b
    BY <1>8 DEF Publish, Honest
  <2>4. Formed'
    BY <1>0, <2>3, DerivedParts DEF Formed
  <2> QED BY <2>1, <2>2, <2>4
<1>9. CASE LosePublication(b)
  <2>1. (TypeOK /\ Shaped /\ Formed)'
    BY <1>9 DEF LosePublication, NoDirectory, Ended, Formed, Published
  <2>2. Honest'
    BY <1>0, <1>9 DEF LosePublication, NoDirectory, Honest
  <2> QED BY <2>1, <2>2
<1>10. CASE Finish(b)
  <2>1. (TypeOK /\ Shaped /\ Formed)'
    BY <1>10 DEF Finish, Ended, Formed, Published
  <2>2. Honest'
    BY <1>0, <1>10 DEF Finish, Honest
  <2> QED BY <2>1, <2>2
<1> QED BY <1>1, <1>2, <1>3, <1>4, <1>5, <1>6, <1>7, <1>8, <1>9, <1>10 DEF Step

LEMMA FaultKeeps ==
  ASSUME IInv,
         \/ \E b \in Builders : Fail(b) \/ Crash(b)
         \/ \E r \in RunIds : Delete(r)
         \/ Alter
         \/ \E place \in Directories, kind \in Kinds : Preflight(place, kind)
  PROVE  (TypeOK /\ Shaped /\ Honest /\ Formed)'
<1> USE DEF IInv, TypeOK, Shaped, Goto, Fault
<1>1. ASSUME NEW b \in Builders, Fail(b) PROVE (TypeOK /\ Shaped /\ Honest /\ Formed)'
  <2>1. (TypeOK /\ Shaped /\ Formed)'
    BY <1>1 DEF Fail, NoDirectory, Ended, Formed, Published
  <2>2. Honest'
    BY <1>1 DEF Fail, NoDirectory, Honest
  <2> QED BY <2>1, <2>2
<1>2. ASSUME NEW b \in Builders, Crash(b) PROVE (TypeOK /\ Shaped /\ Honest /\ Formed)'
  <2>1. (TypeOK /\ Shaped /\ Formed)'
    BY <1>2 DEF Crash, Ended, Formed, Published
  <2>2. Honest'
    BY <1>2 DEF Crash, Honest
  <2> QED BY <2>1, <2>2
<1>3. ASSUME NEW r \in RunIds, Delete(r) PROVE (TypeOK /\ Shaped /\ Honest /\ Formed)'
  BY <1>3 DEF Delete, Honest, Formed, Published
<1>4. CASE Alter
  <2>1. PICK rows \in Altered(final.rows) :
          \/ final' = [final EXCEPT !.rows = rows]
          \/ final' = [final EXCEPT !.rows = rows, !.manifest.artifacts = rows,
                                    !.manifest.counts = Counts(rows)]
    BY <1>4 DEF Alter
  <2>2. /\ faults \in Nat /\ faults > 0 /\ faults' = faults - 1 /\ Published
        /\ UNCHANGED <<source, request, pc, built, temp, trainer, origin, owner>>
    BY <1>4 DEF Alter
  <2>3. (TypeOK /\ Shaped)'
    BY <2>2
  <2>4. Honest'
    BY <2>2 DEF Honest
  <2> DEFINE fields == {"place", "request", "sources", "chain", "artifacts", "counts"}
  <2>5. DOMAIN final = {"rows", "manifest"} /\ DOMAIN final.manifest = fields
    BY <2>2 DEF Formed
  <2>6. CASE final' = [final EXCEPT !.rows = rows]
    <3>1. DOMAIN final' = {"rows", "manifest"} /\ final'.manifest = final.manifest
      BY <2>5, <2>6
    <3> QED BY <2>2, <2>3, <2>4, <2>5, <3>1 DEF Formed, Published
  <2>7. CASE final' = [final EXCEPT !.rows = rows, !.manifest.artifacts = rows,
                                    !.manifest.counts = Counts(rows)]
    <3>1. /\ DOMAIN final' = {"rows", "manifest"}
          /\ final'.manifest = [final.manifest EXCEPT !.artifacts = rows,
                                                      !.counts = Counts(rows)]
      BY <2>5, <2>7
    <3>2. DOMAIN final'.manifest = fields /\ final'.manifest.request = final.manifest.request
      BY <2>5, <3>1
    <3> QED BY <2>2, <2>3, <2>4, <3>1, <3>2 DEF Formed, Published
  <2> QED BY <2>1, <2>6, <2>7
<1>5. ASSUME NEW place \in Directories, NEW kind \in Kinds, Preflight(place, kind)
      PROVE  (TypeOK /\ Shaped /\ Honest /\ Formed)'
  BY <1>5 DEF Preflight, NoTrainer, Honest, Formed, Published
<1> QED BY <1>1, <1>2, <1>3, <1>4, <1>5

LEMMA Consecution == ASSUME IInv, [Next]_vars PROVE IInv'
<1>1. Asked'
  BY AskedKept DEF IInv
<1>2. CASE UNCHANGED vars
  BY <1>1, <1>2 DEF vars, IInv, TypeOK, Shaped, Honest, Formed, Published
<1>3. CASE Next
  BY <1>1, <1>3, StepKeeps, FaultKeeps DEF IInv, Next
<1> QED BY <1>2, <1>3

LEMMA Inductive == Spec => []IInv
BY Initiation, Consecution, PTL DEF Spec

\* The type invariant, for any builders, instances and number of faults.
THEOREM TypeCorrect == Spec => []TypeOK
<1>1. IInv => TypeOK
  BY DEF IInv
<1> QED BY <1>1, Inductive, PTL

-----------------------------------------------------------------------------
(* Builder and audit *)

\* Only its own audit rejects what a builder wrote, and only then.
LEMMA RejectedOnlyByAudit ==
  ASSUME IInv, [Next]_vars, NEW b \in Builders, pc'[b] = "rejected", pc[b] # "rejected"
  PROVE  RejectTemporary(b)
<1> USE DEF IInv, TypeOK, Goto
<1>1. CASE UNCHANGED vars
  BY <1>1 DEF vars
<1>2. ASSUME NEW c \in Builders, Step(c) PROVE RejectTemporary(b)
  <2>1. pc' = [pc EXCEPT ![c] = pc'[c]]
    BY <1>2 DEF Step, Begin, Materialize, RefuseSources, MakeTemporary, WriteDataset,
                AuditTemporary, RejectTemporary, Publish, LosePublication, Finish
  <2>2. b = c
    BY <2>1
  <2>3. pc'[c] = "rejected" => RejectTemporary(c)
    BY <1>2 DEF Step, Begin, Materialize, RefuseSources, MakeTemporary, WriteDataset,
                AuditTemporary, Publish, LosePublication, Finish
  <2> QED BY <2>2, <2>3
<1>3. ASSUME NEW c \in Builders, Fail(c) \/ Crash(c) PROVE FALSE
  BY <1>3 DEF Fail, Crash
<1>4. ASSUME \/ \E r \in RunIds : Delete(r)
             \/ Alter
             \/ \E place \in Directories, kind \in Kinds : Preflight(place, kind)
      PROVE  FALSE
  BY <1>4 DEF Delete, Alter, Preflight
<1> QED BY <1>1, <1>2, <1>3, <1>4 DEF Next

\* A deleted run does not come back.
LEMMA DeletedForGood ==
  ASSUME IInv, [Next]_vars, NEW r \in RunIds, source[r] = None
  PROVE  source'[r] = None
<1>1. CASE UNCHANGED vars
  BY <1>1 DEF vars
<1>2. CASE Next
  BY <1>2 DEF IInv, Shaped, Next, Step, Begin, Materialize, RefuseSources, MakeTemporary,
              WriteDataset, AuditTemporary, RejectTemporary, Publish, LosePublication,
              Finish, Fail, Crash, Delete, Alter, Preflight
<1> QED BY <1>1, <1>2

\* Builder and audit are two programs that agree: for any sources and requests a
\* build is rejected only for runs out of order or for a run deleted meanwhile.
THEOREM HonestBuildsAlwaysPass == Spec => []HonestBuildsPass
<1>1. Init => HonestBuildsPass
  BY DEF Init, HonestBuildsPass
<1>2. ASSUME IInv, HonestBuildsPass, [Next]_vars PROVE HonestBuildsPass'
  <2>1. SUFFICES ASSUME NEW b \in Builders, pc'[b] = "rejected"
                 PROVE  \/ ~Continuous(SourceRows(origin', request'[b]))
                        \/ \E k \in DOMAIN request'[b] : source'[request'[b][k]] = None
    BY DEF HonestBuildsPass
  <2>2. origin' = origin /\ request' = request
    BY <1>2, AskedKept DEF IInv
  <2>3. \A k \in DOMAIN request[b] : request[b][k] \in RunIds
    BY <1>2, AskedTypes DEF IInv
  <2>4. CASE pc[b] = "rejected"
    BY <1>2, <2>2, <2>3, <2>4, DeletedForGood DEF HonestBuildsPass
  <2>5. CASE pc[b] # "rejected"
    <3>1. RejectTemporary(b)
      BY <1>2, <2>1, <2>5, RejectedOnlyByAudit
    <3>2. pc[b] = "audit" /\ source' = source /\ ~Passes(temp[b].data, source, TRUE)
      BY <3>1 DEF RejectTemporary, Goto
    <3>3. /\ temp[b].data = Derived(origin, request[b], FinalPlace)
          /\ Derivable(origin, request[b])
      BY <1>2, <3>2 DEF IInv, TypeOK, Honest
    <3>4. RoundsDistinct(LedgerOf(origin, request[b]))
      BY <1>2, <3>3, AskedRounds DEF IInv
    <3>5. ASSUME Continuous(SourceRows(origin, request[b])),
                 \A k \in DOMAIN request[b] : source[request[b][k]] # None
          PROVE  FALSE
      <4>1. Same(source, origin, request[b])
        BY <1>2, <2>3, <3>5, StillThere DEF IInv, TypeOK
      <4> QED BY <3>2, <3>3, <3>4, <3>5, <4>1, DerivedPasses
    <3> QED BY <2>2, <3>2, <3>5
  <2> QED BY <2>4, <2>5
<1> QED BY <1>1, <1>2, Inductive, PTL DEF Spec

-----------------------------------------------------------------------------
(* Trainer and audit *)

\* The trainer changes in its preflight only.
LEMMA TrainerStarts ==
  ASSUME IInv, [Next]_vars, trainer' # trainer, trainer'.pc = "training"
  PROVE  \E place \in Directories, kind \in Kinds :
           /\ Acceptable(place, kind) /\ source' = source
           /\ trainer' = [pc |-> "training", kind |-> kind, place |-> place,
                          seen |-> At(place).data]
<1>1. CASE UNCHANGED vars
  BY <1>1 DEF vars
<1>2. CASE Next
  <2>1. PICK place \in Directories, kind \in Kinds : Preflight(place, kind)
    BY <1>2 DEF Next, Step, Begin, Materialize, RefuseSources, MakeTemporary, WriteDataset,
                AuditTemporary, RejectTemporary, Publish, LosePublication, Finish,
                Fail, Crash, Delete, Alter
  <2>2. Acceptable(place, kind)
    BY <2>1 DEF Preflight, NoTrainer
  <2> QED BY <2>1, <2>2 DEF Preflight
<1> QED BY <1>1, <1>2

\* What the audit accepts of a directory, wherever it lies.
LEMMA AcceptedDirectory ==
  ASSUME IInv, NEW place \in Directories, NEW kind \in Kinds, Acceptable(place, kind)
  PROVE  LET d == At(place).data
         IN  /\ place = FinalPlace
             /\ \E b \in Builders : d.manifest.request = request[b]
             /\ d.rows.evidence = LedgerOf(origin, d.manifest.request)
             /\ d.rows.scores = Scores(d.rows.evidence)
             /\ d.rows.examples = AllExamples(d.rows.evidence, d.rows.scores)
             /\ \A k \in Kinds : \A x \in d.rows.examples[k] : WithinBounds(x)
<1> DEFINE d == At(place).data
<1>1. /\ At(place).state = "full"
      /\ Passes(d, source, d.manifest.place = place)
  BY DEF Acceptable
<1>2. /\ d.manifest.place = place /\ Buildable(source, d.manifest.request)
      /\ d.rows.evidence = LedgerOf(source, d.manifest.request)
      /\ d.rows.scores = Scores(d.rows.evidence)
      /\ d.rows.examples = AllExamples(d.rows.evidence, d.rows.scores)
      /\ \A k \in Kinds : \A x \in d.rows.examples[k] : WithinBounds(x)
  BY <1>1 DEF Passes, SourcesAccepted, ScoresAccepted, ExamplesAccepted
<1>3. place = FinalPlace
  <2>1. SUFFICES ASSUME place # FinalPlace PROVE FALSE
    OBVIOUS
  <2>2. place \in Builders
    BY <2>1 DEF Directories
  <2>3. d = Derived(origin, request[place], FinalPlace)
    BY <1>1, <2>1, <2>2 DEF At, IInv, Honest
  <2> QED BY <1>2, <2>1, <2>3, DerivedParts
<1>4. Published /\ d = final
  BY <1>3, NoneAssumption DEF Directories, At, FullDirectory
<1>5. owner \in Builders /\ d.manifest.request = request[owner]
  BY <1>4 DEF IInv, TypeOK, Formed, Published
<1>6. \A k \in DOMAIN d.manifest.request : d.manifest.request[k] \in RunIds
  BY <1>5, AskedTypes DEF IInv
<1>7. \A k \in DOMAIN d.manifest.request : source[d.manifest.request[k]] # None
  BY <1>2 DEF Buildable, Loadable
<1>8. Same(source, origin, d.manifest.request)
  BY <1>6, <1>7, StillThere DEF IInv, TypeOK
<1>9. LedgerOf(source, d.manifest.request) = LedgerOf(origin, d.manifest.request)
  BY <1>8, SameLedger
<1> QED BY <1>2, <1>3, <1>5, <1>9

\* However published rows are altered, a trainer that passes the preflight has
\* before it what the source runs yield.
THEOREM AuditedIsAlwaysDerived == Spec => []AuditedIsDerived
<1>1. Init => AuditedIsDerived
  BY DEF Init, AuditedIsDerived, NoTrainer
<1>2. ASSUME IInv, AuditedIsDerived, [Next]_vars PROVE AuditedIsDerived'
  <2>1. origin' = origin
    BY <1>2, AskedKept DEF IInv
  <2>2. CASE trainer' = trainer
    BY <1>2, <2>1, <2>2 DEF AuditedIsDerived
  <2>3. CASE trainer' # trainer /\ trainer'.pc = "training"
    <3>1. PICK place \in Directories, kind \in Kinds :
            Acceptable(place, kind) /\ trainer'.seen = At(place).data
      BY <1>2, <2>3, TrainerStarts
    <3> QED BY <1>2, <2>1, <3>1, AcceptedDirectory DEF AuditedIsDerived
  <2> QED BY <2>2, <2>3 DEF AuditedIsDerived
<1> QED BY <1>1, <1>2, Inductive, PTL DEF Spec

\* No leftover of a failed or killed builder is ever trained from.
THEOREM LeftoversAreAlwaysRefused == Spec => []LeftoversAreRefused
<1>1. Init => LeftoversAreRefused
  BY DEF Init, LeftoversAreRefused, NoTrainer
<1>2. ASSUME IInv, LeftoversAreRefused, [Next]_vars PROVE LeftoversAreRefused'
  <2>1. CASE trainer' = trainer
    BY <1>2, <2>1 DEF LeftoversAreRefused
  <2>2. CASE trainer' # trainer /\ trainer'.pc = "training"
    <3>1. PICK place \in Directories, kind \in Kinds :
            Acceptable(place, kind) /\ trainer'.place = place
      BY <1>2, <2>2, TrainerStarts
    <3> QED BY <1>2, <3>1, AcceptedDirectory DEF LeftoversAreRefused
  <2> QED BY <2>1, <2>2 DEF LeftoversAreRefused
<1> QED BY <1>1, <1>2, Inductive, PTL DEF Spec

LEMMA HindsightValues ==
  ASSUME NEW ledger, NEW scores, NEW kind \in Kinds,
         NEW x \in ExamplesOf(ledger, scores, kind), NEW m \in DOMAIN x.hindsight
  PROVE  x.hindsight[m].value = scores[m].value
<1>1. CASE kind = "sel"
  BY <1>1 DEF ExamplesOf, SelectionExamples, Judged
<1>2. CASE kind = "act"
  BY <1>2 DEF ExamplesOf, ActionExamples, Judged
<1>3. CASE kind = "write"
  BY <1>3 DEF ExamplesOf, WritingExamples, Credited
<1>4. CASE kind = "maint"
  BY <1>4 DEF ExamplesOf, MaintenanceExamples
<1> QED BY <1>1, <1>2, <1>3, <1>4 DEF Kinds

\* What a trainer takes up shows the student no hint, and the teacher no value
\* that is not the published one.
THEOREM HindsightAlwaysHidden == Spec => []HindsightStaysHidden
<1>1. Init => HindsightStaysHidden
  BY DEF Init, HindsightStaysHidden, NoTrainer
<1>2. ASSUME IInv, HindsightStaysHidden, [Next]_vars PROVE HindsightStaysHidden'
  <2>1. CASE trainer' = trainer
    BY <1>2, <2>1 DEF HindsightStaysHidden
  <2>2. CASE trainer' # trainer /\ trainer'.pc = "training"
    <3>1. PICK place \in Directories, k \in Kinds :
            Acceptable(place, k) /\ trainer'.seen = At(place).data
      BY <1>2, <2>2, TrainerStarts
    <3> DEFINE rows == trainer'.seen.rows
    <3>2. /\ rows.examples = AllExamples(rows.evidence, rows.scores)
          /\ \A kind \in Kinds : \A x \in rows.examples[kind] : WithinBounds(x)
      BY <1>2, <3>1, AcceptedDirectory
    <3> HIDE DEF rows
    <3>3. \A kind \in Kinds : rows.examples[kind] = ExamplesOf(rows.evidence, rows.scores, kind)
      BY <3>2 DEF AllExamples
    <3>4. ASSUME NEW kind \in Kinds, NEW x \in rows.examples[kind]
          PROVE  /\ kind = "act" => x.public \cap DOMAIN x.hindsight = {}
                 /\ \A m \in DOMAIN x.hindsight : x.hindsight[m].value = rows.scores[m].value
      <4>1. x.kind = kind /\ WithinBounds(x)
        BY <3>2, <3>3, <3>4, ExampleUnits
      <4>2. kind = "act" => x.public \cap DOMAIN x.hindsight = {}
        BY <4>1 DEF WithinBounds
      <4>3. \A m \in DOMAIN x.hindsight : x.hindsight[m].value = rows.scores[m].value
        BY <3>3, <3>4, HindsightValues
      <4> QED BY <4>2, <4>3
    <3> QED BY <3>4 DEF HindsightStaysHidden, rows
  <2> QED BY <2>1, <2>2 DEF HindsightStaysHidden
<1> QED BY <1>1, <1>2, Inductive, PTL DEF Spec

-----------------------------------------------------------------------------
(* Credit has a comparison behind it *)

\* The confidence is a number, for any count of choices.
LEMMA ConfidenceIsNumber ==
  ASSUME NEW n \in Nat PROVE Confidence(n) \in Int
<1> DEFINE sq(k) == k * k * (1 + n)
           f == [k \in 0..101 |-> sq(k)]
           K == {k \in 1..100 : f[k] <= 10000}
           Is(k) == sq(k) <= 10000 /\ sq(k + 1) > 10000
           c == CHOOSE k \in 0..100 : Is(k)
<1>1. /\ \A k \in 0..101 : f[k] \in Nat /\ f[k] = sq(k)
      /\ f[0] = 0 /\ f[101] > 10000
  OBVIOUS
<1> HIDE DEF f
<1>2. \E k \in 0..100 : f[k] <= 10000 /\ f[k + 1] > 10000
  <2>1. CASE K = {}
    <3>1. 1 \in 1..100 /\ 1 \notin K
      BY <2>1
    <3>2. f[0 + 1] > 10000 /\ f[0] <= 10000 /\ 0 \in 0..100
      BY <1>1, <3>1
    <3> HIDE DEF K
    <3> QED BY <3>2
  <2>2. CASE K # {}
    <3>1. PICK k \in K : \A j \in K : j <= k
      <4>1. K \in SUBSET (1..100) /\ 100 \in Nat
        OBVIOUS
      <4> HIDE DEF K
      <4> QED BY <2>2, <4>1, LastPosition
    <3>2. f[k + 1] > 10000
      BY <1>1, <3>1
    <3> QED BY <3>2
  <2> QED BY <2>1, <2>2
<1>3. \E k \in 0..100 : Is(k)
  <2>1. PICK k \in 0..100 : f[k] <= 10000 /\ f[k + 1] > 10000
    BY <1>2
  <2>2. k + 1 \in 0..101 /\ k \in 0..101
    OBVIOUS
  <2> HIDE DEF sq
  <2> QED BY <1>1, <2>1, <2>2
<1>4. c \in 0..100
  <2> HIDE DEF Is
  <2> QED BY <1>3
<1>5. Confidence(n) = 100 - c
  BY DEF Confidence
<1> HIDE DEF c
<1> QED BY <1>4, <1>5

\* Where all outcomes are the same a comparison says nothing.
LEMMA NothingToCompare ==
  ASSUME NEW ledger, NEW m, NEW g, g \in Contrasts(ledger, m), IsFiniteSet(Positions(ledger)),
         \A i \in Positions(ledger) : ledger.episodes[i].reward \in {0, 1},
         \A p \in Chosen(ledger, m), q \in Passed(ledger, m) :
           ledger.episodes[p].group = g /\ ledger.episodes[q].group = g
             => ledger.episodes[p].reward = ledger.episodes[q].reward
  PROVE  Contribution(ledger, m, g) = 0
<1> DEFINE chosen == Within(ledger, Chosen(ledger, m), g)
           passed == Within(ledger, Passed(ledger, m), g)
           won(S) == {i \in S : ledger.episodes[i].reward = 1}
           n1 == Cardinality(chosen)
           n0 == Cardinality(passed)
<1>1. /\ chosen \subseteq Positions(ledger) /\ passed \subseteq Positions(ledger)
      /\ chosen # {} /\ passed # {}
  BY DEF Within, Chosen, Passed, Observed, Contrasts
<1>2. \A p \in chosen, q \in passed : ledger.episodes[p].reward = ledger.episodes[q].reward
  BY DEF Within
<1>3. /\ Contribution(ledger, m, g) = (Scale * (Wins(ledger, chosen) * n0 - Wins(ledger, passed) * n1))
                                         \div (n0 * (n0 + n1))
      /\ Wins(ledger, chosen) = Cardinality(won(chosen))
      /\ Wins(ledger, passed) = Cardinality(won(passed))
  BY DEF Contribution, Wins
<1> HIDE DEF chosen, passed
<1>4. n1 \in Nat \ {0} /\ n0 \in Nat \ {0}
  <2>1. IsFiniteSet(chosen) /\ IsFiniteSet(passed)
    BY <1>1, FS_Subset
  <2> QED BY <1>1, <2>1, FS_CardinalityType, FS_EmptySet
<1>5. \/ won(chosen) = chosen /\ won(passed) = passed
      \/ won(chosen) = {} /\ won(passed) = {}
  BY <1>1, <1>2
<1>6. Wins(ledger, chosen) * n0 - Wins(ledger, passed) * n1 = 0
  <2>1. CASE won(chosen) = chosen /\ won(passed) = passed
    <3>1. n1 * n0 - n0 * n1 = 0
      BY <1>4
    <3> QED BY <1>3, <2>1, <3>1
  <2>2. CASE won(chosen) = {} /\ won(passed) = {}
    <3>1. Wins(ledger, chosen) = 0 /\ Wins(ledger, passed) = 0
      BY <1>3, <2>2, FS_EmptySet
    <3> QED BY <1>4, <3>1
  <2> QED BY <1>5, <2>1, <2>2
<1> HIDE DEF n0, n1
<1>7. n0 * (n0 + n1) \in Nat \ {0} /\ Scale * 0 = 0
  BY <1>4, ScaleAssumption
<1>8. 0 \div (n0 * (n0 + n1)) = 0
  BY <1>7
<1> QED BY <1>3, <1>6, <1>7, <1>8

\* A value that tells something comes from a comparison with different outcomes.
LEMMA CreditHasContrast ==
  ASSUME NEW ledger, NEW m \in Memories, IsFiniteSet(Positions(ledger)),
         \A i \in Positions(ledger) : ledger.episodes[i].reward \in {0, 1},
         Telling(Score(ledger, m))
  PROVE  \E p \in Chosen(ledger, m), q \in Passed(ledger, m) :
           /\ ledger.episodes[p].group = ledger.episodes[q].group
           /\ ledger.episodes[p].reward # ledger.episodes[q].reward
<1> SUFFICES ASSUME \A p \in Chosen(ledger, m), q \in Passed(ledger, m) :
                      ledger.episodes[p].group = ledger.episodes[q].group
                        => ledger.episodes[p].reward = ledger.episodes[q].reward
             PROVE  FALSE
  OBVIOUS
<1> DEFINE S == Contrasts(ledger, m)
           w == [g \in S |-> Contribution(ledger, m, g)]
           Folds(h) ==
             h = [T \in SUBSET S |->
                    IF T = {} THEN 0
                    ELSE Contribution(ledger, m, CHOOSE x \in T : TRUE)
                           + h[T \ {CHOOSE x \in T : TRUE}]]
<1>1. \A g \in S : Contribution(ledger, m, g) = 0
  BY NothingToCompare
<1>2. IsFiniteSet(S)
  <2> DEFINE named == {ledger.episodes[i].group : i \in Positions(ledger)}
             N == [i \in Positions(ledger) |-> ledger.episodes[i].group]
  <2>1. N \in Surjection(Positions(ledger), named)
    BY DEF Surjection
  <2>2. IsFiniteSet(named)
    BY <2>1, FS_Surjection
  <2>3. S \subseteq named
    BY DEF Contrasts, Within, Chosen, Observed
  <2> QED BY <2>2, <2>3, FS_Subset
<1>3. w \in [S -> Int] /\ \A g \in S : w[g] = 0
  BY <1>1
<1>4. ASSUME NEW h PROVE SumsUp(h, w, S) <=> Folds(h)
  <2>1. \A T \in SUBSET S : T # {} =>
          w[CHOOSE x \in T : TRUE] = Contribution(ledger, m, CHOOSE x \in T : TRUE)
    OBVIOUS
  <2> DEFINE first == [T \in SUBSET S |-> CHOOSE x \in T : TRUE]
             Weighed(T) == IF T = {} THEN 0 ELSE w[first[T]] + h[T \ {first[T]}]
             Told(T) == IF T = {} THEN 0
                        ELSE Contribution(ledger, m, first[T]) + h[T \ {first[T]}]
  <2>2. \A T \in SUBSET S : Weighed(T) = Told(T)
    BY <2>1
  <2>3. [T \in SUBSET S |-> Weighed(T)] = [T \in SUBSET S |-> Told(T)]
    <3> HIDE DEF Weighed, Told
    <3> QED BY <2>2, Zenon
  <2>4. SumsUp(h, w, S) <=> h = [T \in SUBSET S |-> Weighed(T)]
    <3> HIDE DEF w, S
    <3> QED BY DEF SumsUp
  <2>5. Folds(h) <=> h = [T \in SUBSET S |-> Told(T)]
    <3> HIDE DEF w, S
    <3> QED OBVIOUS
  <2> HIDE DEF w, S, Weighed, Told, Folds
  <2> QED BY <2>3, <2>4, <2>5, Zenon
<1>5. Folds(CHOOSE h : Folds(h))
  <2> HIDE DEF w, S, Folds
  <2>1. PICK h : IsSum(h, w, S)
    BY <1>2, <1>3, SumsExist
  <2>2. Folds(h)
    BY <1>4, <2>1 DEF IsSum
  <2> QED BY <2>2
<1>6. AttributionOf(ledger, m) = (CHOOSE h : Folds(h))[S]
  BY DEF AttributionOf, MapThenSumSet, MapThenFoldSet
<1> HIDE DEF w, S, Folds
<1>7. AttributionOf(ledger, m) = 0
  <2>1. IsSum(CHOOSE h : Folds(h), w, S)
    BY <1>2, <1>3, <1>4, <1>5, SumsAreSums
  <2> QED BY <1>3, <1>6, <2>1, SumOfZeros
<1>8. Prior[m] \in Int /\ Confidence(Cardinality(Chosen(ledger, m))) \in Int
  <2>1. IsFiniteSet(Chosen(ledger, m))
    BY FS_Subset DEF Chosen, Observed
  <2>2. Cardinality(Chosen(ledger, m)) \in Nat
    BY <2>1, FS_CardinalityType
  <2> QED BY <2>2, PriorAssumption, ConfidenceIsNumber
<1>9. Score(ledger, m).value \in {None, 0}
  <2>1. \A a, b \in Int : a * b * 0 = 0
    OBVIOUS
  <2>2. Score(ledger, m).value
          = IF Contrasts(ledger, m) = {} THEN None
            ELSE Prior[m] * Confidence(Cardinality(Chosen(ledger, m)))
                   * AttributionOf(ledger, m)
    BY DEF Score
  <2>3. Prior[m] * Confidence(Cardinality(Chosen(ledger, m))) * 0 = 0
    BY <1>8, <2>1
  <2> QED BY <1>7, <2>2, <2>3
<1> QED BY <1>9, ThresholdAssumption DEF Telling

\* The evidence of loaded runs is finite and of its type.
LEMMA LedgerTyped ==
  ASSUME Asked, NEW b \in Builders, NEW ledger, ledger = LedgerOf(origin, request[b])
  PROVE  /\ IsFiniteSet(Positions(ledger))
         /\ \A i \in Positions(ledger) : ledger.episodes[i] \in EpisodeEvidence
<1> DEFINE req == request[b]
           places(k) == {<<k, i>> : i \in DOMAIN origin[req[k]].episodes}
<1>1. PICK instance \in Instances : origin = instance.source /\ request = instance.request
  BY DEF Asked
<1>2. origin \in [RunIds -> SourceRun] /\ req \in Seq(RunIds)
  BY <1>1, InstancesAssumption
<1>3. \A k \in DOMAIN req : origin[req[k]].episodes \in Seq(EpisodeEvidence)
  <2>1. \A k \in DOMAIN req : origin[req[k]] \in SourceRun
    BY <1>2
  <2> QED BY <2>1 DEF SourceRun
<1> HIDE DEF req
<1>4. Positions(ledger) = UNION {places(k) : k \in DOMAIN req}
  BY DEF Positions, LedgerOf, EpisodePlaces, req
<1>5. \A k \in DOMAIN req : IsFiniteSet(places(k))
  <2> TAKE k \in DOMAIN req
  <2> DEFINE I == DOMAIN origin[req[k]].episodes
             N == [i \in I |-> <<k, i>>]
  <2>1. IsFiniteSet(I)
    BY <1>3, FS_Interval
  <2>2. N \in Surjection(I, places(k))
    BY DEF Surjection
  <2> QED BY <2>1, <2>2, FS_Surjection
<1>6. IsFiniteSet({places(k) : k \in DOMAIN req})
  <2> DEFINE N == [k \in DOMAIN req |-> places(k)]
  <2>1. IsFiniteSet(DOMAIN req)
    BY <1>2, FS_Interval
  <2>2. N \in Surjection(DOMAIN req, {places(k) : k \in DOMAIN req})
    BY DEF Surjection
  <2> QED BY <2>1, <2>2, FS_Surjection
<1>7. \A i \in Positions(ledger) : ledger.episodes[i] \in EpisodeEvidence
  <2> TAKE i \in Positions(ledger)
  <2>1. PICK k \in DOMAIN req : \E j \in DOMAIN origin[req[k]].episodes : i = <<k, j>>
    BY <1>4
  <2>2. PICK j \in DOMAIN origin[req[k]].episodes : i = <<k, j>>
    BY <2>1
  <2>3. ledger.episodes[i] = origin[req[k]].episodes[j]
    BY <2>2 DEF Positions, LedgerOf, req
  <2> QED BY <1>3, <2>3
<1> HIDE DEF places
<1>8. IsFiniteSet(UNION {places(k) : k \in DOMAIN req})
  BY <1>5, <1>6, FS_UNION
<1> QED BY <1>4, <1>7, <1>8

\* A writing example has a Memory that two later tasks of a group were offered.
LEMMA WritingHasUse ==
  ASSUME NEW ledger, IsFiniteSet(Positions(ledger)),
         \A i \in Positions(ledger) : ledger.episodes[i] \in EpisodeEvidence,
         NEW x \in WritingExamples(ledger, Scores(ledger))
  PROVE  \E m \in DOMAIN x.hindsight : \E p, q \in Positions(ledger) :
           /\ Precedes(x.unit, p) /\ Precedes(x.unit, q)
           /\ m \in ledger.episodes[p].selected
           /\ m \in Candidates(ledger.episodes[q]) \ ledger.episodes[q].selected
           /\ ledger.episodes[p].group = ledger.episodes[q].group
           /\ ledger.episodes[p].reward # ledger.episodes[q].reward
<1>1. PICK i \in Positions(ledger) :
        /\ \E m \in Written(ledger.episodes[i]) : Telling(Scores(ledger)[m])
        /\ x.unit = i /\ DOMAIN x.hindsight = Written(ledger.episodes[i])
  BY DEF WritingExamples
<1>2. PICK m \in Written(ledger.episodes[i]) : Telling(Scores(ledger)[m])
  BY <1>1
<1>3. m \in ledger.episodes[i].created /\ m \in Memories
  BY DEF Written, EpisodeEvidence
<1>4. m \in Known(ledger)
  <2>1. m \in Proposed(ledger.episodes[i])
    BY <1>3 DEF Proposed
  <2>2. m \in UNION {Candidates(ledger.episodes[q]) \cup Proposed(ledger.episodes[q])
                        : q \in Positions(ledger)}
    BY <2>1
  <2> QED BY <2>2 DEF Known
<1>5. Telling(Score(ledger, m))
  BY <1>2, <1>4 DEF Scores
<1>6. \A j \in Positions(ledger) : ledger.episodes[j].reward \in {0, 1}
  BY DEF EpisodeEvidence
<1>7. PICK p \in Chosen(ledger, m), q \in Passed(ledger, m) :
        /\ ledger.episodes[p].group = ledger.episodes[q].group
        /\ ledger.episodes[p].reward # ledger.episodes[q].reward
  BY <1>3, <1>5, <1>6, CreditHasContrast
<1>8. i \in CreatorsOf(ledger, m)
  BY <1>3 DEF CreatorsOf
<1>9. /\ p \in Positions(ledger) /\ q \in Positions(ledger)
      /\ Precedes(i, p) /\ Precedes(i, q)
      /\ m \in ledger.episodes[p].selected
      /\ m \in Candidates(ledger.episodes[q]) \ ledger.episodes[q].selected
  BY <1>8 DEF Chosen, Passed, Observed
<1> QED BY <1>1, <1>7, <1>9

\* The teacher credits a written Memory with later use only, and there is a
\* comparison behind it: two later tasks of one group were offered the Memory,
\* one took it and the other did not, with different outcomes
\* (_score_memory, build_writing_examples), however many runs and tasks there are.
THEOREM CreditAlwaysFollowsUse == Spec => []CreditFollowsUse
<1>1. Init => CreditFollowsUse
  BY DEF Init, CreditFollowsUse, NoTrainer
<1>2. ASSUME IInv, CreditFollowsUse, [Next]_vars PROVE CreditFollowsUse'
  <2>1. CASE trainer' = trainer
    BY <1>2, <2>1 DEF CreditFollowsUse
  <2>2. CASE trainer' # trainer /\ trainer'.pc = "training"
    <3>1. PICK place \in Directories, k \in Kinds :
            Acceptable(place, k) /\ trainer'.seen = At(place).data
      BY <1>2, <2>2, TrainerStarts
    <3> DEFINE rows == trainer'.seen.rows
               ledger == rows.evidence
    <3>2. PICK b \in Builders : trainer'.seen.manifest.request = request[b]
      BY <1>2, <3>1, AcceptedDirectory
    <3>3. /\ ledger = LedgerOf(origin, request[b]) /\ rows.scores = Scores(ledger)
          /\ rows.examples = AllExamples(ledger, rows.scores)
      BY <1>2, <3>1, <3>2, AcceptedDirectory
    <3> HIDE DEF rows, ledger
    <3>4. /\ IsFiniteSet(Positions(ledger))
          /\ \A i \in Positions(ledger) : ledger.episodes[i] \in EpisodeEvidence
      BY <1>2, <3>3, LedgerTyped DEF IInv
    <3>5. rows.examples["write"] = WritingExamples(ledger, Scores(ledger))
      BY <3>3 DEF AllExamples, ExamplesOf, Kinds
    <3> QED BY <3>4, <3>5, WritingHasUse DEF CreditFollowsUse, Positions, rows, ledger
  <2> QED BY <2>1, <2>2 DEF CreditFollowsUse
<1> QED BY <1>1, <1>2, Inductive, PTL DEF Spec

-----------------------------------------------------------------------------
(* Refinement *)

\* Whatever builders, faults and trainers do, one dataset at most is published
\* under a build id, it is never replaced, and success is reported by its
\* builder only.
OwnerKnown ==
  \A b \in Builders : pc[b] \in {"sync", "done"} => owner = b

LEMMA OwnerSteps ==
  ASSUME IInv, OwnerKnown, [Next]_vars
  PROVE  OwnerKnown' /\ [Store!Next]_<<owner, Outcome>>
<1> USE DEF IInv, TypeOK, Goto
<1>1. CASE UNCHANGED vars
  BY <1>1 DEF vars, OwnerKnown, Outcome
<1>2. ASSUME NEW b \in Builders, Step(b)
      PROVE  OwnerKnown' /\ [Store!Next]_<<owner, Outcome>>
  <2>1. CASE Publish(b)
    <3>1. OwnerKnown'
      BY <2>1, NoneAssumption DEF Publish, Published, OwnerKnown
    <3>2. Outcome' = Outcome /\ Outcome[b] = "running"
      BY <2>1 DEF Publish, Outcome, Ended
    <3>3. Store!Publish(b)
      BY <2>1, <3>2 DEF Publish, Published, Store!Publish
    <3> QED BY <3>1, <3>3 DEF Store!Next
  <2>2. CASE Finish(b)
    <3>1. OwnerKnown' /\ owner' = owner /\ owner = b
      BY <2>2 DEF Finish, OwnerKnown
    <3>2. Outcome[b] = "running" /\ Outcome' = [Outcome EXCEPT ![b] = "done"]
      BY <2>2 DEF Finish, Outcome, Ended
    <3> QED BY <3>1, <3>2 DEF Store!Next, Store!Succeed
  <2>3. CASE Begin(b) \/ RefuseSources(b) \/ RejectTemporary(b) \/ LosePublication(b)
    <3>1. /\ owner' = owner
          /\ \E q \in {"refused", "rejected", "failed", "materialize"} :
               pc' = [pc EXCEPT ![b] = q]
          /\ pc[b] \notin Ended
      BY <2>3 DEF Begin, RefuseSources, RejectTemporary, LosePublication, Ended
    <3>2. PICK q \in {"refused", "rejected", "failed", "materialize"} :
            pc' = [pc EXCEPT ![b] = q]
      BY <3>1
    <3>3. OwnerKnown'
      BY <3>1, <3>2 DEF OwnerKnown
    <3>4. CASE q = "materialize"
      <4>1. Outcome' = Outcome
        BY <3>1, <3>2, <3>4 DEF Outcome, Ended
      <4> QED BY <3>1, <3>3, <4>1
    <3>5. CASE q # "materialize"
      <4>1. Outcome[b] = "running" /\ Outcome' = [Outcome EXCEPT ![b] = "failed"]
        BY <3>1, <3>2, <3>5 DEF Outcome, Ended
      <4> QED BY <3>1, <3>3, <4>1 DEF Store!Next, Store!GiveUp
    <3> QED BY <3>4, <3>5
  <2>4. CASE Materialize(b) \/ MakeTemporary(b) \/ WriteDataset(b) \/ AuditTemporary(b)
    <3>1. OwnerKnown' /\ owner' = owner
      BY <2>4 DEF Materialize, MakeTemporary, WriteDataset, AuditTemporary, OwnerKnown
    <3>2. Outcome' = Outcome
      BY <2>4 DEF Materialize, MakeTemporary, WriteDataset, AuditTemporary, Outcome, Ended
    <3> QED BY <3>1, <3>2
  <2> QED BY <1>2, <2>1, <2>2, <2>3, <2>4 DEF Step
<1>3. ASSUME NEW b \in Builders, Fail(b) \/ Crash(b)
      PROVE  OwnerKnown' /\ [Store!Next]_<<owner, Outcome>>
  <2>1. /\ owner' = owner /\ pc[b] \notin Ended
        /\ \E q \in {"failed", "crashed"} : pc' = [pc EXCEPT ![b] = q]
    BY <1>3 DEF Fail, Crash, Ended
  <2>2. OwnerKnown'
    BY <2>1 DEF OwnerKnown
  <2>3. Outcome[b] = "running" /\ Outcome' = [Outcome EXCEPT ![b] = "failed"]
    BY <2>1 DEF Outcome, Ended
  <2> QED BY <2>1, <2>2, <2>3 DEF Store!Next, Store!GiveUp
<1>4. ASSUME \/ \E r \in RunIds : Delete(r)
             \/ Alter
             \/ \E place \in Directories, kind \in Kinds : Preflight(place, kind)
      PROVE  OwnerKnown' /\ [Store!Next]_<<owner, Outcome>>
  <2>1. owner' = owner /\ pc' = pc
    BY <1>4 DEF Delete, Alter, Preflight
  <2> QED BY <2>1 DEF OwnerKnown, Outcome
<1> QED BY <1>1, <1>2, <1>3, <1>4 DEF Next

THEOREM BuildingImplementsStore == Spec => ImplementsStore
<1>1. Init => OwnerKnown /\ Store!Init
  BY DEF Init, OwnerKnown, Outcome, Ended, Store!Init
<1>2. IInv /\ OwnerKnown /\ [Next]_vars => OwnerKnown' /\ [Store!Next]_<<owner, Outcome>>
  BY OwnerSteps
<1> QED BY <1>1, <1>2, Inductive, PTL DEF Spec, ImplementsStore, Store!Spec
=============================================================================
