----------------------- MODULE AnalysisAttemptsProofs -----------------------
(***************************************************************************)
(* Why the attempts of a content are numbered without a gap and why it is  *)
(* put off a bounded number of times, for any number of analyses, articles *)
(* and tries.                                                              *)
(*                                                                         *)
(* Numbers: an analysis never has a number in mind beyond the next one, as *)
(* it read it off a count and the rows only grow.  A number that is free   *)
(* when the row is created is then the next one.  One that is taken shows  *)
(* that others recorded since it was read, which is what an analysis that  *)
(* gives up its row has met at every try.                                  *)
(*                                                                         *)
(* Holds: the rows that put a content off and the analyses that may add    *)
(* one more (Holding) are counted together.  Creating the row moves one    *)
(* from the analyses to the rows; an analysis joins only when it reads     *)
(* that there is one row at most, and then the others are the tasks at     *)
(* work.                                                                   *)
(***************************************************************************)
EXTENDS AnalysisAttempts, FiniteSetTheorems, TLAPS

\* Where an analysis is about to read or to infer, records its row, is done with it.
Reading == {"main", "folder", "infer"}
Recording == {"count", "create"}
Recorded == {"publish", "lost"}
Place == {"idle", "holds", "number"} \cup Reading \cup Recording \cup Recorded

\* An analysis.
Analysis ==
    [pc : Place, version : 0 .. MaxVersion, main : BOOLEAN, material : BOOLEAN,
     at : 0 .. MaxAnalyses, holds : Nat, answer : Outcomes \cup {Failure("none")},
     row : RowType, fixed : Nat, num : Nat, tries : 0 .. set.tries, since : Nat]

Rows(v) == Len(attempts[v])

\* What analysis e, of task t, may rely on: the rows of its content, the number it has
\* in mind, how often it was overtaken.
Sound(t, e) ==
    /\ e.pc # "idle" => t \in set.tasks /\ version \in Version
    /\ e.pc \notin {"idle", "main", "folder"} => e.version \in Version
    /\ e.pc \in Recording => e.tries < set.tries /\ e.fixed <= Rows(e.version) + 1
    /\ e.pc = "create" =>
          /\ 1 <= e.num /\ e.num <= Rows(e.version) + 1
          /\ e.fixed = 0 => e.num > e.since + e.tries
    /\ e.pc \notin Recording \cup Recorded => e.tries = 0 /\ e.fixed = 0
    /\ e.tries > 0 /\ e.fixed = 0 => Rows(e.version) >= e.since + e.tries

SoundInv == \A t \in Task : Sound(t, ex[t])

\* The analyses whose time is still to come: the clock leaves room for them.
Due == {t \in Task : ex[t].pc \in Reading}
ClockInv == clock + Cardinality(Due) <= set.analyses

ExclusiveInv == set.exclusive => \A t, u \in Active : t = u

\* The rows that put content v off, and the analyses that may add one more.
HoldRows(v) == {i \in AcceptedRows(v) : attempts[v][i].decision = "hold"}
MayHold(e) ==
    \/ e.pc = "number" /\ e.holds < 2
    \/ e.pc \in Recording /\ e.row.accepted /\ e.row.decision = "hold"
Holding(v) == {t \in Task : ex[t].version = v /\ MayHold(ex[t])}

Allowed == 1 + (IF set.exclusive THEN 1 ELSE Cardinality(set.tasks))
HoldsInv == \A v \in Version : Cardinality(HoldRows(v)) + Cardinality(Holding(v)) <= Allowed

Inv == TypeOK /\ NumbersFollow /\ SoundInv /\ ClockInv /\ ExclusiveInv /\ HoldsInv

-----------------------------------------------------------------------------
(* Types.                                                                  *)

LEMMA SettingOf ==
    ASSUME TypeOK
    PROVE  /\ set.tasks \subseteq Task /\ set.exclusive \in BOOLEAN
           /\ set.tries \in Nat /\ set.tries >= 1
           /\ set.versions \in Nat /\ set.versions <= MaxVersion
           /\ set.analyses \in Nat /\ set.analyses <= MaxAnalyses
           /\ MaxVersion \in Nat /\ MaxAnalyses \in Nat
           /\ IsFiniteSet(Task)
BY AttemptsAssumption DEF TypeOK

LEMMA TypeOf ==
    ASSUME TypeOK
    PROVE  /\ ex \in [Task -> Analysis]
           /\ version \in 0 .. MaxVersion
           /\ attempts \in [Version -> Seq(RowType)]
           /\ clock \in 0 .. MaxAnalyses /\ clock \in Nat
BY SettingOf DEF TypeOK, Analysis, Place, Reading, Recording, Recorded

LEMMA TypeFrom ==
    ASSUME TypeOK, set' = set, version' \in 0 .. MaxVersion,
           attempts' \in [Version -> Seq(RowType)], main' \in BOOLEAN,
           clock' \in 0 .. MaxAnalyses,
           NEW t \in Task, NEW e \in Analysis, ex' = [ex EXCEPT ![t] = e]
    PROVE  /\ TypeOK'
           /\ ex'[t] = e
           /\ \A u \in Task : u # t => ex'[u] = ex[u]
<1>1. ex \in [Task -> Analysis]
  BY TypeOf
<1>2. ex' \in [Task -> Analysis]
  BY <1>1
<1>3. Outcomes' = Outcomes
  BY DEF Outcomes
<1>4. TypeOK'
  BY <1>2, <1>3 DEF TypeOK, Analysis, Place, Reading, Recording, Recorded
<1>. QED
  BY <1>4, <1>1

LEMMA RowsOf ==
    ASSUME TypeOK, NEW v \in Version
    PROVE  /\ Rows(v) \in Nat /\ DOMAIN attempts[v] = 1 .. Rows(v)
           /\ \A i \in DOMAIN attempts[v] : attempts[v][i] \in RowType
BY DEF TypeOK, Rows

(* The sets that are counted are finite.                                   *)
LEMMA Counted ==
    ASSUME TypeOK
    PROVE  /\ IsFiniteSet(Due) /\ Cardinality(Due) \in Nat
           /\ IsFiniteSet(Active) /\ Cardinality(Active) \in Nat
           /\ IsFiniteSet(set.tasks) /\ Cardinality(set.tasks) \in Nat
           /\ \A v \in Version :
                /\ IsFiniteSet(HoldRows(v)) /\ Cardinality(HoldRows(v)) \in Nat
                /\ IsFiniteSet(Holding(v)) /\ Cardinality(Holding(v)) \in Nat
                /\ CountHolds(v) \in Nat /\ Cardinality(HoldRows(v)) <= CountHolds(v)
<1>1. /\ Due \in SUBSET Task /\ Active \in SUBSET Task
      /\ set.tasks \in SUBSET Task
      /\ IsFiniteSet(Task)
  BY SettingOf DEF Due, Active
<1>2. IsFiniteSet(Due) /\ IsFiniteSet(Active) /\ IsFiniteSet(set.tasks)
  BY <1>1, FS_Subset
<1>3. ASSUME NEW v \in Version
      PROVE  /\ IsFiniteSet(HoldRows(v)) /\ Cardinality(HoldRows(v)) \in Nat
             /\ IsFiniteSet(Holding(v)) /\ Cardinality(Holding(v)) \in Nat
             /\ CountHolds(v) \in Nat /\ Cardinality(HoldRows(v)) <= CountHolds(v)
  <2> DEFINE H == {i \in DOMAIN attempts[v] : attempts[v][i].decision = "hold"}
  <2>1. IsFiniteSet(DOMAIN attempts[v])
    BY RowsOf, FS_Interval
  <2>2. H \in SUBSET DOMAIN attempts[v]
    OBVIOUS
  <2>3. HoldRows(v) \in SUBSET H
    BY DEF HoldRows, AcceptedRows
  <2>4. Holding(v) \in SUBSET Task
    BY DEF Holding
  <2>5. IsFiniteSet(H)
    BY <2>1, <2>2, FS_Subset
  <2>6. IsFiniteSet(HoldRows(v)) /\ Cardinality(HoldRows(v)) <= Cardinality(H)
    BY <2>5, <2>3, FS_Subset
  <2>7. IsFiniteSet(Holding(v))
    BY <2>4, <1>1, FS_Subset
  <2>8. CountHolds(v) = Cardinality(H)
    BY DEF CountHolds
  <2>. QED
    BY <2>5, <2>6, <2>7, <2>8, FS_CardinalityType
<1>. QED
  BY <1>2, <1>3, FS_CardinalityType

-----------------------------------------------------------------------------
(* What the other analyses keep: Sound holds on when rows and articles are *)
(* added.                                                                  *)
Grows ==
    /\ set' = set
    /\ version \in Version => version' \in Version
    /\ \A v \in Version : Rows(v)' \in Nat /\ Rows(v)' >= Rows(v)

LEMMA StillSound ==
    ASSUME TypeOK, Grows, NEW t \in Task, NEW e \in Analysis, Sound(t, e),
           e.version \in Version \/ e.tries = 0
    PROVE  Sound(t, e)'
<1>1. /\ e.tries \in Nat /\ e.fixed \in Nat /\ e.num \in Nat /\ e.since \in Nat
  BY SettingOf DEF Analysis
<1>2. CASE e.version \in Version
  <2>1. Rows(e.version) \in Nat /\ Rows(e.version)' \in Nat
        /\ Rows(e.version)' >= Rows(e.version)
    BY <1>2, RowsOf DEF Grows
  <2>. QED
    BY <2>1, <1>1, <1>2 DEF Sound, Grows
<1>3. CASE e.version \notin Version
  <2>1. e.pc \in {"idle", "main", "folder"} /\ e.tries = 0
    BY <1>3 DEF Sound
  <2>. QED
    BY <2>1, <1>1, <1>3 DEF Sound, Grows, Recording, Recorded
<1>. QED
  BY <1>2, <1>3

LEMMA SoundFrom ==
    ASSUME TypeOK, SoundInv, Grows, NEW t \in Task, NEW e \in Analysis,
           ex' = [ex EXCEPT ![t] = e], Sound(t, e)'
    PROVE  SoundInv'
<1>. SUFFICES ASSUME NEW u \in Task PROVE Sound(u, ex[u])'
  BY DEF SoundInv
<1>1. ex \in [Task -> Analysis]
  BY TypeOf
<1>2. CASE u = t
  BY <1>1, <1>2 DEF Sound
<1>3. CASE u # t
  <2>1. ex'[u] = ex[u] /\ ex[u] \in Analysis /\ Sound(u, ex[u])
    BY <1>1, <1>3 DEF SoundInv
  <2>2. ex[u].version \in Version \/ ex[u].tries = 0
    BY <2>1 DEF Sound, Recording, Recorded
  <2>3. PICK f \in Analysis : f = ex[u]
    BY <2>1
  <2>4. Sound(u, f)'
    BY <2>1, <2>2, <2>3, StillSound
  <2>. QED
    BY <2>1, <2>3, <2>4 DEF Sound
<1>. QED
  BY <1>2, <1>3

(* The clock stands still, or an analysis takes its time.                  *)
LEMMA ClockKept ==
    ASSUME TypeOK, ClockInv, set' = set, clock' = clock, Due' \subseteq Due
    PROVE  ClockInv'
<1>1. Due' \in SUBSET Due /\ IsFiniteSet(Due) /\ Cardinality(Due) \in Nat
  BY Counted
<1>2. Cardinality(Due') <= Cardinality(Due) /\ Cardinality(Due') \in Nat
  BY <1>1, FS_Subset, FS_CardinalityType
<1>. QED
  BY <1>1, <1>2, SettingOf, TypeOf DEF ClockInv

LEMMA ClockTakes ==
    ASSUME TypeOK, ClockInv, set' = set, clock' = clock + 1,
           NEW t \in Due, Due' = Due \ {t}
    PROVE  ClockInv' /\ clock' \in 0 .. MaxAnalyses
<1>1. IsFiniteSet(Due) /\ Cardinality(Due) \in Nat
  BY Counted
<1>2. Cardinality(Due') = Cardinality(Due) - 1 /\ Cardinality(Due') \in Nat
  BY <1>1, FS_RemoveElement, FS_CardinalityType
<1>. QED
  BY <1>1, <1>2, SettingOf, TypeOf DEF ClockInv

LEMMA ExclusiveKept ==
    ASSUME ExclusiveInv, set' = set, Active' \subseteq Active
    PROVE  ExclusiveInv'
BY DEF ExclusiveInv

LEMMA HoldsKept ==
    ASSUME TypeOK, HoldsInv, set' = set, attempts' = attempts,
           \A v \in Version : Holding(v)' \subseteq Holding(v)
    PROVE  HoldsInv'
<1>. SUFFICES ASSUME NEW v \in Version
              PROVE  (Cardinality(HoldRows(v)) + Cardinality(Holding(v)) <= Allowed)'
  BY DEF HoldsInv
<1>1. Holding(v)' \in SUBSET Holding(v) /\ IsFiniteSet(Holding(v))
  BY Counted
<1>2. Cardinality(Holding(v)') <= Cardinality(Holding(v)) /\ Cardinality(Holding(v)') \in Nat
  BY <1>1, FS_Subset, FS_CardinalityType
<1>3. HoldRows(v)' = HoldRows(v) /\ Allowed' = Allowed
  BY DEF HoldRows, AcceptedRows, Allowed
<1>4. Allowed \in Nat /\ Cardinality(HoldRows(v)) \in Nat /\ Cardinality(Holding(v)) \in Nat
  BY Counted DEF Allowed
<1>5. Cardinality(HoldRows(v)) + Cardinality(Holding(v)) <= Allowed
  BY DEF HoldsInv
<1>. QED
  BY <1>2, <1>3, <1>4, <1>5

-----------------------------------------------------------------------------
\* Analysis t becomes e, which leaves the attempts as they are.
Becomes(t, e) ==
    /\ ex' = [ex EXCEPT ![t] = e]
    /\ UNCHANGED <<set, attempts>>
    /\ main' \in BOOLEAN

LEMMA GrowsWithoutRows ==
    ASSUME TypeOK, UNCHANGED <<set, attempts>>, version \in Version => version' \in Version
    PROVE  Grows
BY RowsOf DEF Grows, Rows

(* What becomes of the sets of analyses.                                   *)
LEMMA SetsOf ==
    ASSUME TypeOK, NEW t \in Task, NEW e \in Analysis, ex' = [ex EXCEPT ![t] = e]
    PROVE  /\ Due' = IF e.pc \in Reading THEN Due \cup {t} ELSE Due \ {t}
           /\ Active' = IF e.pc # "idle" THEN Active \cup {t} ELSE Active \ {t}
           /\ \A v \in Version :
                 Holding(v)' = IF e.version = v /\ MayHold(e)
                               THEN Holding(v) \cup {t} ELSE Holding(v) \ {t}
<1>1. ex \in [Task -> Analysis]
  BY TypeOf
<1>2. ex'[t] = e /\ \A u \in Task : u # t => ex'[u] = ex[u]
  BY <1>1
<1>3. Due' = IF e.pc \in Reading THEN Due \cup {t} ELSE Due \ {t}
  BY <1>2 DEF Due, Reading
<1>4. Active' = IF e.pc # "idle" THEN Active \cup {t} ELSE Active \ {t}
  BY <1>2 DEF Active
<1>5. ASSUME NEW v \in Version
      PROVE  Holding(v)' = IF e.version = v /\ MayHold(e)
                           THEN Holding(v) \cup {t} ELSE Holding(v) \ {t}
  BY <1>2 DEF Holding, MayHold, Recording
<1>. QED
  BY <1>3, <1>4, <1>5

(* A step within the analysis: it takes no time and does not come nearer   *)
(* to a row that puts the content off.                                     *)
LEMMA Moves ==
    ASSUME Inv, NEW t \in Task, NEW e \in Analysis, Becomes(t, e),
           UNCHANGED <<version, clock>>,
           Sound(t, e),
           e.pc \in Reading => ex[t].pc \in Reading,
           e.pc # "idle" => ex[t].pc # "idle",
           MayHold(e) => MayHold(ex[t]) /\ e.version = ex[t].version
    PROVE  Inv'
<1>1. TypeOK /\ ex \in [Task -> Analysis]
  BY TypeOf DEF Inv
<1>2. TypeOK'
  BY <1>1, TypeFrom, TypeOf DEF Becomes
<1>3. NumbersFollow'
  BY DEF Inv, Becomes, NumbersFollow
<1>4. Grows
  BY <1>1, GrowsWithoutRows DEF Becomes
<1>5. Sound(t, e)'
  BY <1>4 DEF Sound, Becomes, Rows
<1>6. SoundInv'
  BY <1>1, <1>4, <1>5, SoundFrom DEF Inv, Becomes
<1>7. Due' \subseteq Due /\ Active' \subseteq Active
  BY <1>1, SetsOf DEF Becomes, Due, Active
<1>8. ASSUME NEW v \in Version PROVE Holding(v)' \subseteq Holding(v)
  <2>1. ex' = [ex EXCEPT ![t] = e]
    BY DEF Becomes
  <2>2. CASE e.version = v /\ MayHold(e)
    <3>1. t \in Holding(v)
      BY <2>2 DEF Holding
    <3>. QED
      BY <1>1, <2>1, <2>2, <3>1, SetsOf
  <2>3. CASE ~(e.version = v /\ MayHold(e))
    <3>1. Holding(v)' = Holding(v) \ {t}
      BY <1>1, <2>1, <2>3, SetsOf
    <3>. QED
      BY <3>1
  <2>. QED
    BY <2>2, <2>3
<1>9. ClockInv' /\ ExclusiveInv' /\ HoldsInv'
  BY <1>1, <1>7, <1>8, ClockKept, ExclusiveKept, HoldsKept DEF Inv, Becomes
<1>. QED
  BY <1>2, <1>3, <1>6, <1>9 DEF Inv

(* A step that takes the time of t.                                        *)
LEMMA TakesTime ==
    ASSUME Inv, NEW t \in Task, NEW e \in Analysis, Becomes(t, e),
           version' = version, clock' = clock + 1,
           Sound(t, e), ex[t].pc \in Reading, e.pc \notin Reading, ~MayHold(e)
    PROVE  Inv'
<1>1. TypeOK /\ ex \in [Task -> Analysis]
  BY TypeOf DEF Inv
<1>2. t \in Due /\ Due' = Due \ {t}
  BY <1>1, SetsOf DEF Becomes, Due
<1>3. ClockInv' /\ clock' \in 0 .. MaxAnalyses
  BY <1>1, <1>2, ClockTakes DEF Inv, Becomes
<1>4. TypeOK'
  BY <1>1, <1>3, TypeFrom, TypeOf DEF Becomes
<1>5. NumbersFollow'
  BY DEF Inv, Becomes, NumbersFollow
<1>6. Grows
  BY <1>1, GrowsWithoutRows DEF Becomes
<1>7. Sound(t, e)'
  BY <1>6 DEF Sound, Becomes, Rows
<1>8. SoundInv'
  BY <1>1, <1>6, <1>7, SoundFrom DEF Inv, Becomes
<1>9. Active' \subseteq Active
  BY <1>1, SetsOf DEF Becomes, Active, Reading
<1>10. ASSUME NEW v \in Version PROVE Holding(v)' \subseteq Holding(v)
  <2>1. ex' = [ex EXCEPT ![t] = e]
    BY DEF Becomes
  <2>2. Holding(v)' = Holding(v) \ {t}
    BY <1>1, <2>1, SetsOf
  <2>. QED
    BY <2>2
<1>11. ExclusiveInv' /\ HoldsInv'
  BY <1>1, <1>9, <1>10, ExclusiveKept, HoldsKept DEF Inv, Becomes
<1>. QED
  BY <1>3, <1>4, <1>5, <1>8, <1>11 DEF Inv
-----------------------------------------------------------------------------
(* The steps before the inference.                                         *)

LEMMA InitInv == Init => Inv
<1>. SUFFICES ASSUME Init PROVE Inv
  OBVIOUS
<1>1. Idle \in Analysis
  BY AttemptsAssumption DEF Idle, Analysis, Place, Row, RowType, Decision, Failure, Init
<1>2. ex \in [Task -> Analysis] /\ \A t \in Task : ex[t] = Idle /\ ex[t].pc = "idle"
  BY <1>1 DEF Init, Idle
<1>3. TypeOK
  <2>1. set \in Settings /\ version \in 0 .. MaxVersion /\ clock \in 0 .. MaxAnalyses
        /\ main \in BOOLEAN
    <3>1. MaxVersion \in Nat /\ MaxAnalyses \in Nat
      BY AttemptsAssumption
    <3>2. set \in Settings /\ version = 0 /\ clock = 0 /\ main = FALSE
      BY DEF Init
    <3>3. 0 \in 0 .. MaxVersion /\ 0 \in 0 .. MaxAnalyses
      BY <3>1
    <3>. QED
      BY <3>2, <3>3
  <2>2. attempts \in [Version -> Seq(RowType)]
    <3>1. <<>> \in Seq(RowType)
      OBVIOUS
    <3>. QED
      BY <3>1 DEF Init
  <2>. QED
    BY <1>2, <2>1, <2>2 DEF TypeOK, Analysis, Place, Reading, Recording, Recorded
<1>4. NumbersFollow
  BY DEF Init, NumbersFollow
<1>5. SoundInv
  <2>1. Idle.pc = "idle" /\ Idle.tries = 0 /\ Idle.fixed = 0
    BY DEF Idle
  <2>. QED
    BY <1>2, <2>1 DEF SoundInv, Sound, Recording
<1>6. Due = {} /\ Active = {}
  BY <1>2 DEF Due, Active, Reading
<1>7. ClockInv /\ ExclusiveInv
  BY <1>3, <1>6, FS_EmptySet, SettingOf DEF Init, ClockInv, ExclusiveInv
<1>8. HoldsInv
  <2>. SUFFICES ASSUME NEW v \in Version
                PROVE  Cardinality(HoldRows(v)) + Cardinality(Holding(v)) <= Allowed
    BY DEF HoldsInv
  <2>1. HoldRows(v) = {}
    BY DEF Init, HoldRows, AcceptedRows
  <2>2. Holding(v) = {}
    BY <1>2 DEF Holding, MayHold, Recording
  <2>. QED
    BY <1>3, <2>1, <2>2, FS_EmptySet, Counted DEF Allowed
<1>. QED
  BY <1>3, <1>4, <1>5, <1>7, <1>8 DEF Inv

LEMMA BeginInv ==
    ASSUME Inv, NEW t \in Task, Begin(t)
    PROVE  Inv'
<1>1. TypeOK /\ ex \in [Task -> Analysis] /\ At(t, "idle") /\ Sound(t, ex[t])
  BY TypeOf DEF Inv, Begin, SoundInv
<1>2. PICK e \in Analysis : /\ ex' = [ex EXCEPT ![t] = e] /\ e.pc = "main"
                            /\ e.tries = 0 /\ e.fixed = 0
                            /\ version' \in Version
  <2>1. ex[t] \in Analysis /\ ex[t].tries = 0 /\ ex[t].fixed = 0
    BY <1>1 DEF Sound, At, Recording, Recorded
  <2>2. CASE KindOf[t] = "cycle"
    <3> DEFINE e == [ex[t] EXCEPT !.pc = "main", !.version = version + 1]
    <3>1. version' = version + 1 /\ version' \in Version /\ version + 1 \in 0 .. MaxVersion
      BY <1>1, <2>2, SettingOf, TypeOf DEF Begin, Version
    <3>2. e \in Analysis /\ e.pc = "main" /\ e.tries = 0 /\ e.fixed = 0
      BY <2>1, <3>1 DEF Analysis, Place, Reading
    <3>3. ex' = [ex EXCEPT ![t] = e]
      BY <1>1, <2>2 DEF Begin
    <3>. QED
      BY <3>1, <3>2, <3>3
  <2>3. CASE KindOf[t] # "cycle"
    <3> DEFINE e == [ex[t] EXCEPT !.pc = "main"]
    <3>1. version' = version /\ version \in Version
      BY <1>1, <2>3, SettingOf, TypeOf DEF Begin, Version
    <3>2. e \in Analysis /\ e.pc = "main" /\ e.tries = 0 /\ e.fixed = 0
      BY <2>1 DEF Analysis, Place, Reading
    <3>3. ex' = [ex EXCEPT ![t] = e]
      BY <1>1, <2>3 DEF Begin
    <3>. QED
      BY <3>1, <3>2, <3>3
  <2>. QED
    BY <2>2, <2>3
<1>3. /\ set' = set /\ attempts' = attempts /\ main' = main /\ clock' = clock
      /\ t \in set.tasks /\ (set.exclusive => Active = {})
      /\ clock + Cardinality(Active) < set.analyses
  BY DEF Begin
<1>4. version' \in 0 .. MaxVersion
  BY <1>2, SettingOf, <1>1 DEF Version
<1>5. TypeOK'
  BY <1>1, <1>2, <1>3, <1>4, TypeFrom, TypeOf DEF TypeOK
<1>6. NumbersFollow'
  BY <1>3 DEF Inv, NumbersFollow
<1>7. Grows
  BY <1>1, <1>2, <1>3, GrowsWithoutRows
<1>8. Sound(t, e)'
  BY <1>2, <1>3 DEF Sound, Recording, Recorded
<1>9. SoundInv'
  BY <1>1, <1>2, <1>7, <1>8, SoundFrom DEF Inv
<1>10. ClockInv'
  <2>1. Due' = Due \cup {t} /\ Due \in SUBSET Active
    BY <1>1, <1>2, SetsOf DEF Reading, Due, Active
  <2>2. IsFiniteSet(Due) /\ IsFiniteSet(Active) /\ Cardinality(Due) \in Nat
        /\ Cardinality(Active) \in Nat
    BY <1>1, Counted
  <2>3. Cardinality(Due) <= Cardinality(Active)
    BY <2>1, <2>2, FS_Subset
  <2>4. Cardinality(Due \cup {t}) \in Nat /\ Cardinality(Due \cup {t}) <= Cardinality(Due) + 1
    <3>1. /\ IsFiniteSet(Due \cup {t})
          /\ Cardinality(Due \cup {t}) = IF t \in Due THEN Cardinality(Due)
                                         ELSE Cardinality(Due) + 1
      BY <2>2, FS_AddElement
    <3>. QED
      BY <2>2, <3>1
  <2>5. clock \in Nat /\ set.analyses \in Nat
    BY <1>1, SettingOf, TypeOf
  <2>6. clock + Cardinality(Due') <= set.analyses
    BY <1>3, <2>1, <2>2, <2>3, <2>4, <2>5
  <2>. QED
    BY <1>3, <2>6 DEF ClockInv
<1>11. ExclusiveInv'
  <2>1. Active' = Active \cup {t}
    BY <1>1, <1>2, SetsOf
  <2>. QED
    BY <1>3, <2>1 DEF ExclusiveInv
<1>12. ASSUME NEW v \in Version PROVE Holding(v)' \subseteq Holding(v)
  <2>1. ~MayHold(e)
    BY <1>2 DEF MayHold, Recording
  <2>2. Holding(v)' = Holding(v) \ {t}
    BY <1>1, <1>2, <2>1, SetsOf
  <2>. QED
    BY <2>2
<1>13. HoldsInv'
  BY <1>1, <1>3, <1>12, HoldsKept DEF Inv
<1>. QED
  BY <1>5, <1>6, <1>9, <1>10, <1>11, <1>13 DEF Inv

(* What the invariant says of an analysis under way.                       *)
LEMMA Underway ==
    ASSUME Inv, NEW t \in Task, ex[t].pc # "idle"
    PROVE  /\ TypeOK /\ ex \in [Task -> Analysis] /\ ex[t] \in Analysis
           /\ Sound(t, ex[t]) /\ t \in set.tasks /\ version \in Version
           /\ main \in BOOLEAN /\ clock \in 0 .. MaxAnalyses
           /\ version \in 0 .. MaxVersion
BY TypeOf DEF Inv, SoundInv, Sound, TypeOK

LEMMA ReadMainInv ==
    ASSUME Inv, NEW t \in Task, ReadMain(t)
    PROVE  Inv'
<1>1. ex[t].pc = "main"
  BY DEF ReadMain, At
<1>2. UNCHANGED <<set, version, attempts, main, clock>>
  BY DEF ReadMain
<1>3. PICK e \in Analysis :
          /\ ex' = [ex EXCEPT ![t] = e]
          /\ e.pc = "folder" /\ e.tries = ex[t].tries /\ e.fixed = ex[t].fixed
  <2> DEFINE r == [ex[t] EXCEPT !.pc = "folder", !.main = main]
  <2>1. ex' = [ex EXCEPT ![t] = r]
    BY <1>1, Underway DEF ReadMain
  <2>2. "folder" \in Place /\ main \in BOOLEAN /\ ex[t] \in Analysis
    BY <1>1, Underway DEF Place, Reading
  <2>3. r \in Analysis /\ r.pc = "folder" /\ r.tries = ex[t].tries /\ r.fixed = ex[t].fixed
    BY <2>2 DEF Analysis
  <2>. QED
    BY <2>1, <2>3
<1>4. Sound(t, e)
  BY <1>1, <1>3, Underway DEF Sound, Recording, Recorded
<1>5. Becomes(t, e)
  BY <1>1, <1>2, <1>3, Underway DEF Becomes
<1>. QED
  BY <1>1, <1>2, <1>3, <1>4, <1>5, Moves DEF MayHold, Reading, Recording

LEMMA ReuseInv ==
    ASSUME Inv, NEW t \in Task, Reuse(t)
    PROVE  Inv'
<1>1. ex[t].pc = "folder"
  BY DEF Reuse, At
<1>2. UNCHANGED <<set, version, attempts, main, clock>>
  BY DEF Reuse
<1>3. PICK e \in Analysis :
          /\ ex' = [ex EXCEPT ![t] = e]
          /\ e.pc = "publish" /\ e.version = version
          /\ e.tries = ex[t].tries /\ e.fixed = ex[t].fixed
  <2>1. PICK i \in DOMAIN attempts[version] :
             ex' = [ex EXCEPT ![t].pc = "publish", ![t].version = version,
                              ![t].row = attempts[version][i]]
    BY DEF Reuse
  <2> DEFINE r == [ex[t] EXCEPT !.pc = "publish", !.version = version,
                                !.row = attempts[version][i]]
  <2>2. ex' = [ex EXCEPT ![t] = r]
    BY <1>1, <2>1, Underway
  <2>3. attempts[version][i] \in RowType
    BY <1>1, <2>1, Underway, RowsOf
  <2>4. "publish" \in Place /\ version \in 0 .. MaxVersion /\ ex[t] \in Analysis
    BY <1>1, Underway DEF Place, Recorded
  <2>5. /\ r \in Analysis
        /\ r.pc = "publish" /\ r.version = version
        /\ r.tries = ex[t].tries /\ r.fixed = ex[t].fixed
    BY <2>3, <2>4 DEF Analysis
  <2>. QED
    BY <2>2, <2>5
<1>4. Sound(t, e)
  BY <1>1, <1>3, Underway DEF Sound, Recording, Recorded
<1>5. Becomes(t, e)
  BY <1>1, <1>2, <1>3, Underway DEF Becomes
<1>. QED
  BY <1>1, <1>2, <1>3, <1>4, <1>5, Moves DEF MayHold, Reading, Recording

(* No row that is recorded without an inference puts the content off and   *)
(* is accepted.                                                            *)
LEMMA ConcludeInv ==
    ASSUME Inv, NEW t \in Task, NEW decision \in Decision, NEW accepted \in BOOLEAN,
           accepted => decision # "hold", Conclude(t, decision, accepted)
    PROVE  Inv'
<1>1. ex[t].pc = "folder"
  BY DEF Conclude, At
<1>2. UNCHANGED <<set, version, attempts, main>> /\ clock' = clock + 1
  BY DEF Conclude
<1>3. PICK e \in Analysis :
          /\ ex' = [ex EXCEPT ![t] = e]
          /\ e.pc = "count" /\ e.version = version
          /\ e.tries = ex[t].tries /\ e.fixed = ex[t].fixed
          /\ e.row.decision = decision /\ e.row.accepted = accepted
  <2> DEFINE w == Row(0, decision, accepted, clock)
             r == [ex[t] EXCEPT !.pc = "count", !.version = version, !.row = w]
  <2>1. w \in RowType /\ w.decision = decision /\ w.accepted = accepted
    BY <1>1, Underway DEF Row, RowType
  <2>2. ex' = [ex EXCEPT ![t] = r]
    BY <1>1, Underway DEF Conclude
  <2>3. "count" \in Place /\ version \in 0 .. MaxVersion /\ ex[t] \in Analysis
    BY <1>1, Underway DEF Place, Recording
  <2> HIDE DEF w
  <2>4. /\ r \in Analysis
        /\ r.pc = "count" /\ r.version = version /\ r.row = w
        /\ r.tries = ex[t].tries /\ r.fixed = ex[t].fixed
    BY <2>1, <2>3 DEF Analysis
  <2>. QED
    BY <2>1, <2>2, <2>4
<1>4. Sound(t, e)
  <2>1. e.tries = 0 /\ e.fixed = 0
    BY <1>1, <1>3, Underway DEF Sound, Recording, Recorded
  <2>2. Rows(version) \in Nat /\ set.tries \in Nat /\ set.tries >= 1
    BY <1>1, Underway, RowsOf, SettingOf
  <2>. QED
    BY <1>1, <1>3, <2>1, <2>2, Underway DEF Sound, Recording, Recorded
<1>5. Becomes(t, e)
  BY <1>1, <1>2, <1>3, Underway DEF Becomes
<1>6. ~MayHold(e)
  BY <1>3 DEF MayHold
<1>. QED
  BY <1>1, <1>2, <1>3, <1>4, <1>5, <1>6, TakesTime DEF Reading

LEMMA WithoutInferenceInv ==
    ASSUME Inv, NEW t \in Task, NotMaterial(t) \/ ContextTooLarge(t) \/ PublishCritical(t)
    PROVE  Inv'
BY ConcludeInv DEF NotMaterial, ContextTooLarge, PublishCritical, Decision, Terminal

LEMMA ToInferInv ==
    ASSUME Inv, NEW t \in Task, ToInfer(t)
    PROVE  Inv'
<1>1. ex[t].pc = "folder"
  BY DEF ToInfer, At
<1>2. UNCHANGED <<set, version, attempts, main, clock>>
  BY DEF ToInfer
<1>3. PICK e \in Analysis :
          /\ ex' = [ex EXCEPT ![t] = e]
          /\ e.pc = "infer" /\ e.version = version
          /\ e.tries = ex[t].tries /\ e.fixed = ex[t].fixed
  <2> DEFINE m == Enriches(t)
             r == [ex[t] EXCEPT !.pc = "infer", !.version = version, !.material = m]
  <2>1. ex' = [ex EXCEPT ![t] = r]
    BY <1>1, Underway DEF ToInfer
  <2>2. m \in BOOLEAN
    BY DEF Enriches
  <2>3. "infer" \in Place /\ version \in 0 .. MaxVersion /\ ex[t] \in Analysis
    BY <1>1, Underway DEF Place, Reading
  <2> HIDE DEF m
  <2>4. /\ r \in Analysis
        /\ r.pc = "infer" /\ r.version = version
        /\ r.tries = ex[t].tries /\ r.fixed = ex[t].fixed
    BY <2>2, <2>3 DEF Analysis
  <2>. QED
    BY <2>1, <2>4
<1>4. Sound(t, e)
  BY <1>1, <1>3, Underway DEF Sound, Recording, Recorded
<1>5. Becomes(t, e)
  BY <1>1, <1>2, <1>3, Underway DEF Becomes
<1>. QED
  BY <1>1, <1>2, <1>3, <1>4, <1>5, Moves DEF MayHold, Reading, Recording

-----------------------------------------------------------------------------
(* The inference and what is made of it.                                   *)

LEMMA InferInv ==
    ASSUME Inv, NEW t \in Task, NEW outcome \in Outcomes, Infer(t, outcome)
    PROVE  Inv'
<1>1. ex[t].pc = "infer"
  BY DEF Infer, At
<1>2. UNCHANGED <<set, version, attempts, main>> /\ clock' = clock + 1
  BY DEF Infer
<1>3. PICK e \in Analysis :
          /\ ex' = [ex EXCEPT ![t] = e]
          /\ e.pc = "holds" /\ e.version = ex[t].version
          /\ e.tries = ex[t].tries /\ e.fixed = ex[t].fixed
  <2> DEFINE r == [ex[t] EXCEPT !.pc = "holds", !.answer = outcome, !.at = clock]
  <2>1. ex' = [ex EXCEPT ![t] = r]
    BY <1>1, Underway DEF Infer
  <2>2. "holds" \in Place /\ clock \in 0 .. MaxAnalyses /\ ex[t] \in Analysis
    BY <1>1, Underway DEF Place
  <2>3. /\ r \in Analysis
        /\ r.pc = "holds" /\ r.version = ex[t].version
        /\ r.tries = ex[t].tries /\ r.fixed = ex[t].fixed
    BY <2>2 DEF Analysis
  <2>. QED
    BY <2>1, <2>3
<1>4. Sound(t, e)
  BY <1>1, <1>3, Underway DEF Sound, Recording, Recorded
<1>5. Becomes(t, e)
  BY <1>1, <1>2, <1>3, Underway DEF Becomes
<1>6. ~MayHold(e)
  BY <1>3 DEF MayHold, Recording
<1>. QED
  BY <1>1, <1>2, <1>3, <1>4, <1>5, <1>6, TakesTime DEF Reading

(* The holds are counted: an analysis that finds one at most may add one,  *)
(* as may the others at work.                                              *)
LEMMA ReadHoldsInv ==
    ASSUME Inv, NEW t \in Task, ReadHolds(t)
    PROVE  Inv'
<1>1. ex[t].pc = "holds"
  BY DEF ReadHolds, At
<1>2. UNCHANGED <<set, version, attempts, main, clock>>
  BY DEF ReadHolds
<1>3. TypeOK /\ ex[t].version \in Version
  BY <1>1, Underway DEF Sound
<1>4. PICK e \in Analysis :
          /\ ex' = [ex EXCEPT ![t] = e]
          /\ e.pc = "number" /\ e.version = ex[t].version
          /\ e.tries = ex[t].tries /\ e.fixed = ex[t].fixed
          /\ e.holds = CountHolds(ex[t].version)
  <2> DEFINE n == CountHolds(ex[t].version)
             r == [ex[t] EXCEPT !.pc = "number", !.holds = n]
  <2>1. ex' = [ex EXCEPT ![t] = r]
    BY <1>1, Underway DEF ReadHolds
  <2>2. n \in Nat
    BY <1>3, Counted
  <2>3. "number" \in Place /\ ex[t] \in Analysis
    BY <1>1, Underway DEF Place
  <2> HIDE DEF n
  <2>4. /\ r \in Analysis
        /\ r.pc = "number" /\ r.version = ex[t].version /\ r.holds = n
        /\ r.tries = ex[t].tries /\ r.fixed = ex[t].fixed
    BY <2>2, <2>3 DEF Analysis
  <2>. QED
    BY <2>1, <2>4 DEF n
<1>5. Sound(t, e)
  BY <1>1, <1>4, Underway DEF Sound, Recording, Recorded
<1>6. TypeOK'
  BY <1>2, <1>3, <1>4, TypeFrom, TypeOf DEF TypeOK
<1>7. NumbersFollow' /\ SoundInv'
  <2>1. Grows
    BY <1>2, <1>3, GrowsWithoutRows
  <2>2. Sound(t, e)'
    BY <1>2, <1>5 DEF Sound, Rows
  <2>. QED
    BY <1>2, <1>3, <1>4, <2>1, <2>2, SoundFrom DEF Inv, NumbersFollow
<1>8. Due' \subseteq Due /\ Active' \subseteq Active
  <2>1. t \in Active
    BY <1>1 DEF Active
  <2>. QED
    BY <1>3, <1>4, <2>1, SetsOf DEF Reading
<1>9. ClockInv' /\ ExclusiveInv'
  BY <1>2, <1>3, <1>8, ClockKept, ExclusiveKept DEF Inv
<1>10. HoldsInv'
  <2>. SUFFICES ASSUME NEW v \in Version
                PROVE  (Cardinality(HoldRows(v)) + Cardinality(Holding(v)) <= Allowed)'
    BY DEF HoldsInv
  <2>1. /\ HoldRows(v)' = HoldRows(v) /\ Allowed' = Allowed /\ Allowed \in Nat
        /\ IsFiniteSet(Holding(v)) /\ Cardinality(Holding(v)) \in Nat
        /\ Cardinality(HoldRows(v)) \in Nat
    BY <1>2, <1>3, Counted DEF HoldRows, AcceptedRows, Allowed
  <2>2. Cardinality(HoldRows(v)) + Cardinality(Holding(v)) <= Allowed
    BY DEF Inv, HoldsInv
  <2>3. CASE ~(e.version = v /\ MayHold(e))
    <3>1. Holding(v)' = Holding(v) \ {t}
      BY <1>3, <1>4, <2>3, SetsOf
    <3>2. /\ Cardinality(Holding(v) \ {t}) \in Nat
          /\ Cardinality(Holding(v) \ {t}) <= Cardinality(Holding(v))
      BY <2>1, FS_Subset, FS_CardinalityType
    <3>. QED
      BY <2>1, <2>2, <3>1, <3>2
  <2>4. CASE e.version = v /\ MayHold(e)
    <3>1. CountHolds(v) < 2 /\ CountHolds(v) \in Nat
          /\ Cardinality(HoldRows(v)) <= CountHolds(v)
      BY <1>3, <1>4, <2>4, Counted DEF MayHold, Recording
    <3>2. Cardinality(HoldRows(v)) <= 1
      BY <2>1, <3>1
    <3>3. Holding(v)' \subseteq Active' /\ t \in Active'
      BY <1>4, <1>3, SetsOf, TypeOf DEF Holding, MayHold, Active, Recording
    <3>4. CASE set.exclusive
      <4>1. Holding(v)' \subseteq {t}
        BY <1>2, <1>9, <3>3, <3>4 DEF ExclusiveInv
      <4>2. IsFiniteSet({t}) /\ Cardinality({t}) = 1
        BY FS_Singleton
      <4>3. Cardinality(Holding(v)') \in Nat /\ Cardinality(Holding(v)') <= 1
        BY <4>1, <4>2, FS_Subset, FS_CardinalityType
      <4>. QED
        BY <2>1, <3>2, <3>4, <4>3 DEF Allowed
    <3>5. CASE ~set.exclusive
      <4>1. Holding(v)' \subseteq set.tasks
        <5>1. ASSUME NEW u \in Task, ex'[u].pc # "idle" PROVE u \in set.tasks
          BY <1>2, <1>7, <5>1 DEF SoundInv, Sound
        <5>. QED
          BY <3>3, <5>1 DEF Active, Holding
      <4>2. IsFiniteSet(set.tasks) /\ Cardinality(set.tasks) \in Nat
        BY <1>3, Counted
      <4>3. Cardinality(Holding(v)') \in Nat
            /\ Cardinality(Holding(v)') <= Cardinality(set.tasks)
        BY <4>1, <4>2, FS_Subset, FS_CardinalityType
      <4>. QED
        BY <2>1, <3>2, <3>5, <4>2, <4>3 DEF Allowed
    <3>. QED
      BY <3>4, <3>5
  <2>. QED
    BY <2>3, <2>4
<1>. QED
  BY <1>6, <1>7, <1>9, <1>10 DEF Inv

(* A decision of the model that puts off is one made with fewer than two   *)
(* holds.                                                                  *)
LEMMA HoldDecided ==
    ASSUME NEW composite, NEW worthiness, NEW hasMain, NEW material, NEW facts,
           NEW holds \in Nat,
           DecidePublication(composite, worthiness, hasMain, material, facts, holds) = "hold"
    PROVE  holds < 2
BY DEF DecidePublication

(* What the conclusion of an inference does: the number a failure insists   *)
(* on is at most the next one.                                             *)
LEMMA ConclusionInv ==
    ASSUME Inv, NEW t \in Task, ex[t].pc = "number",
           UNCHANGED <<set, version, attempts, main, clock>>,
           NEW decision \in Decision, NEW accepted \in BOOLEAN, NEW fixed \in Nat,
           ex' = [ex EXCEPT ![t].pc = "count", ![t].fixed = fixed,
                            ![t].row = Row(0, decision, accepted, ex[t].at)],
           fixed <= Rows(ex[t].version) + 1,
           accepted /\ decision = "hold" => ex[t].holds < 2
    PROVE  Inv'
<1>1. /\ TypeOK /\ ex[t] \in Analysis /\ ex[t].version \in Version
      /\ ex[t].tries = 0 /\ ex[t].at \in 0 .. MaxAnalyses
  BY Underway DEF Sound, Analysis, Recording, Recorded
<1>2. Rows(ex[t].version) \in Nat
  BY <1>1, RowsOf
<1>3. PICK e \in Analysis :
          /\ ex' = [ex EXCEPT ![t] = e]
          /\ e.pc = "count" /\ e.version = ex[t].version
          /\ e.tries = 0 /\ e.fixed = fixed
          /\ e.row.decision = decision /\ e.row.accepted = accepted
  <2> DEFINE w == Row(0, decision, accepted, ex[t].at)
             r == [ex[t] EXCEPT !.pc = "count", !.fixed = fixed, !.row = w]
  <2>1. w \in RowType /\ w.decision = decision /\ w.accepted = accepted
    BY <1>1 DEF Row, RowType
  <2>2. ex' = [ex EXCEPT ![t] = r]
    BY Underway
  <2>3. "count" \in Place
    BY DEF Place, Recording
  <2> HIDE DEF w
  <2>4. /\ r \in Analysis
        /\ r.pc = "count" /\ r.version = ex[t].version /\ r.row = w
        /\ r.tries = 0 /\ r.fixed = fixed
    BY <1>1, <2>1, <2>3 DEF Analysis
  <2>. QED
    BY <2>1, <2>2, <2>4
<1>4. Sound(t, e)
  <2>1. set.tries \in Nat /\ set.tries >= 1
    BY <1>1, SettingOf
  <2>. QED
    BY <1>1, <1>2, <1>3, <2>1, Underway DEF Sound, Recording, Recorded
<1>5. Becomes(t, e)
  BY <1>3, Underway DEF Becomes
<1>6. MayHold(e) => MayHold(ex[t]) /\ e.version = ex[t].version
  BY <1>3 DEF MayHold
<1>. QED
  BY <1>3, <1>4, <1>5, <1>6, Moves DEF Reading

LEMMA ReadNumberInv ==
    ASSUME Inv, NEW t \in Task, ReadNumber(t)
    PROVE  Inv'
<1>1. ex[t].pc = "number"
  BY DEF ReadNumber, At
<1>2. UNCHANGED <<set, version, attempts, main, clock>>
  BY DEF ReadNumber
<1>3. /\ TypeOK /\ ex[t].version \in Version /\ ex[t].holds \in Nat
  BY <1>1, Underway DEF Sound, Analysis
<1>4. Rows(ex[t].version) \in Nat /\ CountAttempts(ex[t].version) = Rows(ex[t].version)
  BY <1>3, RowsOf DEF CountAttempts, Rows
<1>5. {"publish", "hold"} \subseteq Decision
  BY DEF Decision, Terminal
<1> DEFINE a == ex[t].answer
           d == DecidePublication(a.composite, a.worthiness, ex[t].main,
                                  ex[t].material, a.facts, ex[t].holds)
<1>6. CASE a.outcome = "failed" /\ FallbackMatches(t)
  <2>1. ex' = [ex EXCEPT ![t].pc = "count", ![t].fixed = 0,
                         ![t].row = Row(0, "publish", TRUE, ex[t].at)]
    BY <1>6 DEF ReadNumber
  <2>2. 0 <= Rows(ex[t].version) + 1
    BY <1>4
  <2>3. ~(TRUE /\ "publish" = "hold")
    OBVIOUS
  <2>. QED
    BY <1>1, <1>2, <1>5, <2>1, <2>2, <2>3, ConclusionInv
<1>7. CASE ~(a.outcome = "failed" /\ FallbackMatches(t)) /\ a.outcome # "ok"
  <2>1. PICK fixed \in Nat : fixed = CountAttempts(ex[t].version) + 1
    BY <1>4
  <2>2. ex' = [ex EXCEPT ![t].pc = "count", ![t].fixed = fixed,
                         ![t].row = Row(0, "hold", FALSE, ex[t].at)]
    BY <1>7, <2>1 DEF ReadNumber
  <2>3. fixed <= Rows(ex[t].version) + 1
    BY <1>4, <2>1
  <2>. QED
    BY <1>1, <1>2, <1>5, <2>2, <2>3, ConclusionInv
<1>8. CASE ~(a.outcome = "failed" /\ FallbackMatches(t)) /\ a.outcome = "ok"
  <2>1. PICK decision \in Decision : decision = d
    BY DEF DecidePublication, Decision, Terminal
  <2>2. ex' = [ex EXCEPT ![t].pc = "count", ![t].fixed = 0,
                         ![t].row = Row(0, decision, TRUE, ex[t].at)]
    BY <1>8, <2>1 DEF ReadNumber
  <2>3. decision = "hold" => ex[t].holds < 2
    BY <1>3, <2>1, HoldDecided
  <2>4. 0 <= Rows(ex[t].version) + 1
    BY <1>4
  <2>. QED
    BY <1>1, <1>2, <2>2, <2>3, <2>4, ConclusionInv
<1>. QED
  BY <1>6, <1>7, <1>8

-----------------------------------------------------------------------------
(* The row is recorded.                                                    *)

(* What the invariant says of an analysis that records its row.            *)
LEMMA Recorder ==
    ASSUME Inv, NEW t \in Task, ex[t].pc \in Recording
    PROVE  /\ TypeOK /\ ex[t] \in Analysis /\ Sound(t, ex[t]) /\ ex[t].pc # "idle"
           /\ ex[t].version \in Version /\ ex[t].row \in RowType
           /\ ex[t].tries \in Nat /\ ex[t].fixed \in Nat /\ ex[t].num \in Nat
           /\ ex[t].since \in Nat
           /\ Rows(ex[t].version) \in Nat
           /\ CountAttempts(ex[t].version) = Rows(ex[t].version)
<1>1. ex[t].pc # "idle"
  BY DEF Recording
<1>2. /\ TypeOK /\ ex[t] \in Analysis /\ Sound(t, ex[t])
  BY <1>1, Underway
<1>3. ex[t].version \in Version
  BY <1>2 DEF Sound, Recording
<1>. QED
  BY <1>1, <1>2, <1>3, RowsOf, SettingOf DEF Analysis, CountAttempts, Rows

LEMMA CountInv ==
    ASSUME Inv, NEW t \in Task, Count(t)
    PROVE  Inv'
<1>1. ex[t].pc = "count" /\ ex[t].pc \in Recording
  BY DEF Count, At, Recording
<1>2. UNCHANGED <<set, version, attempts, main, clock>>
  BY DEF Count
<1>3. PICK e \in Analysis :
          /\ ex' = [ex EXCEPT ![t] = e]
          /\ e.pc = "create" /\ e.version = ex[t].version /\ e.row = ex[t].row
          /\ e.tries = ex[t].tries /\ e.fixed = ex[t].fixed
          /\ e.num = IF e.fixed # 0 THEN e.fixed ELSE Rows(e.version) + 1
          /\ e.since = IF e.tries = 0 THEN Rows(e.version) ELSE ex[t].since
  <2> DEFINE n == Rows(ex[t].version)
             num == IF ex[t].fixed # 0 THEN ex[t].fixed ELSE n + 1
             since == IF ex[t].tries = 0 THEN n ELSE ex[t].since
             r == [ex[t] EXCEPT !.pc = "create", !.num = num, !.since = since]
  <2>1. ex' = [ex EXCEPT ![t] = r]
    <3>1. ex \in [Task -> Analysis] /\ CountAttempts(ex[t].version) = n
      BY <1>1, Underway, Recorder
    <3> HIDE DEF n
    <3>. QED
      BY <3>1 DEF Count
  <2>2. num \in Nat /\ since \in Nat /\ ex[t] \in Analysis
    BY <1>1, Recorder
  <2>3. "create" \in Place
    BY DEF Place, Recording
  <2> HIDE DEF num, since
  <2>4. /\ r \in Analysis
        /\ r.pc = "create" /\ r.version = ex[t].version /\ r.row = ex[t].row
        /\ r.tries = ex[t].tries /\ r.fixed = ex[t].fixed
        /\ r.num = num /\ r.since = since
    BY <2>2, <2>3 DEF Analysis
  <2>. QED
    BY <2>1, <2>4 DEF num, since
<1>4. Sound(t, e)
  BY <1>1, <1>3, Recorder DEF Sound, Recording, Recorded
<1>5. Becomes(t, e)
  BY <1>1, <1>2, <1>3, Recorder, Underway DEF Becomes
<1>6. MayHold(e) => MayHold(ex[t]) /\ e.version = ex[t].version
  BY <1>1, <1>3 DEF MayHold, Recording
<1>. QED
  BY <1>1, <1>2, <1>3, <1>4, <1>5, <1>6, Moves DEF Reading, Recording

LEMMA ConflictInv ==
    ASSUME Inv, NEW t \in Task, Conflict(t)
    PROVE  Inv'
<1>1. ex[t].pc = "create" /\ ex[t].pc \in Recording
  BY DEF Conflict, At, Recording
<1>2. UNCHANGED <<set, version, attempts, main, clock>>
  BY DEF Conflict
<1>3. PICK e \in Analysis :
          /\ ex' = [ex EXCEPT ![t] = e]
          /\ e.pc = IF e.tries = set.tries THEN "lost" ELSE "count"
          /\ e.version = ex[t].version /\ e.row = ex[t].row
          /\ e.tries = ex[t].tries + 1 /\ e.fixed = ex[t].fixed /\ e.since = ex[t].since
  <2> DEFINE n == ex[t].tries + 1
             place == IF n = set.tries THEN "lost" ELSE "count"
             r == [ex[t] EXCEPT !.pc = place, !.tries = n]
  <2>1. ex' = [ex EXCEPT ![t] = r]
    BY <1>1, Recorder, Underway DEF Conflict
  <2>2. n \in 0 .. set.tries /\ ex[t] \in Analysis
    BY <1>1, Recorder, SettingOf DEF Sound
  <2>3. place \in Place
    BY DEF Place, Recording, Recorded
  <2> HIDE DEF n, place
  <2>4. /\ r \in Analysis
        /\ r.pc = place /\ r.version = ex[t].version /\ r.row = ex[t].row
        /\ r.tries = n /\ r.fixed = ex[t].fixed /\ r.since = ex[t].since
    BY <2>2, <2>3 DEF Analysis
  <2>. QED
    BY <2>1, <2>4 DEF n, place
\* Its number is taken: others were recorded since it was read.
<1>4. ex[t].num <= Rows(ex[t].version)
  <2>1. PICK i \in DOMAIN attempts[ex[t].version] : attempts[ex[t].version][i].num = ex[t].num
    BY DEF Conflict, Taken
  <2>2. ex[t].num = i
    BY <1>1, <2>1, Recorder DEF Inv, NumbersFollow
  <2>. QED
    BY <1>1, <2>1, <2>2, Recorder, RowsOf
<1>5. Sound(t, e)
  <2>1. set.tries \in Nat /\ ex[t].tries < set.tries /\ t \in set.tasks /\ version \in Version
    BY <1>1, Recorder, SettingOf DEF Sound
  <2>2. ex[t].fixed <= Rows(ex[t].version) + 1
    BY <1>1, Recorder DEF Sound
  <2>3. ex[t].fixed = 0 => ex[t].num > ex[t].since + ex[t].tries
    BY <1>1, Recorder DEF Sound
  <2>4. ex[t].fixed = 0 => Rows(ex[t].version) >= ex[t].since + (ex[t].tries + 1)
    BY <1>1, <1>4, <2>3, Recorder
  <2>5. e.pc \in {"lost", "count"} /\ (e.pc = "count" => e.tries < set.tries)
    BY <1>1, <1>3, <2>1, Recorder
  <2>. QED
    BY <1>1, <1>3, <2>1, <2>2, <2>4, <2>5, Recorder DEF Sound, Recording, Recorded
<1>6. Becomes(t, e)
  BY <1>1, <1>2, <1>3, Recorder, Underway DEF Becomes
<1>7. MayHold(e) => MayHold(ex[t]) /\ e.version = ex[t].version
  BY <1>1, <1>3 DEF MayHold, Recording
<1>. QED
  BY <1>1, <1>2, <1>3, <1>5, <1>6, <1>7, Moves DEF Reading, Recording

(* The number that is free is the next one.                                *)
LEMMA NextNumber ==
    ASSUME Inv, NEW t \in Task, Create(t)
    PROVE  ex[t].num = Rows(ex[t].version) + 1
<1>1. ex[t].pc = "create" /\ ex[t].pc \in Recording
  BY DEF Create, At, Recording
<1>2. 1 <= ex[t].num /\ ex[t].num <= Rows(ex[t].version) + 1
  BY <1>1, Recorder DEF Sound
<1>3. ASSUME ex[t].num <= Rows(ex[t].version) PROVE FALSE
  <2>1. ex[t].num \in DOMAIN attempts[ex[t].version]
    BY <1>1, <1>2, <1>3, Recorder, RowsOf
  <2>2. attempts[ex[t].version][ex[t].num].num = ex[t].num
    BY <1>1, <2>1, Recorder DEF Inv, NumbersFollow
  <2>. QED
    BY <2>1, <2>2 DEF Create, Taken
<1>. QED
  BY <1>1, <1>2, <1>3, Recorder

(* The row goes to the end of its fingerprint.                             *)
LEMMA CreatesRow ==
    ASSUME Inv, NEW t \in Task, Create(t), NEW v \in Version, v = ex[t].version
    PROVE  \E new \in RowType :
             /\ new.num = Rows(v) + 1
             /\ new.decision = ex[t].row.decision /\ new.accepted = ex[t].row.accepted
             /\ attempts' \in [Version -> Seq(RowType)]
             /\ \A w \in Version : w # v => attempts'[w] = attempts[w]
             /\ DOMAIN attempts'[v] = DOMAIN attempts[v] \cup {Rows(v) + 1}
             /\ Rows(v)' = Rows(v) + 1
             /\ \A i \in DOMAIN attempts[v] : attempts'[v][i] = attempts[v][i]
             /\ attempts'[v][Rows(v) + 1] = new
<1>1. ex[t].pc \in Recording
  BY DEF Create, At, Recording
<1>2. PICK row \in RowType : row = ex[t].row
  BY <1>1, Recorder
<1>3. PICK num \in Nat : num = ex[t].num
  BY <1>1, Recorder
<1> DEFINE new == [row EXCEPT !.num = num]
<1>4. /\ new \in RowType /\ new.num = num
      /\ new.decision = row.decision /\ new.accepted = row.accepted
  BY <1>2, <1>3 DEF RowType
<1>5. /\ attempts \in [Version -> Seq(RowType)] /\ attempts[v] \in Seq(RowType)
      /\ Rows(v) = Len(attempts[v]) /\ Rows(v) \in Nat
  BY <1>1, Recorder, TypeOf DEF Rows
<1>6. attempts' = [attempts EXCEPT ![v] = Append(attempts[v], new)]
  BY <1>2, <1>3, <1>5 DEF Create
<1> HIDE DEF new
<1>7. PICK rows \in Seq(RowType) : rows = attempts[v]
  BY <1>5
<1>8. /\ Append(rows, new) \in Seq(RowType)
      /\ Len(Append(rows, new)) = Len(rows) + 1
      /\ DOMAIN Append(rows, new) = DOMAIN rows \cup {Len(rows) + 1}
      /\ \A i \in DOMAIN rows : Append(rows, new)[i] = rows[i]
      /\ Append(rows, new)[Len(rows) + 1] = new
  BY <1>4
<1>9. /\ attempts'[v] = Append(rows, new)
      /\ \A w \in Version : w # v => attempts'[w] = attempts[w]
  BY <1>5, <1>6, <1>7
<1>10. attempts' \in [Version -> Seq(RowType)]
  BY <1>5, <1>6, <1>7, <1>8
<1>11. Rows(v)' = Rows(v) + 1
  BY <1>5, <1>7, <1>8, <1>9 DEF Rows
<1>12. new.num = Rows(v) + 1
  BY <1>3, <1>4, NextNumber
<1>. QED
  BY <1>2, <1>4, <1>5, <1>7, <1>8, <1>9, <1>10, <1>11, <1>12

LEMMA CreateInv ==
    ASSUME Inv, NEW t \in Task, Create(t)
    PROVE  Inv'
<1>1. ex[t].pc = "create" /\ ex[t].pc \in Recording
  BY DEF Create, At, Recording
<1>2. UNCHANGED <<set, version, main, clock>>
  BY DEF Create
<1>3. /\ TypeOK /\ ex \in [Task -> Analysis] /\ ex[t] \in Analysis
  BY <1>1, Recorder, Underway
<1>4. PICK v \in Version : v = ex[t].version
  BY <1>1, Recorder
<1>5. PICK new \in RowType :
             /\ new.num = Rows(v) + 1
             /\ new.decision = ex[t].row.decision /\ new.accepted = ex[t].row.accepted
             /\ attempts' \in [Version -> Seq(RowType)]
             /\ \A w \in Version : w # v => attempts'[w] = attempts[w]
             /\ DOMAIN attempts'[v] = DOMAIN attempts[v] \cup {Rows(v) + 1}
             /\ Rows(v)' = Rows(v) + 1
             /\ \A i \in DOMAIN attempts[v] : attempts'[v][i] = attempts[v][i]
             /\ attempts'[v][Rows(v) + 1] = new
  BY <1>4, CreatesRow
<1>6. PICK e \in Analysis :
          /\ ex' = [ex EXCEPT ![t] = e]
          /\ e.pc = "publish" /\ e.version = v
          /\ e.tries = ex[t].tries /\ e.fixed = ex[t].fixed /\ e.since = ex[t].since
  <2> DEFINE r == [ex[t] EXCEPT !.pc = "publish"]
  <2>1. ex' = [ex EXCEPT ![t] = r]
    BY <1>3 DEF Create
  <2>2. /\ r \in Analysis /\ r.pc = "publish" /\ r.version = ex[t].version
        /\ r.tries = ex[t].tries /\ r.fixed = ex[t].fixed /\ r.since = ex[t].since
    BY <1>3 DEF Analysis, Place, Recorded
  <2>. QED
    BY <1>4, <2>1, <2>2
<1>7. TypeOK'
  BY <1>2, <1>3, <1>5, <1>6, TypeFrom, TypeOf DEF TypeOK
<1>8. Rows(v) \in Nat /\ DOMAIN attempts[v] = 1 .. Rows(v)
  BY <1>3, RowsOf
<1>9. NumbersFollow'
  <2>. SUFFICES ASSUME NEW w \in Version, NEW i \in DOMAIN attempts'[w]
                PROVE  attempts'[w][i].num = i
    BY DEF NumbersFollow
  <2>1. CASE w # v
    BY <1>5, <2>1 DEF Inv, NumbersFollow
  <2>2. CASE w = v
    BY <1>5, <2>2 DEF Inv, NumbersFollow
  <2>. QED
    BY <2>1, <2>2
<1>10. SoundInv'
  <2>1. Grows
    <3>1. ASSUME NEW w \in Version PROVE Rows(w)' \in Nat /\ Rows(w)' >= Rows(w)
      <4>1. CASE w = v
        BY <1>5, <1>8, <4>1
      <4>2. CASE w # v
        BY <1>3, <1>5, <4>2, RowsOf DEF Rows
      <4>. QED
        BY <4>1, <4>2
    <3>. QED
      BY <1>2, <3>1 DEF Grows
  <2>2. Sound(t, e)'
    <3>1. e.tries \in Nat /\ e.fixed \in Nat /\ e.since \in Nat
      BY <1>1, <1>6, Recorder
    <3>2. e.tries > 0 /\ e.fixed = 0 => Rows(v)' >= e.since + e.tries
      <4>1. e.tries > 0 /\ e.fixed = 0 => Rows(v) >= e.since + e.tries
        BY <1>1, <1>4, <1>6, Recorder DEF Sound
      <4>2. Rows(v)' = Rows(v) + 1 /\ e.since + e.tries \in Nat
        BY <1>5, <3>1
      <4>. QED
        BY <1>8, <4>1, <4>2
    <3>3. t \in set.tasks /\ version \in Version
      BY <1>1, Recorder DEF Sound
    <3>. QED
      BY <1>2, <1>6, <3>2, <3>3 DEF Sound, Recording, Recorded
  <2>. QED
    BY <1>3, <1>6, <2>1, <2>2, SoundFrom DEF Inv
<1>11. Due' \subseteq Due /\ Active' \subseteq Active
  <2>1. t \in Active
    BY <1>1 DEF Active
  <2>. QED
    BY <1>3, <1>6, <2>1, SetsOf DEF Reading
<1>12. ClockInv' /\ ExclusiveInv'
  BY <1>2, <1>3, <1>11, ClockKept, ExclusiveKept DEF Inv
\* The row takes the place of the analysis that was to add it.
<1>13. HoldsInv'
  <2>. SUFFICES ASSUME NEW w \in Version
                PROVE  (Cardinality(HoldRows(w)) + Cardinality(Holding(w)) <= Allowed)'
    BY DEF HoldsInv
  <2>1. /\ Allowed' = Allowed /\ Allowed \in Nat
        /\ IsFiniteSet(Holding(w)) /\ Cardinality(Holding(w)) \in Nat
        /\ IsFiniteSet(HoldRows(w)) /\ Cardinality(HoldRows(w)) \in Nat
    BY <1>2, <1>3, Counted DEF Allowed
  <2>2. Cardinality(HoldRows(w)) + Cardinality(Holding(w)) <= Allowed
    BY DEF Inv, HoldsInv
  <2>3. Holding(w)' = Holding(w) \ {t}
    <3>1. ~MayHold(e)
      BY <1>6 DEF MayHold, Recording
    <3>. QED
      BY <1>3, <1>6, <3>1, SetsOf
  <2>4. /\ Cardinality(Holding(w) \ {t}) \in Nat
        /\ Cardinality(Holding(w) \ {t}) <= Cardinality(Holding(w))
        /\ t \in Holding(w) => Cardinality(Holding(w) \ {t}) = Cardinality(Holding(w)) - 1
    BY <2>1, FS_RemoveElement, FS_Subset, FS_CardinalityType
  <2>5. CASE w # v
    <3>1. HoldRows(w)' = HoldRows(w)
      BY <1>5, <2>5 DEF HoldRows, AcceptedRows
    <3>. QED
      BY <2>1, <2>2, <2>3, <2>4, <3>1
  <2>6. CASE w = v /\ ~(new.accepted /\ new.decision = "hold")
    <3>1. HoldRows(w)' = HoldRows(w)
      BY <1>5, <1>8, <2>6 DEF HoldRows, AcceptedRows
    <3>. QED
      BY <2>1, <2>2, <2>3, <2>4, <3>1
  <2>7. CASE w = v /\ new.accepted /\ new.decision = "hold"
    <3>1. HoldRows(w)' = HoldRows(w) \cup {Rows(v) + 1}
      BY <1>5, <1>8, <2>7 DEF HoldRows, AcceptedRows
    <3>2. Rows(v) + 1 \notin HoldRows(w)
      BY <1>8, <2>7 DEF HoldRows, AcceptedRows
    <3>3. Cardinality(HoldRows(w) \cup {Rows(v) + 1}) = Cardinality(HoldRows(w)) + 1
      BY <2>1, <3>2, FS_AddElement
    <3>4. t \in Holding(w)
      BY <1>1, <1>4, <1>5, <2>7 DEF Holding, MayHold
    <3>. QED
      BY <2>1, <2>2, <2>3, <2>4, <3>1, <3>3, <3>4
  <2>. QED
    BY <2>5, <2>6, <2>7
<1>. QED
  BY <1>7, <1>9, <1>10, <1>12, <1>13 DEF Inv

(* The analysis ends, with its row or without.                             *)
LEMMA StopInv ==
    ASSUME Inv, NEW t \in Task, Stop(t), ex[t].pc # "idle",
           UNCHANGED <<set, version, attempts, clock>>, main' \in BOOLEAN
    PROVE  Inv'
<1>1. Idle \in Analysis /\ Idle.pc = "idle" /\ Idle.tries = 0 /\ Idle.fixed = 0
  BY Underway, SettingOf DEF Idle, Analysis, Place, Row, RowType, Decision, Failure
<1>2. Becomes(t, Idle)
  BY DEF Stop, Becomes
<1>3. Sound(t, Idle)
  BY <1>1 DEF Sound, Recording
<1>4. PICK e \in Analysis : e = Idle
  BY <1>1
<1>5. ~MayHold(e) /\ e.pc \notin Reading
  BY <1>1, <1>4 DEF MayHold, Recording, Reading
<1>. QED
  BY <1>1, <1>2, <1>3, <1>4, <1>5, Moves

LEMMA EndInv ==
    ASSUME Inv, NEW t \in Task, Publish(t) \/ Abandon(t)
    PROVE  Inv'
<1>1. ex[t].pc # "idle" /\ main \in BOOLEAN
  BY DEF Publish, Abandon, At, Inv, TypeOK
<1>. QED
  BY <1>1, StopInv DEF Publish, Abandon

-----------------------------------------------------------------------------
LEMMA NextInv == Inv /\ [Next]_vars => Inv'
<1>. SUFFICES ASSUME Inv, [Next]_vars PROVE Inv'
  OBVIOUS
<1>1. ASSUME NEW t \in Task, NEW outcome \in Outcomes, Infer(t, outcome) PROVE Inv'
  BY <1>1, InferInv
<1>2. ASSUME NEW t \in Task,
             \/ Begin(t) \/ ReadMain(t) \/ Reuse(t)
             \/ NotMaterial(t) \/ ContextTooLarge(t) \/ PublishCritical(t) \/ ToInfer(t)
      PROVE  Inv'
  BY <1>2, BeginInv, ReadMainInv, ReuseInv, WithoutInferenceInv, ToInferInv
<1>3. ASSUME NEW t \in Task, ReadHolds(t) \/ ReadNumber(t)
      PROVE  Inv'
  BY <1>3, ReadHoldsInv, ReadNumberInv
<1>4. ASSUME NEW t \in Task,
             Count(t) \/ Create(t) \/ Conflict(t) \/ Publish(t) \/ Abandon(t)
      PROVE  Inv'
  BY <1>4, CountInv, CreateInv, ConflictInv, EndInv
<1>5. CASE UNCHANGED vars
  BY <1>5 DEF vars, Inv, TypeOK, Outcomes, NumbersFollow, SoundInv, Sound, Rows, ClockInv, Due,
              ExclusiveInv, Active, HoldsInv, HoldRows, AcceptedRows, Holding, MayHold, Allowed
<1>. QED
  BY <1>1, <1>2, <1>3, <1>4, <1>5 DEF Next

(* The attempts of a content follow each other without a gap, although     *)
(* their numbers are counted before an inference and recorded after it     *)
(* (analysis-service.ts, analyze), and a content is put off once, and once *)
(* more by each analysis that may overlap.                                 *)
THEOREM AttemptsInvHolds == Spec => []AttemptsInv
<1>1. Inv => AttemptsInv
  <2>. SUFFICES ASSUME Inv PROVE AttemptsInv
    OBVIOUS
  <2>1. HoldsBounded
    <3>. SUFFICES ASSUME NEW v \in Version
                  PROVE  Cardinality(HoldRows(v)) <= Allowed
      BY DEF HoldsBounded, HoldRows, Allowed
    <3>. QED
      BY Counted DEF Inv, HoldsInv, Allowed
  <2>. QED
    BY <2>1 DEF Inv, AttemptsInv
<1>. QED
  BY <1>1, InitInv, NextInv, PTL DEF Spec

(* An analysis that gives up numbering its row was overtaken at every try  *)
(* (recordAttemptWithConflictRetry of analysis-service.ts), whatever the   *)
(* number of tries and of the others.                                      *)
THEOREM LostOnlyToOthersHolds == Spec => []LostOnlyToOthers
<1>1. Inv => LostOnlyToOthers
  BY DEF Inv, SoundInv, Sound, LostOnlyToOthers, CountAttempts, Rows
<1>. QED
  BY <1>1, InitInv, NextInv, PTL DEF Spec
=============================================================================
