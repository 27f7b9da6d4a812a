----------------------------- MODULE Memory_proofs -----------------------------
(***************************************************************************)
(* Proofs about the memory files and those who write them, for every set   *)
(* of files, overlapping roots, runs and texts.                            *)
(***************************************************************************)
EXTENDS Memory, FiniteSetTheorems, FunctionTheorems, SequenceTheorems, WellFoundedInduction, TLAPS

Histories == [hits : Nat, before : Nat, drops : Nat, ages : Nat,
              update : BOOLEAN, over : BOOLEAN]
Events == [kind : {"retrieved"}, paths : SUBSET Targets, root : Roots]
          \cup [kind : {"blamed"}, agent : {"reflect", "curate", "none"}]
Drafts == [run : Runs, target : Targets, action : {"add", "update"}, text : Texts]
Tasks == [draft : Drafts, verdict : {"approved", "rejected"},
          at : {"fetching", "gating", "judging", "passed", "waived", "failed"},
          since : SUBSET Targets]

StoreOK ==
    /\ store \in [Targets -> Entries \cup {Nothing}]
    /\ ledger \in [Targets -> Histories]
    /\ known \subseteq Roots
    /\ events \in Seq(Events)

-----------------------------------------------------------------------------
(* The sweep *)

LEMMA LeastNumber ==
  ASSUME NEW T \in SUBSET Nat, T # {}
  PROVE  \E x \in T : \A y \in T : x <= y
<1>1. PICK x \in T : \A y \in T : ~(<<y, x>> \in OpToRel(<, Nat))
  BY NatLessThanWellFounded, WFMin
<1>2. \A y \in T : ~(y < x)
  BY <1>1 DEF OpToRel
<1> QED
  BY <1>2

\* A pass over one root.
Pass(r, files) == [t \in Targets |-> IF t \in Under[r] THEN Demoted(files[t]) ELSE files[t]]
Pick(S) == CHOOSE x \in S : TRUE
Pile(f, S) == IF S = {} THEN store ELSE Pass(Pick(S), f[S \ {Pick(S)}])

\* The passes made so far, for each part of the roots: there is such a function.
LEMMA PassesExist ==
  ASSUME NEW roots, IsFiniteSet(roots)
  PROVE  \E f : f = [S \in SUBSET roots |-> Pile(f, S)]
<1> DEFINE Small(n) == {S \in SUBSET roots : Cardinality(S) <= n}
           Holds(n) == \E f : f = [S \in Small(n) |-> Pile(f, S)]
           Fails == {n \in Nat : ~Holds(n)}
<1>1. \A S \in SUBSET roots : IsFiniteSet(S) /\ Cardinality(S) \in Nat /\ Cardinality(S) <= Cardinality(roots)
  BY FS_Subset, FS_CardinalityType
<1>2. \A S \in SUBSET roots : S # {} => /\ Pick(S) \in S /\ S \ {Pick(S)} \in SUBSET roots
                                        /\ Cardinality(S \ {Pick(S)}) = Cardinality(S) - 1
  <2> SUFFICES ASSUME NEW S \in SUBSET roots, S # {}
               PROVE  /\ Pick(S) \in S /\ S \ {Pick(S)} \in SUBSET roots
                      /\ Cardinality(S \ {Pick(S)}) = Cardinality(S) - 1
    OBVIOUS
  <2>1. Pick(S) \in S
    BY DEF Pick
  <2> QED
    BY <1>1, <2>1, FS_RemoveElement
<1>3. Holds(0)
  <2> DEFINE f == [S \in Small(0) |-> store]
  <2>1. \A S \in Small(0) : S = {}
    BY <1>1, FS_EmptySet
  <2>2. f = [S \in Small(0) |-> Pile(f, S)]
    BY <2>1 DEF Pile
  <2> QED
    BY <2>2
<1>4. ASSUME NEW n \in Nat, Holds(n) PROVE Holds(n + 1)
  <2>1. PICK f : f = [S \in Small(n) |-> Pile(f, S)]
    BY <1>4
  <2> DEFINE g == [S \in Small(n + 1) |-> Pile(f, S)]
  <2>2. ASSUME NEW S \in Small(n + 1), S # {} PROVE f[S \ {Pick(S)}] = g[S \ {Pick(S)}]
    <3> DEFINE R == S \ {Pick(S)}
    <3>1. R \in Small(n) /\ R \in Small(n + 1)
      BY <1>1, <1>2, <2>2
    <3>2. f[R] = Pile(f, R) /\ g[R] = Pile(f, R)
      BY <2>1, <3>1
    <3> QED
      BY <3>2
  <2>3. \A S \in Small(n + 1) : Pile(f, S) = Pile(g, S)
    BY <2>2 DEF Pile
  <2>4. g = [S \in Small(n + 1) |-> Pile(g, S)]
    BY <2>3
  <2> QED
    BY <2>4
<1>5. Fails = {}
  <2> SUFFICES ASSUME Fails # {} PROVE FALSE
    OBVIOUS
  <2> HIDE DEF Holds
  <2>1. PICK n \in Fails : \A m \in Fails : n <= m
    BY LeastNumber
  <2>2. n # 0
    BY <1>3, <2>1
  <2>3. n - 1 \in Nat /\ n - 1 \notin Fails /\ (n - 1) + 1 = n
    BY <2>1, <2>2
  <2> QED
    BY <1>4, <2>1, <2>3
<1>6. Holds(Cardinality(roots))
  BY <1>1, <1>5
<1>7. Small(Cardinality(roots)) = SUBSET roots
  BY <1>1
<1> QED
  BY <1>6, <1>7

\* A demotion makes today's date, so that a second one has no effect.
LEMMA DemotedTwice ==
  ASSUME NEW e \in Entries \cup {Nothing}
  PROVE  Demoted(Demoted(e)) = Demoted(e)
<1>1. CASE e = Nothing
  BY <1>1 DEF Demoted, Stale
<1>2. CASE e \in Entries /\ ~(Stale(e) /\ e.level < Floor)
  BY <1>2 DEF Demoted
<1>3. CASE e \in Entries /\ Stale(e) /\ e.level < Floor
  <2>1. Demoted(e) = [e EXCEPT !.level = @ + 1, !.stale = FALSE]
    BY <1>3 DEF Demoted
  <2>2. Demoted(e).stale = FALSE
    BY <1>3, <2>1 DEF Entries
  <2>3. ~Stale(Demoted(e))
    BY <2>2 DEF Stale
  <2> QED
    BY <2>3 DEF Demoted
<1> QED
  BY <1>1, <1>2, <1>3

\* A file is swept as if it were visited once, or not at all, however the roots overlap.
LEMMA SweptOnce ==
  ASSUME NEW roots, IsFiniteSet(roots), store \in [Targets -> Entries \cup {Nothing}]
  PROVE  /\ Swept(roots) = [t \in Targets |-> Swept(roots)[t]]
         /\ \A t \in Targets : Swept(roots)[t] \in {store[t], Demoted(store[t])}
<1> DEFINE f == CHOOSE f : f = [S \in SUBSET roots |-> Pile(f, S)]
<1>1. f = [S \in SUBSET roots |-> Pile(f, S)]
  BY PassesExist
<1>2. Swept(roots) = f[roots]
  BY DEF Swept, FoldSet, MapThenFoldSet, Pile, Pass, Pick
<1> HIDE DEF f
<1> DEFINE Good(S) == /\ f[S] = [t \in Targets |-> f[S][t]]
                      /\ \A t \in Targets : f[S][t] \in {store[t], Demoted(store[t])}
           Bad == {n \in Nat : \E S \in SUBSET roots : Cardinality(S) = n /\ ~Good(S)}
<1>3. ASSUME NEW S \in SUBSET roots, S # {}, Good(S \ {Pick(S)}) PROVE Good(S)
  <2>1. f[S] = Pass(Pick(S), f[S \ {Pick(S)}])
    BY <1>1, <1>3 DEF Pile
  <2> DEFINE R == S \ {Pick(S)}
  <2>2. f[S] = [t \in Targets |-> f[S][t]]
    BY <2>1 DEF Pass
  <2>3. ASSUME NEW t \in Targets PROVE f[S][t] \in {store[t], Demoted(store[t])}
    <3>1. f[R][t] \in {store[t], Demoted(store[t])}
      BY <1>3
    <3>2. f[S][t] = f[R][t] \/ f[S][t] = Demoted(f[R][t])
      BY <2>1 DEF Pass
    <3>3. Demoted(Demoted(store[t])) = Demoted(store[t])
      BY DemotedTwice
    <3> QED
      BY <3>1, <3>2, <3>3
  <2> QED
    BY <2>2, <2>3
<1>4. Good({})
  <2>1. f[{}] = store
    BY <1>1 DEF Pile
  <2> QED
    BY <2>1
<1>5. \A S \in SUBSET roots : IsFiniteSet(S) /\ Cardinality(S) \in Nat
  BY FS_Subset, FS_CardinalityType
<1> HIDE DEF Good
<1>6. Bad = {}
  <2> SUFFICES ASSUME Bad # {} PROVE FALSE
    OBVIOUS
  <2>1. PICK n \in Bad : \A m \in Bad : n <= m
    BY LeastNumber
  <2>2. PICK S \in SUBSET roots : Cardinality(S) = n /\ ~Good(S)
    BY <2>1
  <2>3. S # {} /\ Pick(S) \in S
    BY <1>4, <2>2 DEF Pick
  <2>4. ~Good(S \ {Pick(S)}) /\ S \ {Pick(S)} \in SUBSET roots
    BY <1>3, <2>2, <2>3
  <2>5. Cardinality(S \ {Pick(S)}) = n - 1
    BY <1>5, <2>2, <2>3, FS_RemoveElement
  <2>6. n - 1 \in Bad
    BY <1>5, <2>4, <2>5
  <2> QED
    BY <2>1, <2>6
<1>7. Good(roots)
  BY <1>5, <1>6
<1> QED
  BY <1>2, <1>7 DEF Good

-----------------------------------------------------------------------------
(* What holds of each file, and what an operation on the files does to it *)

\* The counter of an update is no further than the retrievals counted since, and
\* trusts nothing they do not.
Earning(t) ==
    Exists(t) /\ ledger[t].update =>
        /\ store[t].text.fm
        /\ store[t].applied <= ledger[t].hits \/ ledger[t].hits >= Threshold
        /\ ~store[t].probation => ledger[t].hits >= Threshold

\* A stale file has a window to be demoted for.
Aging(t) ==
    Exists(t) =>
        /\ store[t].mandatory => ledger[t].drops = 0
        /\ ledger[t].drops + (IF store[t].stale THEN 1 ELSE 0) <= ledger[t].ages

FilesOK == StoreOK /\ \A t \in Targets : Earning(t) /\ Aging(t)

\* What the readers, the ranker and time leave alone.
TextsKept ==
    \A t \in Targets : Exists(t)' => Exists(t) /\ store'[t].text = store[t].text

LEMMA StoreFacts ==
  ASSUME StoreOK, NEW t \in Targets
  PROVE  /\ ledger[t].hits \in Nat /\ ledger[t].drops \in Nat /\ ledger[t].ages \in Nat
         /\ ledger[t] \in Histories
         /\ Exists(t) => store[t] \in Entries
BY DEF StoreOK, Histories, Exists

LEMMA AnnounceKeeps ==
  ASSUME FilesOK, NEW paths \in SUBSET Targets, NEW root \in Roots, Announce(paths, root)
  PROVE  FilesOK' /\ TextsKept
<1>1. events \in Seq(Events)
  BY DEF FilesOK, StoreOK
<1>2. [kind |-> "retrieved", paths |-> paths, root |-> root] \in Events
  BY DEF Events
<1>3. events' \in Seq(Events)
  BY <1>1, <1>2, AppendProperties DEF Announce
<1> QED
  BY <1>3 DEF FilesOK, StoreOK, Announce, Earning, Aging, TextsKept, Exists

LEMMA BumpKeeps ==
  ASSUME NEW e \in Entries
  PROVE  LET b == Bumped(e)
         IN  b \in Entries /\ b.text = e.text /\ b.mandatory = e.mandatory /\ b.stale = e.stale
<1>1. Threshold \in Nat /\ e.applied \in Nat /\ e.probation \in BOOLEAN /\ e # Nothing
  BY StoreAssumption DEF Entries
<1>2. CASE ~e.text.fm
  BY <1>2 DEF Bumped
<1>3. CASE e.text.fm
  <2>1. Bumped(e) = [e EXCEPT !.applied = IF @ < Threshold THEN @ + 1 ELSE @,
                              !.probation = @ /\ e.applied + 1 < Threshold]
    BY <1>1, <1>3 DEF Bumped
  <2> DEFINE n == IF e.applied < Threshold THEN e.applied + 1 ELSE e.applied
             p == e.probation /\ e.applied + 1 < Threshold
  <2>2. n \in Nat
    BY <1>1
  <2>3. p \in BOOLEAN
    OBVIOUS
  <2>4. Bumped(e) = [e EXCEPT !.applied = n, !.probation = p]
    BY <2>1 DEF Entries
  <2> HIDE DEF n, p
  <2> QED
    BY <2>2, <2>3, <2>4 DEF Entries
<1> QED
  BY <1>2, <1>3

\* One retrieval is counted by the file and by its history alike.
LEMMA BumpKeepsEarning ==
  ASSUME NEW e \in Entries, NEW h \in Nat,
         e.text.fm, e.applied <= h \/ h >= Threshold, ~e.probation => h >= Threshold
  PROVE  LET b == Bumped(e)
             g == h + 1
         IN  /\ b \in Entries /\ b.text = e.text /\ b.mandatory = e.mandatory /\ b.stale = e.stale
             /\ b.applied <= g \/ g >= Threshold
             /\ ~b.probation => g >= Threshold
<1>1. Threshold \in Nat /\ e.applied \in Nat /\ e.probation \in BOOLEAN /\ e # Nothing
  BY StoreAssumption DEF Entries
<1>2. Bumped(e) = [e EXCEPT !.applied = IF @ < Threshold THEN @ + 1 ELSE @,
                            !.probation = @ /\ e.applied + 1 < Threshold]
  BY <1>1 DEF Bumped
<1>3. /\ Bumped(e).applied = IF e.applied < Threshold THEN e.applied + 1 ELSE e.applied
      /\ Bumped(e).probation = (e.probation /\ e.applied + 1 < Threshold)
      /\ Bumped(e).text = e.text /\ Bumped(e).mandatory = e.mandatory /\ Bumped(e).stale = e.stale
  BY <1>2 DEF Entries
<1> QED
  BY <1>1, <1>3, BumpKeeps

LEMMA CreditKeeps == FilesOK /\ Credit => FilesOK' /\ TextsKept
<1> SUFFICES ASSUME FilesOK, Credit PROVE FilesOK' /\ TextsKept
  OBVIOUS
<1> DEFINE of == Head(events)
<1>1. events \in Seq(Events) /\ events # <<>> /\ of.kind = "retrieved"
  BY DEF Credit, FilesOK, StoreOK
<1>2. of \in Events /\ Tail(events) \in Seq(Events)
  BY <1>1, HeadTailProperties
<1>3. of.root \in Roots
  BY <1>1, <1>2 DEF Events
<1>4. /\ events' = Tail(events) /\ known' = known \cup {of.root}
      /\ store' = [t \in Targets |-> IF t \in of.paths THEN Bumped(store[t]) ELSE store[t]]
      /\ ledger' = [t \in Targets |->
            IF t \in of.paths THEN [ledger[t] EXCEPT !.hits = @ + 1] ELSE ledger[t]]
  BY DEF Credit
<1> HIDE DEF of
<1>5. ASSUME NEW t \in Targets
      PROVE  /\ store'[t] \in Entries \cup {Nothing} /\ ledger'[t] \in Histories
             /\ Exists(t)' => Exists(t) /\ store'[t].text = store[t].text
             /\ Earning(t)' /\ Aging(t)'
  <2>1. /\ ledger[t].hits \in Nat /\ ledger[t].drops \in Nat /\ ledger[t].ages \in Nat
        /\ ledger[t] \in Histories
        /\ Exists(t) => store[t] \in Entries
        /\ store[t] \in Entries \cup {Nothing}
    BY StoreFacts DEF FilesOK, StoreOK
  <2>2. Earning(t) /\ Aging(t)
    BY DEF FilesOK
  <2>3. CASE t \notin of.paths
    <3>1. store'[t] = store[t] /\ ledger'[t] = ledger[t]
      BY <1>4, <2>3
    <3> QED
      BY <2>1, <2>2, <3>1 DEF Earning, Aging, Exists
  <2>4. CASE t \in of.paths
    <3>1. /\ store'[t] = Bumped(store[t])
          /\ ledger'[t] = [ledger[t] EXCEPT !.hits = @ + 1]
      BY <1>4, <2>4
    <3>2. /\ ledger'[t].hits = ledger[t].hits + 1
          /\ ledger'[t].drops = ledger[t].drops /\ ledger'[t].ages = ledger[t].ages
          /\ ledger'[t].update = ledger[t].update
      BY <2>1, <3>1 DEF Histories
    <3>3. ledger'[t] \in Histories
      BY <2>1, <3>1, StoreAssumption DEF Histories
    <3>4. CASE ~Exists(t)
      <4>1. store'[t] = Nothing
        BY <3>1, <3>4 DEF Bumped, Exists
      <4> QED
        BY <3>3, <4>1 DEF Earning, Aging, Exists
    <3>5. CASE Exists(t)
      <4> DEFINE e == store[t]  b == Bumped(e)
      <4>1. e \in Entries
        BY <2>1, <3>5
      <4>2. b \in Entries /\ b.text = e.text /\ b.mandatory = e.mandatory /\ b.stale = e.stale
        BY <4>1, BumpKeeps
      <4>3. Aging(t)'
        <5>1. /\ e.mandatory => ledger[t].drops = 0
              /\ ledger[t].drops + (IF e.stale THEN 1 ELSE 0) <= ledger[t].ages
          BY <2>2, <3>5 DEF Aging
        <5> QED
          BY <3>1, <3>2, <4>2, <5>1 DEF Aging
      <4>4. Earning(t)'
        <5>1. CASE ~ledger[t].update
          BY <3>2, <5>1 DEF Earning
        <5>2. CASE ledger[t].update
          <6>1. /\ e.text.fm
                /\ e.applied <= ledger[t].hits \/ ledger[t].hits >= Threshold
                /\ ~e.probation => ledger[t].hits >= Threshold
            BY <2>2, <3>5, <5>2 DEF Earning
          <6>2. /\ b.applied <= ledger'[t].hits \/ ledger'[t].hits >= Threshold
                /\ ~b.probation => ledger'[t].hits >= Threshold
            BY <2>1, <3>2, <4>1, <6>1, BumpKeepsEarning
          <6> QED
            BY <3>1, <4>2, <6>1, <6>2 DEF Earning
        <5> QED
          BY <5>1, <5>2
      <4> QED
        BY <3>1, <3>3, <3>5, <4>2, <4>3, <4>4 DEF Exists
    <3> QED
      BY <3>4, <3>5
  <2> QED
    BY <2>3, <2>4
<1>6. /\ store' \in [Targets -> Entries \cup {Nothing}] /\ ledger' \in [Targets -> Histories]
      /\ TextsKept /\ \A t \in Targets : Earning(t)' /\ Aging(t)'
  BY <1>4, <1>5 DEF TextsKept
<1> QED
  BY <1>2, <1>3, <1>4, <1>6 DEF FilesOK, StoreOK

LEMMA BlameKeeps == FilesOK /\ (Blame \/ ResetRanking) => FilesOK' /\ TextsKept
<1> SUFFICES ASSUME FilesOK, Blame \/ ResetRanking PROVE FilesOK' /\ TextsKept
  OBVIOUS
<1>1. events \in Seq(Events)
  BY DEF FilesOK, StoreOK
<1>2. events' \in Seq(Events)
  BY <1>1, HeadTailProperties DEF Blame, ResetRanking
<1> QED
  BY <1>2 DEF FilesOK, StoreOK, Blame, ResetRanking, Earning, Aging, TextsKept, Exists

LEMMA AgeKeeps == FilesOK /\ Age => FilesOK' /\ TextsKept
<1> SUFFICES ASSUME FilesOK, Age PROVE FilesOK' /\ TextsKept
  OBVIOUS
<1>1. /\ store' = [t \in Targets |-> IF Exists(t) /\ store[t].text.dated
                                     THEN [store[t] EXCEPT !.stale = TRUE] ELSE store[t]]
      /\ ledger' = [t \in Targets |-> [ledger[t] EXCEPT !.ages = @ + 1]]
      /\ UNCHANGED <<known, events>>
  BY DEF Age
<1>2. ASSUME NEW t \in Targets
      PROVE  /\ store'[t] \in Entries \cup {Nothing} /\ ledger'[t] \in Histories
             /\ Exists(t)' => Exists(t) /\ store'[t].text = store[t].text
             /\ Earning(t)' /\ Aging(t)'
  <2>1. /\ ledger[t].hits \in Nat /\ ledger[t].drops \in Nat /\ ledger[t].ages \in Nat
        /\ ledger[t] \in Histories
        /\ Exists(t) => store[t] \in Entries
        /\ store[t] \in Entries \cup {Nothing}
    BY StoreFacts DEF FilesOK, StoreOK
  <2>2. Earning(t) /\ Aging(t)
    BY DEF FilesOK
  <2>3. /\ ledger'[t] \in Histories
        /\ ledger'[t].hits = ledger[t].hits /\ ledger'[t].drops = ledger[t].drops
        /\ ledger'[t].ages = ledger[t].ages + 1 /\ ledger'[t].update = ledger[t].update
    BY <1>1, <2>1 DEF Histories
  <2>4. CASE ~Exists(t)
    <3>1. store'[t] = Nothing
      BY <1>1, <2>4 DEF Exists
    <3> QED
      BY <2>3, <3>1 DEF Earning, Aging, Exists
  <2>5. CASE Exists(t)
    <3>1. store'[t] = store[t] \/ store'[t] = [store[t] EXCEPT !.stale = TRUE]
      BY <1>1
    <3>2. /\ store'[t] \in Entries /\ store'[t].text = store[t].text
          /\ store'[t].mandatory = store[t].mandatory /\ store'[t].applied = store[t].applied
          /\ store'[t].probation = store[t].probation
      BY <2>1, <2>5, <3>1 DEF Entries
    <3>3. Earning(t)'
      BY <2>2, <2>3, <2>5, <3>2 DEF Earning
    <3>4. Aging(t)'
      <4>1. ledger[t].drops <= ledger[t].ages
        BY <2>1, <2>2, <2>5 DEF Aging
      <4>2. store'[t].mandatory => ledger'[t].drops = 0
        BY <2>2, <2>3, <2>5, <3>2 DEF Aging
      <4>3. ledger'[t].drops + (IF store'[t].stale THEN 1 ELSE 0) <= ledger'[t].ages
        BY <2>1, <2>3, <4>1
      <4> QED
        BY <4>2, <4>3 DEF Aging
    <3> QED
      BY <2>3, <2>5, <3>2, <3>3, <3>4
  <2> QED
    BY <2>4, <2>5
<1>3. /\ store' \in [Targets -> Entries \cup {Nothing}] /\ ledger' \in [Targets -> Histories]
      /\ TextsKept /\ \A t \in Targets : Earning(t)' /\ Aging(t)'
  BY <1>1, <1>2 DEF TextsKept
<1> QED
  BY <1>1, <1>3 DEF FilesOK, StoreOK

\* What a demotion does to an entry.
LEMMA DemotedShape ==
  ASSUME NEW e \in Entries
  PROVE  /\ Demoted(e) \in Entries /\ Demoted(e).text = e.text /\ Demoted(e).mandatory = e.mandatory
         /\ Demoted(e).applied = e.applied /\ Demoted(e).probation = e.probation
         /\ \/ Demoted(e) = e
            \/ /\ ~e.mandatory /\ e.stale /\ ~Demoted(e).stale
               /\ Demoted(e).level = e.level + 1
<1>1. CASE Demoted(e) = e
  BY <1>1
<1>2. CASE Demoted(e) # e
  <2>1. Stale(e) /\ e.level < Floor /\ Demoted(e) = [e EXCEPT !.level = @ + 1, !.stale = FALSE]
    BY <1>2 DEF Demoted
  <2>2. e.level + 1 \in 1..Floor
    BY <2>1 DEF Entries, Floor
  <2> QED
    BY <2>1, <2>2 DEF Entries, Stale
<1> QED
  BY <1>1, <1>2

LEMMA SweepKeeps ==
  ASSUME FilesOK, NEW extra \in SUBSET Roots, Sweep(extra)
  PROVE  FilesOK' /\ TextsKept
<1> DEFINE roots == known \cup extra
           level(files, t) == IF files[t] = Nothing THEN 0 ELSE files[t].level
<1>1. /\ known' = roots /\ store' = Swept(roots) /\ UNCHANGED events
      /\ ledger' = [t \in Targets |->
                       [ledger[t] EXCEPT !.drops = @ + level(store', t) - level(store, t)]]
  BY DEF Sweep
<1>2. known' \in SUBSET Roots /\ IsFiniteSet(roots)
  <2>1. roots \in SUBSET Roots
    BY DEF FilesOK, StoreOK
  <2> QED
    BY <1>1, <2>1, StoreAssumption, FS_Subset
<1>3. /\ store' = [t \in Targets |-> store'[t]]
      /\ \A t \in Targets : store'[t] \in {store[t], Demoted(store[t])}
  BY <1>1, <1>2, SweptOnce DEF FilesOK, StoreOK
<1>a. ledger' = [t \in Targets |->
                    [ledger[t] EXCEPT !.drops =
                        @ + (IF store'[t] = Nothing THEN 0 ELSE store'[t].level)
                          - (IF store[t] = Nothing THEN 0 ELSE store[t].level)]]
  BY <1>1
<1>4. ASSUME NEW t \in Targets
      PROVE  /\ store'[t] \in Entries \cup {Nothing} /\ ledger'[t] \in Histories
             /\ Exists(t)' => Exists(t) /\ store'[t].text = store[t].text
             /\ Earning(t)' /\ Aging(t)'
  <2>1. /\ ledger[t].hits \in Nat /\ ledger[t].drops \in Nat /\ ledger[t].ages \in Nat
        /\ ledger[t] \in Histories
        /\ Exists(t) => store[t] \in Entries
        /\ store[t] \in Entries \cup {Nothing}
    BY StoreFacts DEF FilesOK, StoreOK
  <2>2. Earning(t) /\ Aging(t)
    BY DEF FilesOK
  <2>3. CASE ~Exists(t)
    <3>1. store[t] = Nothing /\ store'[t] = Nothing
      BY <1>3, <2>3 DEF Demoted, Stale, Exists
    <3>2. ledger'[t] = [ledger[t] EXCEPT !.drops = @ + 0 - 0]
      BY <1>a, <3>1
    <3>3. ledger'[t] \in Histories
      BY <2>1, <3>2 DEF Histories
    <3> QED
      BY <3>1, <3>3 DEF Earning, Aging, Exists
  <2>4. CASE Exists(t)
    <3> DEFINE e == store[t]  d == store'[t]
    <3>1. e \in Entries /\ e # Nothing /\ e.level \in Nat
      BY <2>1, <2>4 DEF Exists, Entries
    <3>2. /\ d \in Entries /\ d.text = e.text /\ d.mandatory = e.mandatory
          /\ d.applied = e.applied /\ d.probation = e.probation
          /\ d = e \/ (~e.mandatory /\ e.stale /\ ~d.stale /\ d.level = e.level + 1)
      BY <1>3, <3>1, DemotedShape
    <3>3. d # Nothing /\ d.level \in Nat
      BY <3>2, StoreAssumption DEF Entries
    <3>4. ledger'[t] = [ledger[t] EXCEPT !.drops = @ + d.level - e.level]
      BY <1>a, <3>1, <3>3
    <3>5. ledger[t].drops + d.level - e.level \in Nat
      BY <2>1, <3>1, <3>2
    <3>6. /\ ledger'[t] \in Histories /\ ledger'[t].drops = ledger[t].drops + d.level - e.level
          /\ ledger'[t].hits = ledger[t].hits /\ ledger'[t].ages = ledger[t].ages
          /\ ledger'[t].update = ledger[t].update
      BY <2>1, <3>4, <3>5 DEF Histories
    <3>7. Earning(t)'
      BY <2>2, <2>4, <3>2, <3>6 DEF Earning
    <3>8. Aging(t)'
      <4>1. /\ e.mandatory => ledger[t].drops = 0
            /\ ledger[t].drops + (IF e.stale THEN 1 ELSE 0) <= ledger[t].ages
        BY <2>2, <2>4 DEF Aging
      <4>2. CASE d = e
        <5>1. ledger'[t].drops = ledger[t].drops
          BY <2>1, <3>1, <3>6, <4>2
        <5> QED
          BY <3>6, <4>1, <4>2, <5>1 DEF Aging
      <4>3. CASE ~e.mandatory /\ e.stale /\ ~d.stale /\ d.level = e.level + 1
        <5>1. ledger'[t].drops = ledger[t].drops + 1
          BY <2>1, <3>1, <3>6, <4>3
        <5>2. ledger'[t].drops + 0 <= ledger'[t].ages
          BY <2>1, <3>6, <4>1, <4>3, <5>1
        <5> QED
          BY <3>2, <4>3, <5>2 DEF Aging
      <4> QED
        BY <3>2, <4>2, <4>3
    <3> QED
      BY <2>4, <3>2, <3>6, <3>7, <3>8
  <2> QED
    BY <2>3, <2>4
<1>5. /\ store' \in [Targets -> Entries \cup {Nothing}] /\ ledger' \in [Targets -> Histories]
      /\ TextsKept /\ \A t \in Targets : Earning(t)' /\ Aging(t)'
  BY <1>3, <1>a, <1>4 DEF TextsKept
<1> QED
  BY <1>1, <1>2, <1>5 DEF FilesOK, StoreOK

\* The retrievals under way can be counted.
LEMMA UnderWayCounts ==
  ASSUME FilesOK, NEW t \in Targets
  PROVE  Cardinality(UnderWay(t)) \in Nat
<1>1. Len(events) \in Nat /\ DOMAIN events = 1..Len(events)
  BY DEF FilesOK, StoreOK
<1>2. IsFiniteSet(1..Len(events))
  BY <1>1, FS_Interval
<1>3. UnderWay(t) \subseteq 1..Len(events)
  BY <1>1 DEF UnderWay
<1> QED
  BY <1>2, <1>3, FS_Subset, FS_CardinalityType

\* A text that is written starts anew, on probation if it replaces one, and is stale at
\* once if its date is.
LEMMA WriteKeeps ==
  ASSUME FilesOK, NEW target \in Targets, NEW text \in Texts, NEW action,
         Write(target, text, action)
  PROVE  /\ FilesOK'
         /\ store'[target] # Nothing /\ store'[target].text = text
         /\ \A t \in Targets \ {target} : store'[t] = store[t]
<1> DEFINE u == (action = "update" /\ text.fm)
           o == (action = "add" /\ Exists(target))
           n == Cardinality(UnderWay(target))
<1>1. PICK past \in Dates(text) :
        /\ store' = [store EXCEPT ![target] = Stamped(text, past, action)]
        /\ ledger' = [ledger EXCEPT ![target] =
              [Blank EXCEPT !.before = n, !.ages = Windows(Stamped(text, past, action)),
                            !.update = u, !.over = o]]
  BY DEF Write
<1>2. UNCHANGED <<known, events>>
  BY DEF Write
<1>3. u \in BOOLEAN /\ o \in BOOLEAN /\ n \in Nat /\ past \in BOOLEAN
  BY UnderWayCounts DEF Dates
<1> DEFINE e == Stamped(text, past, action)
           w == Windows(e)
<1>4. /\ e \in Entries /\ e.text = text /\ e.applied = 0 /\ ~e.mandatory
      /\ u => e.probation /\ text.fm
  <2>1. Written(text, past) \in Entries
    BY <1>3 DEF Written, Entries, Observed, Floor
  <2>2. CASE action = "update" /\ text.fm
    <3>1. e = [Written(text, past) EXCEPT !.probation = TRUE]
      BY <2>2 DEF Stamped
    <3> QED
      BY <2>1, <2>2, <3>1 DEF Written, Entries
  <2>3. CASE ~(action = "update" /\ text.fm)
    <3>1. e = Written(text, past)
      BY <2>3 DEF Stamped
    <3> QED
      BY <2>1, <2>3, <3>1 DEF Written
  <2> QED
    BY <2>2, <2>3
<1>5. w \in Nat /\ w = IF e.stale THEN 1 ELSE 0
  BY <1>4, StoreAssumption DEF Windows
<1>6. store' = [store EXCEPT ![target] = e]
  BY <1>1
<1>7. ledger' = [ledger EXCEPT ![target] =
                    [Blank EXCEPT !.before = n, !.ages = w, !.update = u, !.over = o]]
  BY <1>1
<1> HIDE DEF e, w, u, o, n
<1> DEFINE h == [Blank EXCEPT !.before = n, !.ages = w, !.update = u, !.over = o]
<1>8. /\ h \in Histories /\ h.hits = 0 /\ h.drops = 0 /\ h.ages = w /\ h.update = u
  <2>1. Blank \in Histories /\ Blank.hits = 0 /\ Blank.drops = 0
    BY DEF Blank, Histories
  <2> QED
    BY <1>3, <1>5, <2>1 DEF Histories
<1> HIDE DEF h
<1>9. store \in [Targets -> Entries \cup {Nothing}] /\ ledger \in [Targets -> Histories]
  BY DEF FilesOK, StoreOK
<1>10. /\ store' \in [Targets -> Entries \cup {Nothing}] /\ ledger' \in [Targets -> Histories]
       /\ store'[target] = e
       /\ ledger'[target] = h
       /\ \A t \in Targets \ {target} : store'[t] = store[t] /\ ledger'[t] = ledger[t]
  BY <1>4, <1>6, <1>7, <1>8, <1>9 DEF h
<1>11. Earning(target)' /\ Aging(target)'
  <2>1. Threshold \in Nat
    BY StoreAssumption
  <2>2. /\ ledger'[target].hits = 0 /\ ledger'[target].drops = 0
        /\ ledger'[target].ages = w /\ ledger'[target].update = u
    BY <1>8, <1>10
  <2>3. Earning(target)'
    BY <1>4, <1>10, <2>1, <2>2 DEF Earning
  <2>4. Aging(target)'
    BY <1>4, <1>5, <1>10, <2>2 DEF Aging
  <2> QED
    BY <2>3, <2>4
<1>12. ASSUME NEW t \in Targets \ {target} PROVE Earning(t)' /\ Aging(t)'
  BY <1>10 DEF FilesOK, Earning, Aging, Exists
<1>13. FilesOK'
  BY <1>2, <1>10, <1>11, <1>12 DEF FilesOK, StoreOK
<1>14. store'[target] # Nothing /\ store'[target].text = text
  BY <1>4, <1>10, StoreAssumption
<1> QED
  BY <1>10, <1>13, <1>14

-----------------------------------------------------------------------------
(* The runs *)

Stages == {"idle", "indexing", "exploring", "ranking", "enqueuing", "over"}

\* What a run has found are edits until it has ranked them, then drafts.
RunsOK ==
    /\ script \in Scripts
    /\ pc \in [Runs -> Stages]
    /\ found \in [Runs -> SUBSET (Edits \cup Drafts)]
    /\ \A r \in Runs : pc[r] = "ranking" => found[r] \subseteq Call(r).edits
    /\ \A r \in Runs : pc[r] = "enqueuing" => found[r] \subseteq Drafts
    /\ drafts \subseteq Drafts /\ asked \subseteq Drafts

LEMMA CallFacts ==
  ASSUME RunsOK, NEW r \in Runs
  PROVE  /\ Call(r).kind \in {"reflect", "curate", "none"}
         /\ Session(r) \in Sessions \cup {NoSession}
         /\ Call(r).edits \subseteq Edits /\ IsFiniteSet(Call(r).edits)
BY MemoryAssumption DEF RunsOK, Call, Session

LEMMA FinalType ==
  ASSUME RunsOK, NEW r \in Runs, NEW text \in Texts
  PROVE  Final(r, text) \in Texts
<1>1. Session(r) \in Sessions \cup {NoSession}
  BY CallFacts
<1>2. Cited(text, Session(r)) \in Texts
  BY <1>1 DEF Cited, Texts
<1>3. WithDefaults(text, Session(r)) \in Texts
  BY <1>2 DEF WithDefaults, Texts
<1> QED
  BY <1>2, <1>3 DEF Final

\* Staging keeps the types, keeps what there is, and repeats no text of reflection.
LEMMA StageKeeps ==
  ASSUME RunsOK, NEW r \in Runs, NEW edits \in SUBSET Call(r).edits,
         StageAll(r, edits), UNCHANGED <<script, asked>>
  PROVE  /\ RunsOK' /\ drafts \subseteq drafts'
         /\ NoRepeats => NoRepeats'
<1>1. PICK new \in Unseen(r, edits) :
        /\ found' = [found EXCEPT ![r] = {DraftOf(r, e) : e \in new}]
        /\ drafts' = drafts \cup {DraftOf(r, e) : e \in new}
        /\ Goes(r, IF new = {} THEN "over" ELSE "enqueuing")
  BY DEF StageAll
<1>2. new \subseteq Edits /\ IsFiniteSet(new)
  BY <1>1, CallFacts, FS_Subset DEF Unseen
<1>3. \A e \in new : DraftOf(r, e) \in Drafts /\ DraftOf(r, e).run = r /\ DraftOf(r, e).text = Final(r, e.text)
  BY <1>2, FinalType DEF DraftOf, Drafts, Edits
<1>4. RunsOK'
  <2>1. pc' \in [Runs -> Stages] /\ pc'[r] # "ranking" /\ (\A q \in Runs \ {r} : pc'[q] = pc[q])
    BY <1>1 DEF Goes, RunsOK, Stages
  <2>2. /\ found' \in [Runs -> SUBSET (Edits \cup Drafts)]
        /\ found'[r] \subseteq Drafts /\ (\A q \in Runs \ {r} : found'[q] = found[q])
    BY <1>1, <1>3 DEF RunsOK
  <2>3. drafts' \subseteq Drafts
    BY <1>1, <1>3 DEF RunsOK
  <2> QED
    BY <2>1, <2>2, <2>3 DEF RunsOK, Call
<1>5. ASSUME NoRepeats PROVE NoRepeats'
  <2>1. CASE Call(r).kind = "curate"
    <3> SUFFICES ASSUME NEW d \in drafts', NEW e \in drafts', d # e, d.text = e.text
                 PROVE  "curate" \in {Call(d.run).kind, Call(e.run).kind}
      BY DEF NoRepeats, Call
    <3>1. CASE d \in drafts /\ e \in drafts
      BY <1>5, <3>1 DEF NoRepeats
    <3>2. CASE d \notin drafts \/ e \notin drafts
      BY <1>1, <1>3, <2>1, <3>2
    <3> QED
      BY <3>1, <3>2
  <2>2. CASE Call(r).kind # "curate"
    <3> DEFINE keys == {Key(r, e.text) : e \in new}
               key == [e \in new |-> Key(r, e.text)]
    <3>1. /\ \A e \in new : Key(r, e.text) = DraftOf(r, e).text
          /\ keys \cap Hashes = {} /\ Cardinality(new) = Cardinality(keys)
      BY <1>1, <1>3, <2>2 DEF Key, Unseen
    <3>2. key \in [new -> keys] /\ \A k \in keys : \E e \in new : key[e] = k
      OBVIOUS
    <3>3. key \in Surjection(new, keys)
      BY <3>2, Fun_IsSurj
    <3>4. key \in Injection(new, keys)
      BY <1>2, <3>1, <3>3, FS_SurjSameCardinalityImpliesInj
    <3>5. \A x, y \in new : key[x] = key[y] => x = y
      BY <3>4, Fun_InjectionProperties
    <3>6. \A x \in new : key[x] = DraftOf(r, x).text /\ key[x] \in keys
      BY <3>1
    <3> HIDE DEF key, keys
    <3> SUFFICES ASSUME NEW d \in drafts', NEW e \in drafts', d # e, d.text = e.text
                 PROVE  "curate" \in {Call(d.run).kind, Call(e.run).kind}
      BY DEF NoRepeats, Call
    <3>7. CASE d \in drafts /\ e \in drafts
      BY <1>5, <3>7 DEF NoRepeats
    <3>8. ASSUME NEW x \in drafts, NEW y \in new, x.text = DraftOf(r, y).text PROVE FALSE
      BY <3>1, <3>6, <3>8 DEF Hashes
    <3>9. ASSUME NEW x \in new, NEW y \in new, DraftOf(r, x).text = DraftOf(r, y).text PROVE x = y
      BY <3>5, <3>6, <3>9
    <3> QED
      BY <1>1, <3>7, <3>8, <3>9
  <2> QED
    BY <2>1, <2>2
<1> QED
  BY <1>1, <1>4, <1>5

LEMMA RunStep ==
  ASSUME RunsOK, NEW r \in Runs, NEW to \in Stages, NEW got \in SUBSET (Edits \cup Drafts),
         pc' = [pc EXCEPT ![r] = to], found' = [found EXCEPT ![r] = got], script' = script,
         drafts' \subseteq Drafts, asked' \subseteq Drafts,
         to = "ranking" => got \subseteq Call(r).edits, to = "enqueuing" => got \subseteq Drafts
  PROVE  RunsOK'
<1>1. pc' \in [Runs -> Stages] /\ pc'[r] = to /\ \A q \in Runs \ {r} : pc'[q] = pc[q]
  BY DEF RunsOK
<1>2. /\ found' \in [Runs -> SUBSET (Edits \cup Drafts)] /\ found'[r] = got
      /\ \A q \in Runs \ {r} : found'[q] = found[q]
  BY DEF RunsOK
<1>3. \A q \in Runs : pc'[q] = "ranking" => found'[q] \subseteq script.calls[q].edits
  BY <1>1, <1>2 DEF RunsOK, Call
<1>4. \A q \in Runs : pc'[q] = "enqueuing" => found'[q] \subseteq Drafts
  BY <1>1, <1>2 DEF RunsOK
<1> QED
  BY <1>1, <1>2, <1>3, <1>4 DEF RunsOK, Call

\* A step of a run that stages nothing.
LEMMA UnstagedKeeps ==
  ASSUME RunsOK, NEW r \in Runs,
         Reflect(r) \/ Index(r) \/ Explore(r) \/ Enqueue(r) \/ Curate(r)
  PROVE  RunsOK' /\ drafts' = drafts /\ (NoRepeats => NoRepeats')
<1>1. drafts' = drafts /\ script' = script
  BY DEF Reflect, Index, Explore, Enqueue, Curate
<1>2. NoRepeats => NoRepeats'
  BY <1>1 DEF NoRepeats, Call
<1>3. CASE Reflect(r) \/ Index(r) \/ Curate(r)
  <2>1. PICK to \in {"indexing", "exploring", "over"} : pc' = [pc EXCEPT ![r] = to]
    BY <1>3 DEF Reflect, Index, Curate, Goes
  <2>2. found' = found /\ asked' = asked
    BY <1>3 DEF Reflect, Index, Curate
  <2>3. found[r] \in SUBSET (Edits \cup Drafts) /\ found' = [found EXCEPT ![r] = found[r]]
    BY <2>2 DEF RunsOK
  <2>4. drafts' \subseteq Drafts /\ asked' \subseteq Drafts
    BY <1>1, <2>2 DEF RunsOK
  <2>5. to \in Stages /\ to # "ranking" /\ to # "enqueuing"
    BY DEF Stages
  <2>6. RunsOK'
    BY <1>1, <2>1, <2>3, <2>4, <2>5, RunStep
  <2> QED
    BY <1>1, <1>2, <2>6
<1>4. CASE Explore(r)
  <2>1. PICK edits \in SUBSET Call(r).edits :
          /\ found' = [found EXCEPT ![r] = edits]
          /\ pc' = [pc EXCEPT ![r] = IF edits = {} THEN "over" ELSE "ranking"]
    BY <1>4 DEF Explore, Goes
  <2>2. Call(r).edits \subseteq Edits /\ asked' = asked
    BY <1>4, CallFacts DEF Explore
  <2> DEFINE to == IF edits = {} THEN "over" ELSE "ranking"
  <2>3. to \in Stages /\ to # "enqueuing"
    BY DEF Stages
  <2>4. drafts' \subseteq Drafts /\ asked' \subseteq Drafts
    BY <1>1, <2>2 DEF RunsOK
  <2> HIDE DEF to
  <2>5. pc' = [pc EXCEPT ![r] = to]
    BY <2>1 DEF to
  <2>6. edits \in SUBSET (Edits \cup Drafts)
    BY <2>2
  <2>7. RunsOK'
    BY <1>1, <2>1, <2>3, <2>4, <2>5, <2>6, RunStep
  <2> QED
    BY <1>1, <1>2, <2>7
<1>5. CASE Enqueue(r)
  <2>1. PICK d \in found[r] :
          /\ found' = [found EXCEPT ![r] = @ \ {d}]
          /\ asked' \in {asked \cup {d}, asked}
          /\ pc' = [pc EXCEPT ![r] = IF found[r] = {d} THEN "over" ELSE "enqueuing"]
    BY <1>5 DEF Enqueue, Requested, Goes
  <2>2. pc[r] = "enqueuing" /\ found[r] \subseteq Drafts
    BY <1>5 DEF Enqueue, RunsOK
  <2> DEFINE to == IF found[r] = {d} THEN "over" ELSE "enqueuing"
             got == found[r] \ {d}
  <2>3. to \in Stages /\ to # "ranking"
    BY DEF Stages
  <2>4. drafts' \subseteq Drafts /\ asked' \subseteq Drafts
    BY <1>1, <2>1, <2>2 DEF RunsOK
  <2>5. got \in SUBSET (Edits \cup Drafts) /\ got \subseteq Drafts
    BY <2>2
  <2>6. found' = [found EXCEPT ![r] = got]
    BY <2>1 DEF RunsOK
  <2> HIDE DEF to, got
  <2>7. pc' = [pc EXCEPT ![r] = to]
    BY <2>1 DEF to
  <2>8. RunsOK'
    BY <1>1, <2>3, <2>4, <2>5, <2>6, <2>7, RunStep
  <2> QED
    BY <1>1, <1>2, <2>8
<1> QED
  BY <1>1, <1>2, <1>3, <1>4, <1>5

-----------------------------------------------------------------------------
(* The applier *)

\* What the gate let pass has no near-duplicate but what was written since it looked.
Gated ==
    \A w \in work :
        w.at \in {"judging", "passed"} => Twins(w.draft.text, w.draft.target) \subseteq w.since

TasksOK == work \subseteq Tasks /\ Gated

LEMMA TasksKept == TasksOK /\ TextsKept /\ work' = work => TasksOK'
BY DEF TasksOK, Gated, TextsKept, Twins, Indexed, Exists

LEMMA FilesStutter == FilesOK /\ UNCHANGED stvars => FilesOK' /\ TextsKept
BY DEF stvars, FilesOK, StoreOK, Earning, Aging, TextsKept, Exists

\* The tasks that go on hear of a file that is written.
LEMMA WriteTold ==
  ASSUME TasksOK, NEW target \in Targets, NEW rest \in SUBSET work,
         \A t \in Targets \ {target} : store'[t] = store[t],
         work' = Others(rest, target)
  PROVE  TasksOK'
<1>1. \A x \in work' : \E w \in rest : x = [w EXCEPT !.since = @ \cup {target}]
  BY DEF Others
<1>2. ASSUME NEW x \in work'
      PROVE  /\ x \in Tasks
             /\ x.at \in {"judging", "passed"} => Twins(x.draft.text, x.draft.target)' \subseteq x.since
  <2>1. PICK w \in rest : x = [w EXCEPT !.since = @ \cup {target}]
    BY <1>1, <1>2
  <2>2. w \in Tasks /\ w \in work
    BY DEF TasksOK
  <2>3. x \in Tasks /\ x.at = w.at /\ x.draft = w.draft /\ x.since = w.since \cup {target}
    BY <2>1, <2>2 DEF Tasks
  <2>4. Twins(w.draft.text, w.draft.target)' \subseteq Twins(w.draft.text, w.draft.target) \cup {target}
    BY DEF Twins, Indexed, Exists
  <2>5. w.at \in {"judging", "passed"} => Twins(w.draft.text, w.draft.target) \subseteq w.since
    BY <2>2 DEF TasksOK, Gated
  <2> QED
    BY <2>3, <2>4, <2>5
<1> QED
  BY <1>2 DEF TasksOK, Gated, Twins, Indexed, Exists

\* One task goes on or ends; the files stay.
LEMMA TaskStep ==
  ASSUME TasksOK, TextsKept, NEW w \in work, NEW x, work' = (work \ {w}) \cup {x}, x \in Tasks,
         x.at \in {"judging", "passed"} => Twins(x.draft.text, x.draft.target) \subseteq x.since
  PROVE  TasksOK'
<1>1. work' \subseteq Tasks
  BY DEF TasksOK
<1>2. ASSUME NEW y \in work', y.at \in {"judging", "passed"}
      PROVE  Twins(y.draft.text, y.draft.target)' \subseteq y.since
  <2>1. Twins(y.draft.text, y.draft.target) \subseteq y.since
    BY <1>2 DEF TasksOK, Gated
  <2>2. Twins(y.draft.text, y.draft.target)' \subseteq Twins(y.draft.text, y.draft.target)
    BY DEF Twins, Indexed, Exists, TextsKept
  <2> QED
    BY <2>1, <2>2
<1> QED
  BY <1>1, <1>2 DEF TasksOK, Gated

LEMMA TaskEnds == TasksOK /\ TextsKept /\ work' \subseteq work => TasksOK'
BY DEF TasksOK, Gated, TextsKept, Twins, Indexed, Exists

\* Fewer drafts, the same runs.
LEMMA RunsKept ==
  RunsOK /\ UNCHANGED <<script, pc, found>> /\ drafts' \subseteq drafts /\ asked' \subseteq asked
      => RunsOK' /\ (NoRepeats => NoRepeats')
BY DEF RunsOK, NoRepeats, Call

Inv == FilesOK /\ RunsOK /\ TasksOK /\ NoRepeats

LEMMA InitInv == Init => Inv
<1> SUFFICES ASSUME Init PROVE Inv
  OBVIOUS
<1>1. script \in Scripts /\ script.files \in [Targets -> Entries \cup {Nothing}]
  BY MemoryAssumption DEF Init
<1> DEFINE ages == [t \in Targets |-> Windows(script.files[t])]
<1>2. /\ store = script.files /\ known = {} /\ events = <<>>
      /\ ledger = [t \in Targets |-> [Blank EXCEPT !.ages = ages[t]]]
  BY DEF Init, InitStore
<1>3. /\ \A t \in Targets : ages[t] \in Nat
      /\ \A t \in Targets : Exists(t) => ages[t] = IF store[t].stale THEN 1 ELSE 0
  BY <1>2 DEF Exists, Windows
<1> HIDE DEF ages
<1> DEFINE Start(t) == [hits |-> 0, before |-> 0, drops |-> 0, ages |-> ages[t],
                        update |-> FALSE, over |-> FALSE]
<1>4. \A t \in Targets : ledger[t] = Start(t)
  BY <1>2 DEF Blank
<1>5. ledger \in [Targets -> Histories]
  <2>1. ASSUME NEW t \in Targets PROVE ledger[t] \in Histories
    <3>1. ages[t] \in Nat
      BY <1>3
    <3>2. Start(t) \in Histories
      BY <3>1 DEF Histories
    <3> QED
      BY <1>4, <3>2
  <2> QED
    BY <1>2, <2>1
<1>6. events \in Seq(Events)
  BY <1>2, EmptySeq
<1>7. \A t \in Targets : Earning(t) /\ Aging(t)
  <2> SUFFICES ASSUME NEW t \in Targets PROVE Earning(t) /\ Aging(t)
    OBVIOUS
  <2>1. ledger[t] = Start(t)
    BY <1>4
  <2>2. ~ledger[t].update
    BY <2>1
  <2>3. ledger[t].drops = 0 /\ ledger[t].ages = ages[t]
    BY <2>1
  <2> QED
    BY <1>3, <2>2, <2>3 DEF Earning, Aging
<1>8. FilesOK
  BY <1>1, <1>2, <1>5, <1>6, <1>7 DEF FilesOK, StoreOK
<1>9. RunsOK
  BY <1>1 DEF Init, RunsOK, Stages
<1>10. TasksOK /\ NoRepeats
  BY DEF Init, TasksOK, Gated, NoRepeats
<1> QED
  BY <1>8, <1>9, <1>10 DEF Inv

\* What a step writes, if anything, it has as a draft or makes itself.
LEMMA NextInv == Inv /\ [Next]_vars => Inv'
<1> SUFFICES ASSUME Inv, [Next]_vars PROVE Inv'
  OBVIOUS
<1> USE DEF mvars
<1>a. FilesOK /\ RunsOK /\ TasksOK /\ NoRepeats
  BY DEF Inv
<1>b. ASSUME UNCHANGED <<script, pc, found, drafts, asked>> PROVE RunsOK' /\ NoRepeats'
  BY <1>a, <1>b, RunsKept
<1>1. ASSUME NEW r \in Runs, Reflect(r) \/ Index(r) \/ Explore(r) \/ Enqueue(r) \/ Curate(r) PROVE Inv'
  <2>1. RunsOK' /\ NoRepeats' /\ work' = work
    BY <1>a, <1>1, UnstagedKeeps DEF Reflect, Index, Explore, Enqueue, Curate
  <2>2. FilesOK' /\ TextsKept
    <3>1. CASE UNCHANGED stvars
      BY <1>a, <3>1, FilesStutter
    <3>2. ASSUME NEW root \in Roots, List("reflect", root) PROVE FilesOK' /\ TextsKept
      <4>1. Listed("reflect", root) \in SUBSET Targets
        BY StoreAssumption DEF Listed
      <4> QED
        BY <1>a, <3>2, <4>1, AnnounceKeeps DEF List
    <3> QED
      BY <1>1, <3>1, <3>2 DEF Reflect, Index, Explore, Enqueue, Curate
  <2> QED
    BY <1>a, <2>1, <2>2, TasksKept DEF Inv
<1>2. ASSUME NEW r \in Runs, Rank(r) \/ Extract(r) PROVE Inv'
  <2>1. UNCHANGED <<stvars, script, asked, work>>
    BY <1>2 DEF Rank, Extract
  <2>2. FilesOK' /\ TasksOK'
    BY <1>a, <2>1, FilesStutter, TasksKept
  <2>3. ASSUME NEW edits \in SUBSET Call(r).edits, StageAll(r, edits) PROVE RunsOK' /\ NoRepeats'
    BY <1>a, <2>1, <2>3, StageKeeps
  <2>4. CASE Rank(r)
    <3>1. PICK chosen \in SUBSET found[r] : StageAll(r, chosen)
      BY <2>4 DEF Rank, Picks
    <3>2. found[r] \subseteq Call(r).edits
      BY <1>a, <2>4 DEF Rank, RunsOK
    <3> QED
      BY <2>2, <2>3, <3>1, <3>2 DEF Inv
  <2>5. ASSUME Goes(r, "over"), UNCHANGED <<found, drafts>> PROVE RunsOK' /\ NoRepeats'
    <3>1. /\ found' = [found EXCEPT ![r] = found[r]] /\ found[r] \in SUBSET (Edits \cup Drafts)
          /\ drafts' \subseteq Drafts /\ asked' \subseteq Drafts
      BY <1>a, <2>1, <2>5 DEF RunsOK
    <3>2. RunsOK'
      <4>1. pc' = [pc EXCEPT ![r] = "over"] /\ "over" \in Stages
        BY <2>5 DEF Goes, Stages
      <4> QED
        BY <1>a, <2>1, <3>1, <4>1, RunStep
    <3> QED
      BY <1>a, <2>1, <2>5, <3>2 DEF NoRepeats, Call
  <2>6. CASE Extract(r)
    <3>1. \/ \E edits \in SUBSET Call(r).edits : StageAll(r, edits)
          \/ Goes(r, "over") /\ UNCHANGED <<found, drafts>>
      BY <2>6 DEF Extract
    <3> QED
      BY <2>2, <2>3, <2>5, <3>1 DEF Inv
  <2> QED
    BY <1>2, <2>4, <2>6
<1>3. ASSUME NEW d \in asked, NEW verdict \in {"approved", "rejected"}, Decide(d, verdict) PROVE Inv'
  <2> DEFINE x == [draft |-> d, verdict |-> verdict, at |-> "fetching", since |-> {}]
  <2>1. d \in Drafts
    BY <1>a DEF RunsOK
  <2>2. x \in Tasks /\ x.at = "fetching"
    BY <2>1 DEF Tasks
  <2>3. work' = work \cup {x} /\ UNCHANGED <<store, ledger, known, script, pc, found, drafts>>
    BY <1>3 DEF Decide
  <2> HIDE DEF x
  <2>4. TasksOK'
    BY <1>a, <2>2, <2>3 DEF TasksOK, Gated, Twins, Indexed, Exists
  <2>5. asked' \subseteq asked
    BY <1>3 DEF Decide
  <2>6. RunsOK' /\ NoRepeats'
    BY <1>a, <2>3, <2>5, RunsKept
  <2>7. events' \in Seq(Events)
    <3>1. events \in Seq(Events)
      BY <1>a DEF FilesOK, StoreOK
    <3>2. Call(d.run).kind \in {"reflect", "curate", "none"}
      BY <1>a, <2>1, CallFacts DEF Drafts
    <3>3. [kind |-> "blamed", agent |-> Call(d.run).kind] \in Events
      BY <3>2 DEF Events
    <3> QED
      BY <1>3, <3>1, <3>3, AppendProperties DEF Decide
  <2>8. FilesOK'
    BY <1>a, <2>3, <2>7 DEF FilesOK, StoreOK, Earning, Aging, Exists
  <2> QED
    BY <2>4, <2>6, <2>8 DEF Inv
<1>4. ASSUME NEW w \in work, Fetch(w) \/ Gate(w) \/ Judge(w) PROVE Inv'
  <2>1. UNCHANGED <<stvars, script, pc, found, asked>>
    BY <1>4 DEF Fetch, Gate, Judge
  <2>2. FilesOK' /\ TextsKept
    BY <1>a, <2>1, FilesStutter
  <2>3. drafts' \subseteq drafts
    BY <1>4 DEF Fetch, Gate, Judge, ToArchive
  <2>4. RunsOK' /\ NoRepeats'
    BY <1>a, <2>1, <2>3, RunsKept
  <2>5. w \in Tasks
    BY <1>a DEF TasksOK
  <2>6. ASSUME NEW to \in {"gating", "judging", "waived", "failed"}, Moves(w, to),
               to = "judging" => NoopBaseline(w.draft.text, w.draft.target)
        PROVE  TasksOK'
    <3> DEFINE x == [w EXCEPT !.at = to, !.since = {}]
    <3>1. x \in Tasks /\ x.at = to /\ x.draft = w.draft
      BY <2>5 DEF Tasks
    <3>2. work' = (work \ {w}) \cup {x}
      BY <2>6 DEF Moves
    <3> HIDE DEF x
    <3>3. x.at \in {"judging", "passed"} => Twins(x.draft.text, x.draft.target) \subseteq x.since
      BY <2>6, <3>1 DEF NoopBaseline
    <3> QED
      BY <1>a, <2>2, <3>1, <3>2, <3>3, TaskStep
  <2>7. ASSUME Drops(w) PROVE TasksOK'
    BY <1>a, <2>2, <2>7, TaskEnds DEF Drops
  <2>8. ASSUME Gate(w) PROVE TasksOK'
    <3>1. \/ /\ CheapStages(w.draft.text, w.draft.target) /\ Moves(w, "judging")
          \/ Moves(w, "failed")
          \/ Moves(w, "waived")
      BY <2>8 DEF Gate
    <3>2. CASE CheapStages(w.draft.text, w.draft.target) /\ Moves(w, "judging")
      BY <2>6, <3>2 DEF CheapStages
    <3> QED
      BY <2>6, <3>1, <3>2
  <2>9. ASSUME Judge(w) PROVE TasksOK'
    <3>1. PICK to \in {"passed", "failed"} : work' = (work \ {w}) \cup {[w EXCEPT !.at = to]}
      BY <2>9 DEF Judge
    <3> DEFINE x == [w EXCEPT !.at = to]
    <3>2. x \in Tasks /\ x.at = to /\ x.draft = w.draft /\ x.since = w.since
      BY <2>5 DEF Tasks
    <3>3. Twins(w.draft.text, w.draft.target) \subseteq w.since
      BY <1>a, <2>9 DEF Judge, TasksOK, Gated
    <3> HIDE DEF x
    <3>4. work' = (work \ {w}) \cup {x}
      BY <3>1 DEF x
    <3>5. x.at \in {"judging", "passed"} => Twins(x.draft.text, x.draft.target) \subseteq x.since
      BY <3>2, <3>3
    <3> QED
      BY <1>a, <2>2, <3>2, <3>4, <3>5, TaskStep
  <2>10. ASSUME Fetch(w) PROVE TasksOK'
    BY <2>6, <2>7, <2>10 DEF Fetch
  <2> QED
    BY <1>4, <2>2, <2>4, <2>8, <2>9, <2>10 DEF Inv
<1>5. ASSUME NEW w \in work, Settle(w) PROVE Inv'
  <2> DEFINE d == w.draft
  <2>1. UNCHANGED <<script, pc, found, asked>> /\ drafts' \subseteq drafts
    BY <1>5 DEF Settle, ToArchive
  <2>2. RunsOK' /\ NoRepeats'
    BY <1>a, <2>1, RunsKept
  <2>3. d.target \in Targets /\ d.text \in Texts
    BY <1>a DEF TasksOK, Tasks, Drafts
  <2>4. CASE UNCHANGED stvars /\ Drops(w)
    <3>1. FilesOK' /\ TasksOK'
      BY <1>a, <2>4, FilesStutter, TaskEnds DEF Drops
    <3> QED
      BY <2>2, <3>1 DEF Inv
  <2>5. CASE Write(d.target, d.text, d.action) /\ work' = Others(work \ {w}, d.target)
    <3>1. FilesOK' /\ \A t \in Targets \ {d.target} : store'[t] = store[t]
      BY <1>a, <2>3, <2>5, WriteKeeps
    <3>2. TasksOK'
      BY <1>a, <2>3, <2>5, <3>1, WriteTold
    <3> QED
      BY <2>2, <3>1, <3>2 DEF Inv
  <2> QED
    BY <1>5, <2>4, <2>5 DEF Settle
<1>6. ASSUME NEW d \in drafts, ApplyDraft(d) PROVE Inv'
  <2>1. d.target \in Targets /\ d.text \in Texts
    BY <1>a DEF RunsOK, Drafts
  <2>2. /\ Write(d.target, d.text, d.action) /\ work' = Others(work, d.target)
        /\ drafts' \subseteq drafts /\ UNCHANGED <<script, pc, found, asked>>
    BY <1>6 DEF ApplyDraft
  <2>3. FilesOK' /\ \A t \in Targets \ {d.target} : store'[t] = store[t]
    BY <1>a, <2>1, <2>2, WriteKeeps
  <2>4. TasksOK'
    BY <1>a, <2>1, <2>2, <2>3, WriteTold
  <2>5. RunsOK' /\ NoRepeats'
    BY <1>a, <2>2, RunsKept
  <2> QED
    BY <2>3, <2>4, <2>5 DEF Inv
<1>7. ASSUME NEW t \in Targets, Compress(t) \/ Compressed(t) PROVE Inv'
  <2>1. RunsOK' /\ NoRepeats'
    BY <1>b, <1>7 DEF Compress, Compressed
  <2>2. CASE UNCHANGED <<stvars, work>>
    <3>1. FilesOK' /\ TasksOK'
      BY <1>a, <2>2, FilesStutter, TasksKept
    <3> QED
      BY <2>1, <3>1 DEF Inv
  <2> DEFINE text == [fm |-> TRUE, topic |-> t, cites |-> NoSession, dated |-> TRUE]
  <2>3. CASE Write(t, text, "session") /\ work' = Others(work, t)
    <3>1. text \in Texts
      BY DEF Texts
    <3>2. FilesOK' /\ \A u \in Targets \ {t} : store'[u] = store[u]
      BY <1>a, <2>3, <3>1, WriteKeeps
    <3>3. TasksOK'
      BY <1>a, <2>3, <3>2, WriteTold
    <3> QED
      BY <2>1, <3>2, <3>3 DEF Inv
  <2> QED
    BY <1>7, <2>2, <2>3 DEF Compress, Compressed
<1>8. CASE Read \/ Tend \/ Rankings
  <2>1. UNCHANGED <<script, pc, found, drafts, asked, work>>
    BY <1>8 DEF Read, Tend, Rankings
  <2>2. FilesOK' /\ TextsKept
    <3>1. CASE Read
      <4>1. \E root \in Roots :
               \/ \E mode \in script.modes : List(mode, root) \/ Search(mode, root)
               \/ \E t \in Targets : Get(t, root)
        BY <3>1 DEF Read
      <4>2. ASSUME NEW root \in Roots, NEW mode, List(mode, root) \/ Search(mode, root)
            PROVE  \E paths \in SUBSET Targets : Announce(paths, root)
        <5>1. Listed(mode, root) \in SUBSET Targets
          BY StoreAssumption DEF Listed
        <5> QED
          BY <4>2, <5>1 DEF List, Search
      <4>3. ASSUME NEW root \in Roots, NEW t \in Targets, Get(t, root)
            PROVE  \E paths \in SUBSET Targets : Announce(paths, root)
        BY <4>3 DEF Get
      <4>4. \E root \in Roots, paths \in SUBSET Targets : Announce(paths, root)
        BY <4>1, <4>2, <4>3
      <4> QED
        BY <1>a, <4>4, AnnounceKeeps
    <3>2. CASE Tend
      <4>1. ASSUME NEW extra \in {{}} \cup {{root} : root \in Roots}, Sweep(extra) PROVE FilesOK' /\ TextsKept
        BY <1>a, <4>1, SweepKeeps
      <4> QED
        BY <1>a, <3>2, <4>1, AgeKeeps, BlameKeeps DEF Tend
    <3>3. CASE Rankings
      BY <1>a, <3>3, CreditKeeps, BlameKeeps DEF Rankings
    <3> QED
      BY <1>8, <3>1, <3>2, <3>3
  <2> QED
    BY <1>a, <1>b, <2>1, <2>2, TasksKept DEF Inv
<1>9. CASE UNCHANGED vars
  <2>1. UNCHANGED <<stvars, script, pc, found, drafts, asked, work>>
    BY <1>9 DEF vars
  <2> QED
    BY <1>a, <1>b, <2>1, FilesStutter, TasksKept DEF Inv
<1> QED
  BY <1>1, <1>2, <1>3, <1>4, <1>5, <1>6, <1>7, <1>8, <1>9 DEF Next

-----------------------------------------------------------------------------

\* However many runs of reflection overlap, none stages a text that another has staged.
THEOREM Unrepeated == Spec => []NoRepeats
BY InitInv, NextInv, PTL DEF Spec, Inv

\* A file that was updated is trusted only after retrievals delivered since.
THEOREM Earned == Spec => []ProbationEarned
<1>1. Inv => ProbationEarned
  BY DEF Inv, FilesOK, Earning, ProbationEarned
<1> QED
  BY <1>1, InitInv, NextInv, PTL DEF Spec

\* Sweeps of overlapping roots take no file down by more levels than windows have passed
\* since the date it bears.
THEOREM AgesByWindows == Spec => []OneStepPerWindow
<1>1. Inv => OneStepPerWindow
  <2> SUFFICES ASSUME Inv, NEW t \in Targets, Exists(t)
               PROVE  ledger[t].drops <= (IF store[t].mandatory THEN 0 ELSE ledger[t].ages)
    BY DEF OneStepPerWindow
  <2>1. FilesOK
    BY DEF Inv
  <2>2. ledger[t].drops \in Nat /\ ledger[t].ages \in Nat
    BY <2>1, StoreFacts DEF FilesOK
  <2>3. /\ store[t].mandatory => ledger[t].drops = 0
        /\ ledger[t].drops + (IF store[t].stale THEN 1 ELSE 0) <= ledger[t].ages
    BY <2>1 DEF FilesOK, Aging
  <2> QED
    BY <2>2, <2>3
<1> QED
  BY <1>1, InitInv, NextInv, PTL DEF Spec

\* What the applier writes after the gate let it pass has no near-duplicate but what was
\* written meanwhile.
THEOREM AdmittedAsSeen == Spec => Admitted
<1> DEFINE A == \A w \in work :
                   w.at = "passed" /\ store' # store /\ (\A x \in work' : x.draft # w.draft)
                       => Twins(w.draft.text, w.draft.target) \subseteq w.since
<1>1. Inv => A
  BY DEF Inv, TasksOK, Gated
<1>2. Inv => [A]_vars
  BY <1>1
<1> QED
  BY <1>2, InitInv, NextInv, PTL DEF Spec, Admitted

\* No step makes a draft disappear: it is archived, or its text is in its file.
THEOREM DraftsSurvive == Spec => NeverLost
<1> DEFINE Safe(d) == \/ d \in archive'
                      \/ store'[d.target] # Nothing /\ store'[d.target].text = d.text
<1>1. ASSUME Inv, [Next]_vars, NEW d \in drafts \ drafts' PROVE Safe(d)
  <2>1. FilesOK /\ d.target \in Targets /\ d.text \in Texts
    BY <1>1 DEF Inv, RunsOK, Drafts
  <2>2. ASSUME NEW action, Write(d.target, d.text, action) PROVE Safe(d)
    BY <2>1, <2>2, WriteKeeps
  <2>3. ASSUME NEW e, ToArchive(e) PROVE Safe(d)
    BY <1>1, <2>3 DEF ToArchive
  <2>4. ASSUME NEW w \in work, Fetch(w) \/ Gate(w) \/ Judge(w) PROVE Safe(d)
    BY <1>1, <2>3, <2>4 DEF Fetch, Gate, Judge
  <2>5. ASSUME NEW w \in work, Settle(w) PROVE Safe(d)
    <3>1. CASE ToArchive(w.draft)
      BY <2>3, <3>1
    <3>2. CASE Write(w.draft.target, w.draft.text, w.draft.action) /\ drafts' \in {drafts \ {w.draft}, drafts}
      <4>1. d = w.draft
        BY <1>1, <3>2
      <4> QED
        BY <2>2, <3>2, <4>1
    <3>3. CASE UNCHANGED drafts
      BY <1>1, <3>3
    <3> QED
      BY <2>5, <3>1, <3>2, <3>3 DEF Settle
  <2>6. ASSUME NEW e \in drafts, ApplyDraft(e) PROVE Safe(d)
    <3>1. d = e
      BY <1>1, <2>6 DEF ApplyDraft
    <3> QED
      BY <2>2, <2>6, <3>1 DEF ApplyDraft
  <2>7. ~(drafts \subseteq drafts')
    BY <1>1
  <2>8. ASSUME NEW r \in Runs,
               Reflect(r) \/ Index(r) \/ Explore(r) \/ Enqueue(r) \/ Curate(r) \/ Rank(r) \/ Extract(r)
        PROVE  FALSE
    BY <2>7, <2>8 DEF Reflect, Index, Explore, Enqueue, Curate, Rank, Extract, StageAll
  <2>9. ASSUME NEW e, NEW verdict, Decide(e, verdict) PROVE FALSE
    BY <2>7, <2>9 DEF Decide
  <2>10. ASSUME NEW t, Compress(t) \/ Compressed(t) PROVE FALSE
    BY <2>7, <2>10 DEF Compress, Compressed
  <2>11. ~(Read \/ Tend \/ Rankings \/ UNCHANGED vars)
    BY <2>7 DEF Read, Tend, Rankings, mvars, vars
  <2> QED
    BY <1>1, <2>4, <2>5, <2>6, <2>8, <2>9, <2>10, <2>11 DEF Next
<1>2. Inv /\ [Next]_vars => [\A d \in drafts \ drafts' : Safe(d)]_vars
  BY <1>1
<1> QED
  BY <1>2, InitInv, NextInv, PTL DEF Spec, NeverLost
================================================================================
