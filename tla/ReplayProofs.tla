---------------------------- MODULE ReplayProofs ----------------------------
(***************************************************************************)
(* Proofs about the replays folder, and what empties and fills it.         *)
(*                                                                         *)
(* ReplayFiles: two threads that prune a folder at the same time, while    *)
(* replays arrive, leave the best Max of them, for every set of names      *)
(* whose order as strings is that of their numbers.                        *)
(*                                                                         *)
(* ReplayFetch: the requests and downloads that fill the folder never      *)
(* leave a map marked for good, and a connected server hears of the record *)
(* of its map, for any maps, queue length, attempts and troubles.          *)
(***************************************************************************)
EXTENDS ReplayFiles, ReplayFetch, FiniteSetTheorems, WellFoundedInduction, TLAPS

-----------------------------------------------------------------------------
(* Pruning.                                                                *)

\* The names for which the two orders agree: the class comes first in the order
\* of the characters, and the time has no more than the padded digits.
Tidy == \A f \in Names : f.head >= Zero /\ f.time < Limit

\* The files that come before f in the sorted list of the folder.
Above(f) == {g \in folder : NameLess(g, f)}

\* What a thread is about to remove has Max files before it.
Crowded ==
  \A t \in Pruners : \A f \in prune[t].left :
    f \in folder /\ ~ removed[t] => Cardinality(Above(f)) >= Max

\* Two threads that prune have seen the same deletions.
SameDeletions ==
  \A t, o \in Pruners :
    prune[t] # NoPrune /\ prune[o] # NoPrune => removed[t] = removed[o]

\* What is left to remove has been in the folder.
LeftWasSeen ==
  \A t \in Pruners : /\ prune[t].left \subseteq seen
                     /\ prune[t].step = "none" => prune[t] = NoPrune

FilesInv == FilesTypeOK /\ Crowded /\ SameDeletions /\ LeftWasSeen

-----------------------------------------------------------------------------
\* Among tidy names, the order of the strings is a strict order.
LEMMA NameOrder ==
  ASSUME Tidy
  PROVE  /\ \A f \in Names : ~ NameLess(f, f)
         /\ \A f, g, h \in Names : NameLess(f, g) /\ NameLess(g, h) => NameLess(f, h)
<1>1. \A f \in Names : f.head \in Nat /\ f.time \in Nat /\ f.tail \in Nat /\ f.time < Limit
  BY ReplayFilesAssumption DEF Tidy
<1>2. \A s, t \in Nat : s < Limit /\ t < Limit => (TimeLess(s, t) <=> s < t)
  BY ReplayFilesAssumption DEF TimeLess, Stretch
<1>3. \A f, g \in Names :
        NameLess(f, g) <=> \/ f.head < g.head
                           \/ f.head = g.head /\ f.time < g.time
                           \/ f.head = g.head /\ f.time = g.time /\ f.tail < g.tail
  BY <1>1, <1>2 DEF NameLess
<1>4. \A f \in Names : ~ NameLess(f, f)
  BY <1>1, <1>3
<1>5. ASSUME NEW f \in Names, NEW g \in Names, NEW h \in Names,
             NameLess(f, g), NameLess(g, h)
      PROVE  NameLess(f, h)
  <2>1. /\ f.head \in Nat /\ f.time \in Nat /\ f.tail \in Nat
        /\ g.head \in Nat /\ g.time \in Nat /\ g.tail \in Nat
        /\ h.head \in Nat /\ h.time \in Nat /\ h.tail \in Nat
    BY <1>1
  <2>2. \/ f.head < g.head
        \/ f.head = g.head /\ f.time < g.time
        \/ f.head = g.head /\ f.time = g.time /\ f.tail < g.tail
    BY <1>3, <1>5
  <2>3. \/ g.head < h.head
        \/ g.head = h.head /\ g.time < h.time
        \/ g.head = h.head /\ g.time = h.time /\ g.tail < h.tail
    BY <1>3, <1>5
  <2>4. \/ f.head < h.head
        \/ f.head = h.head /\ f.time < h.time
        \/ f.head = h.head /\ f.time = h.time /\ f.tail < h.tail
    BY <2>1, <2>2, <2>3
  <2> QED BY <2>4, <1>3
<1> QED BY <1>4, <1>5

\* A name before another is no worse a run.
LEMMA NoWorse ==
  ASSUME Tidy, NEW f \in Names, NEW g \in Names, NameLess(g, f)
  PROVE  ~ Ranked(f, g) /\ g # f
<1>1. /\ f.head \in Nat /\ f.time \in Nat /\ f.tail \in Nat /\ f.time < Limit
      /\ g.head \in Nat /\ g.time \in Nat /\ g.tail \in Nat /\ g.time < Limit
      /\ g.head >= 48 /\ f.head >= 48
  BY ReplayFilesAssumption DEF Tidy, Zero
<1>2. TimeLess(g.time, f.time) <=> g.time < f.time
  BY <1>1, ReplayFilesAssumption DEF TimeLess, Stretch
<1>3. \/ g.head < f.head
      \/ g.head = f.head /\ g.time < f.time
      \/ g.head = f.head /\ g.time = f.time /\ g.tail < f.tail
  BY <1>2 DEF NameLess
<1>4. g # f
  BY <1>1, <1>3
<1>5. ASSUME Parsed(f), Parsed(g) => IsBetter(f, g) PROVE FALSE
  <2>1. f.head \in 48 .. 57
    BY <1>5 DEF Parsed, Zero, Nine
  <2>2. g.head \in 48 .. 57
    BY <1>1, <1>3, <2>1
  <2>3. f.head - 48 < g.head - 48 \/ (f.head - 48 = g.head - 48 /\ f.time < g.time)
    BY <2>2, <1>5 DEF Parsed, IsBetter, ClassOf, Zero, Nine
  <2> QED BY <1>1, <1>3, <2>3
<1> QED BY <1>4, <1>5 DEF Ranked

-----------------------------------------------------------------------------
\* The folder is finite, and so is what comes before a file.
LEMMA FolderFinite ==
  ASSUME FilesTypeOK
  PROVE  IsFiniteSet(folder) /\ \A f : IsFiniteSet(Above(f))
<1>1. folder \subseteq Names
  BY DEF FilesTypeOK
<1>2. IsFiniteSet(folder)
  BY <1>1, ReplayFilesAssumption, FS_Subset
<1>3. ASSUME NEW f PROVE IsFiniteSet(Above(f))
  BY <1>2, FS_Subset DEF Above
<1> QED BY <1>2, <1>3

\* More files before it: a larger number.
LEMMA MoreAbove ==
  ASSUME NEW A, NEW B, IsFiniteSet(B), A \subseteq B, Cardinality(A) >= Max
  PROVE  Cardinality(B) >= Max
<1>1. IsFiniteSet(A) /\ Cardinality(A) <= Cardinality(B)
  BY FS_Subset
<1>2. Cardinality(A) \in Nat /\ Cardinality(B) \in Nat
  BY <1>1, FS_CardinalityType
<1> QED BY <1>1, <1>2, ReplayFilesAssumption

\* What a thread that enters kz_rp_prune_replays does to the prunes.
LEMMA ListStep ==
  ASSUME FilesInv, NEW t \in Pruners, prune[t] = NoPrune, folder \subseteq folder',
         folder' \subseteq seen', seen' \subseteq Names, List(t, folder'),
         seen \subseteq seen', folder' \cap seen \subseteq folder
  PROVE  /\ prune' \in [Pruners -> [step : {"none", "sort", "remove"}, left : SUBSET Names]]
         /\ removed' \in [Pruners -> BOOLEAN]
         /\ Crowded' /\ SameDeletions' /\ LeftWasSeen'
<1>t. FilesTypeOK
  BY DEF FilesInv
<1>1. /\ prune' = [prune EXCEPT ![t] =
           IF Max < 0 \/ Cardinality(folder') <= Max
             THEN NoPrune ELSE [step |-> "sort", left |-> Surplus(folder')]]
      /\ removed' = [removed EXCEPT ![t] =
           \E o \in Pruners \ {t} : prune[o] # NoPrune /\ removed[o]]
  BY DEF List
<1>2. /\ NoPrune \in [step : {"none", "sort", "remove"}, left : SUBSET Names]
      /\ NoPrune.left = {}
  BY DEF NoPrune
<1>3. Surplus(folder') \subseteq folder'
  BY DEF Surplus
<1>4. [step |-> "sort", left |-> Surplus(folder')]
        \in [step : {"none", "sort", "remove"}, left : SUBSET Names]
  BY <1>3
<1>5. prune' \in [Pruners -> [step : {"none", "sort", "remove"}, left : SUBSET Names]]
  BY <1>1, <1>2, <1>4, <1>t DEF FilesTypeOK
<1>6. removed' \in [Pruners -> BOOLEAN]
  BY <1>1, <1>t DEF FilesTypeOK
<1>7. \A o \in Pruners \ {t} : prune'[o] = prune[o] /\ removed'[o] = removed[o]
  BY <1>1, <1>t DEF FilesTypeOK
<1>8. /\ prune'[t] = NoPrune \/ prune'[t] = [step |-> "sort", left |-> Surplus(folder')]
      /\ removed'[t] = (\E o \in Pruners \ {t} : prune[o] # NoPrune /\ removed[o])
  BY <1>1, <1>t DEF FilesTypeOK
<1>9. Crowded'
  <2> SUFFICES ASSUME NEW o \in Pruners, NEW f \in prune'[o].left,
                      f \in folder', ~ removed'[o]
               PROVE  Cardinality({g \in folder' : NameLess(g, f)}) >= Max
    BY DEF Crowded, Above
  <2>1. CASE o = t
    BY <2>1, <1>2, <1>8 DEF Surplus
  <2>2. CASE o # t
    <3>1. f \in prune[o].left /\ ~ removed[o] /\ f \in folder
      BY <2>2, <1>7 DEF FilesInv, LeftWasSeen
    <3>2. Cardinality(Above(f)) >= Max
      BY <3>1 DEF FilesInv, Crowded
    <3>3. Above(f) \subseteq {g \in folder' : NameLess(g, f)}
      BY DEF Above
    <3>4. IsFiniteSet({g \in folder' : NameLess(g, f)})
      <4>1. {g \in folder' : NameLess(g, f)} \subseteq Names
        OBVIOUS
      <4> QED BY <4>1, ReplayFilesAssumption, FS_Subset
    <3> QED BY <3>2, <3>3, <3>4, MoreAbove
  <2> QED BY <2>1, <2>2
<1>10. SameDeletions'
  <2>1. \A o \in Pruners \ {t} : prune[o] # NoPrune => removed'[t] = removed[o]
    <3>1. \A o, q \in Pruners \ {t} : o = q
      BY DEF Pruners
    <3> QED BY <3>1, <1>8, <1>t DEF FilesTypeOK
  <2> QED BY <2>1, <1>7 DEF FilesInv, SameDeletions
<1>11. LeftWasSeen'
  <2>1. \A o \in Pruners \ {t} : /\ prune'[o].left \subseteq seen'
                                 /\ prune'[o].step = "none" => prune'[o] = NoPrune
    BY <1>7 DEF FilesInv, LeftWasSeen
  <2>2. prune'[t].left \subseteq seen' /\ (prune'[t].step = "none" => prune'[t] = NoPrune)
    BY <1>2, <1>3, <1>8 DEF NoPrune
  <2>3. \A o \in Pruners : /\ prune'[o].left \subseteq seen'
                           /\ prune'[o].step = "none" => prune'[o] = NoPrune
    <3> SUFFICES ASSUME NEW o \in Pruners
                 PROVE  /\ prune'[o].left \subseteq seen'
                        /\ prune'[o].step = "none" => prune'[o] = NoPrune
      OBVIOUS
    <3>1. CASE o = t
      BY <3>1, <2>2
    <3>2. CASE o # t
      BY <3>2, <2>1
    <3> QED BY <3>1, <3>2
  <2> QED BY <2>3 DEF LeftWasSeen
<1> QED BY <1>5, <1>6, <1>9, <1>10, <1>11

\* Removing one file leaves Max files before each of the others.
LEMMA RemoveStep ==
  ASSUME Tidy, FilesInv, NEW t \in Pruners, Remove(t)
  PROVE  FilesInv'
<1>t. FilesTypeOK
  BY DEF FilesInv
<1>1. PICK h \in prune[t].left :
        /\ \A g \in prune[t].left : ~ NameLess(g, h)
        /\ folder' = folder \ {h}
        /\ prune' = [prune EXCEPT ![t] =
             IF prune[t].left = {h} THEN NoPrune
             ELSE [step |-> "remove", left |-> prune[t].left \ {h}]]
  BY DEF Remove
<1>2. prune[t].step = "remove" /\ UNCHANGED <<seen, early, unlisted, removed>>
  BY DEF Remove
<1>3. /\ \A o \in Pruners \ {t} : prune'[o] = prune[o]
      /\ \/ prune'[t] = NoPrune
         \/ prune'[t] = [step |-> "remove", left |-> prune[t].left \ {h}]
  BY <1>1, <1>2, <1>t DEF FilesTypeOK
<1>4. prune[t] # NoPrune /\ NoPrune.left = {} /\ h \in Names
  BY <1>2, <1>t DEF NoPrune, FilesTypeOK
<1>5. FilesTypeOK'
  <2>1. NoPrune \in [step : {"none", "sort", "remove"}, left : SUBSET Names]
    BY DEF NoPrune
  <2>2. [step |-> "remove", left |-> prune[t].left \ {h}]
          \in [step : {"none", "sort", "remove"}, left : SUBSET Names]
    BY <1>t DEF FilesTypeOK
  <2>3. prune' \in [Pruners -> [step : {"none", "sort", "remove"}, left : SUBSET Names]]
    BY <2>1, <2>2, <1>1, <1>3, <1>t DEF FilesTypeOK
  <2> QED BY <2>3, <1>1, <1>2, <1>t DEF FilesTypeOK
<1>6. \A o \in Pruners : prune'[o].left \subseteq prune[o].left
  BY <1>3, <1>4
<1>7. \A o \in Pruners : prune'[o] # NoPrune => prune[o] # NoPrune
  BY <1>3, <1>4
<1>8. Crowded'
  <2> SUFFICES ASSUME NEW o \in Pruners, NEW f \in prune'[o].left,
                      f \in folder', ~ removed'[o]
               PROVE  Cardinality({g \in folder' : NameLess(g, f)}) >= Max
    BY DEF Crowded, Above
  <2>1. f \in prune[o].left /\ f \in folder /\ ~ removed[o]
    BY <1>1, <1>2, <1>6
  <2>2. Cardinality(Above(f)) >= Max
    BY <2>1 DEF FilesInv, Crowded
  <2>3. CASE h \in folder /\ NameLess(h, f)
    <3>1. prune[o] # NoPrune
      BY <2>1, <1>4
    <3>2. ~ removed[t]
      BY <3>1, <2>1, <1>4 DEF FilesInv, SameDeletions
    <3>3. Cardinality(Above(h)) >= Max
      BY <2>3, <3>2 DEF FilesInv, Crowded
    <3>4. f \in Names /\ folder \subseteq Names
      BY <2>1, <1>t DEF FilesTypeOK
    <3>5. Above(h) \subseteq {g \in folder' : NameLess(g, f)}
      BY <1>1, <1>4, <2>3, <3>4, NameOrder DEF Above
    <3>6. IsFiniteSet({g \in folder' : NameLess(g, f)})
      <4>1. {g \in folder' : NameLess(g, f)} \subseteq Names
        BY <1>1, <3>4
      <4> QED BY <4>1, ReplayFilesAssumption, FS_Subset
    <3> QED BY <3>3, <3>5, <3>6, MoreAbove
  <2>4. CASE ~ (h \in folder /\ NameLess(h, f))
    <3>1. {g \in folder' : NameLess(g, f)} = Above(f)
      BY <1>1, <2>4 DEF Above
    <3> QED BY <3>1, <2>2
  <2> QED BY <2>3, <2>4
<1>9. SameDeletions'
  BY <1>2, <1>7 DEF FilesInv, SameDeletions
<1>10. LeftWasSeen'
  BY <1>2, <1>3, <1>4, <1>6 DEF FilesInv, LeftWasSeen, NoPrune
<1> QED BY <1>5, <1>8, <1>9, <1>10 DEF FilesInv

\* Every step preserves the invariant.
LEMMA FilesStepInv ==
  ASSUME Tidy, FilesInv, [FilesNext]_fvars
  PROVE  FilesInv'
<1>t. FilesTypeOK
  BY DEF FilesInv
<1>p. Game \in Pruners /\ Ws \in Pruners
  BY DEF Pruners
<1>1. ASSUME NEW f \in Names, FileAck(f) PROVE FilesInv'
  <2>1. /\ f \in Names \ seen /\ folder' = folder \cup {f} /\ seen' = seen \cup {f}
        /\ prune[Ws] = NoPrune /\ List(Ws, folder')
        /\ unlisted' = unlisted \cup {f} /\ early' = early
    BY <1>1 DEF FileAck, Add
  <2>2. /\ folder \subseteq folder' /\ folder' \subseteq seen' /\ seen' \subseteq Names
        /\ seen \subseteq seen' /\ folder' \cap seen \subseteq folder
        /\ unlisted' \subseteq seen'
    BY <2>1, <1>t DEF FilesTypeOK
  <2>3. FilesTypeOK' /\ Crowded' /\ SameDeletions' /\ LeftWasSeen'
    BY <2>1, <2>2, <1>t, <1>p, ListStep DEF FilesTypeOK
  <2> QED BY <2>3 DEF FilesInv
<1>2. ASSUME NEW f \in Names, Arrive(f) PROVE FilesInv'
  <2>1. /\ f \in Names \ seen /\ folder' = folder \cup {f} /\ seen' = seen \cup {f}
        /\ unlisted' = unlisted \cup {f}
        /\ UNCHANGED <<early, prune, removed>>
    BY <1>2 DEF Arrive, Add
  <2>2. FilesTypeOK'
    BY <2>1, <1>t DEF FilesTypeOK
  <2>3. Crowded'
    <3> SUFFICES ASSUME NEW o \in Pruners, NEW g \in prune[o].left,
                        g \in folder', ~ removed[o]
                 PROVE  Cardinality({k \in folder' : NameLess(k, g)}) >= Max
      BY <2>1 DEF Crowded, Above
    <3>1. g \in folder
      BY <2>1 DEF FilesInv, LeftWasSeen
    <3>2. Cardinality(Above(g)) >= Max
      BY <3>1 DEF FilesInv, Crowded
    <3>3. Above(g) \subseteq {k \in folder' : NameLess(k, g)}
      BY <2>1 DEF Above
    <3>4. IsFiniteSet({k \in folder' : NameLess(k, g)})
      <4>1. {k \in folder' : NameLess(k, g)} \subseteq Names
        BY <2>2 DEF FilesTypeOK
      <4> QED BY <4>1, ReplayFilesAssumption, FS_Subset
    <3> QED BY <3>2, <3>3, <3>4, MoreAbove
  <2>4. SameDeletions' /\ LeftWasSeen'
    BY <2>1 DEF FilesInv, SameDeletions, LeftWasSeen
  <2> QED BY <2>2, <2>3, <2>4 DEF FilesInv
<1>3. ASSUME NEW f \in Names, DeleteReplay(f) PROVE FilesInv'
  <2>1. /\ folder' = folder \ {f} /\ removed' = [t \in Pruners |-> TRUE]
        /\ UNCHANGED <<seen, early, prune, unlisted>>
    BY <1>3 DEF DeleteReplay
  <2> QED BY <2>1 DEF FilesInv, FilesTypeOK, Crowded, SameDeletions, LeftWasSeen
<1>4. CASE ChangeLevel
  <2>1. /\ prune[Game] = NoPrune /\ early' = TRUE /\ List(Game, folder')
        /\ unlisted' = {} /\ UNCHANGED <<folder, seen>>
    BY <1>4 DEF ChangeLevel
  <2>2. /\ folder \subseteq folder' /\ folder' \subseteq seen' /\ seen' \subseteq Names
        /\ seen \subseteq seen' /\ folder' \cap seen \subseteq folder
    BY <2>1, <1>t DEF FilesTypeOK
  <2>3. FilesTypeOK' /\ Crowded' /\ SameDeletions' /\ LeftWasSeen'
    BY <2>1, <2>2, <1>t, <1>p, ListStep DEF FilesTypeOK
  <2> QED BY <2>3 DEF FilesInv
<1>5. CASE MapLoaded
  <2>1. /\ prune[Game] = NoPrune /\ early' = FALSE /\ List(Game, folder')
        /\ UNCHANGED <<folder, seen, unlisted>>
    BY <1>5 DEF MapLoaded
  <2>2. /\ folder \subseteq folder' /\ folder' \subseteq seen' /\ seen' \subseteq Names
        /\ seen \subseteq seen' /\ folder' \cap seen \subseteq folder
    BY <2>1, <1>t DEF FilesTypeOK
  <2>3. FilesTypeOK' /\ Crowded' /\ SameDeletions' /\ LeftWasSeen'
    BY <2>1, <2>2, <1>t, <1>p, ListStep DEF FilesTypeOK
  <2> QED BY <2>3 DEF FilesInv
<1>5a. CASE OtherMap
  BY <1>5a DEF OtherMap, FilesInv, FilesTypeOK, Crowded, SameDeletions, LeftWasSeen, Above
<1>6. ASSUME NEW t \in Pruners, Decide(t) PROVE FilesInv'
  <2>1. /\ prune[t].step = "sort"
        /\ \E waits \in Triggers :
             prune' = [prune EXCEPT ![t] =
               IF ~ waits \/ early THEN [step |-> "remove", left |-> prune[t].left]
               ELSE NoPrune]
        /\ UNCHANGED <<folder, seen, early, unlisted, removed>>
    BY <1>6 DEF Decide
  <2>2. /\ \A o \in Pruners \ {t} : prune'[o] = prune[o]
        /\ \/ prune'[t] = NoPrune
           \/ prune'[t] = [step |-> "remove", left |-> prune[t].left]
    BY <2>1, <1>t DEF FilesTypeOK
  <2>3. prune[t] # NoPrune /\ NoPrune.left = {}
        /\ NoPrune \in [step : {"none", "sort", "remove"}, left : SUBSET Names]
    BY <2>1 DEF NoPrune
  <2>4. prune' \in [Pruners -> [step : {"none", "sort", "remove"}, left : SUBSET Names]]
    BY <2>1, <2>2, <2>3, <1>t DEF FilesTypeOK
  <2>5. FilesTypeOK'
    BY <2>1, <2>4, <1>t DEF FilesTypeOK
  <2>6. \A o \in Pruners : /\ prune'[o].left \subseteq prune[o].left
                           /\ prune'[o] # NoPrune => prune[o] # NoPrune
    BY <2>2, <2>3
  <2>7. Crowded' /\ SameDeletions'
    BY <2>1, <2>6 DEF FilesInv, Crowded, SameDeletions, Above
  <2>8. LeftWasSeen'
    BY <2>1, <2>2, <2>6 DEF FilesInv, LeftWasSeen, NoPrune
  <2> QED BY <2>5, <2>7, <2>8 DEF FilesInv
<1>7. ASSUME NEW t \in Pruners, Remove(t) PROVE FilesInv'
  BY <1>7, RemoveStep
<1>8. CASE UNCHANGED fvars
  BY <1>8 DEF fvars, FilesInv, FilesTypeOK, Crowded, SameDeletions, LeftWasSeen, Above
<1> QED BY <1>1, <1>2, <1>3, <1>4, <1>5, <1>5a, <1>6, <1>7, <1>8 DEF FilesNext

\* The invariant holds in every reachable state.
LEMMA FilesInvHolds == ASSUME Tidy PROVE FilesSpec => []FilesInv
<1>1. FilesInit => FilesInv
  <2> SUFFICES ASSUME FilesInit PROVE FilesInv
    OBVIOUS
  <2>1. NoPrune \in [step : {"none", "sort", "remove"}, left : SUBSET Names]
        /\ NoPrune.left = {}
    BY DEF NoPrune
  <2>2. \A t \in Pruners : prune[t] = NoPrune
    BY DEF FilesInit
  <2>3. FilesTypeOK
    BY <2>1 DEF FilesInit, FilesTypeOK
  <2> QED BY <2>1, <2>2, <2>3 DEF FilesInv, Crowded, SameDeletions, LeftWasSeen
<1>2. FilesInv /\ [FilesNext]_fvars => FilesInv'
  BY FilesStepInv
<1> QED BY <1>1, <1>2, PTL DEF FilesSpec

(***************************************************************************)
(* Pruning removes no file that is not behind Max others in the folder,    *)
(* for tidy names, however the two prunes interleave.                      *)
(***************************************************************************)
THEOREM PruningKeepsTheBest == ASSUME Tidy PROVE FilesSpec => []PruneKeepsTheBest
<1>1. FilesInv => PruneKeepsTheBest
  <2> SUFFICES ASSUME FilesInv, NEW t \in Pruners, NEW f \in prune[t].left,
                      f \in folder, ~ removed[t]
               PROVE  Cardinality({g \in folder \ {f} : ~ Ranked(f, g)}) >= Max
    BY DEF PruneKeepsTheBest
  <2>1. FilesTypeOK /\ folder \subseteq Names /\ f \in Names
    BY DEF FilesInv, FilesTypeOK
  <2>2. Cardinality(Above(f)) >= Max
    BY DEF FilesInv, Crowded
  <2>3. Above(f) \subseteq {g \in folder \ {f} : ~ Ranked(f, g)}
    BY <2>1, NoWorse DEF Above
  <2>4. IsFiniteSet({g \in folder \ {f} : ~ Ranked(f, g)})
    BY <2>1, FolderFinite, FS_Subset
  <2> QED BY <2>2, <2>3, <2>4, MoreAbove
<1> QED BY <1>1, FilesInvHolds, PTL

-----------------------------------------------------------------------------
\* A set of numbers up to m has a greatest element.
LEMMA GreatestNat ==
  ASSUME NEW m \in Nat, NEW S, S \subseteq 0 .. m, S # {}
  PROVE  \E x \in S : \A y \in S : y <= x
<1> DEFINE back == {m - i : i \in S}
<1>1. \A i \in S : i \in 0 .. m
  OBVIOUS
<1>2. back \subseteq Nat /\ back # {}
  <2>1. \A i \in 0 .. m : m - i \in Nat
    OBVIOUS
  <2> QED BY <1>1, <2>1
<1>3. PICK z \in back : \A y \in back : <<y, z>> \notin OpToRel(<, Nat)
  <2> HIDE DEF back
  <2> QED BY <1>2, WFMin, NatLessThanWellFounded, Zenon
<1>4. \A y \in back : <<y, z>> \in Nat \X Nat => ~ (<<y, z>>[1] < <<y, z>>[2])
  BY <1>3, Zenon DEF OpToRel
<1>5. PICK x \in S : m - x = z
  OBVIOUS
<1>6. ASSUME NEW y \in S PROVE y <= x
  <2>1. m - y \in back /\ m - y \in Nat /\ z \in Nat
    BY <1>2
  <2>2. <<m - y, z>> \in Nat \X Nat /\ <<m - y, z>>[1] = m - y /\ <<m - y, z>>[2] = z
    BY <2>1
  <2>3. ~ (<<m - y, z>>[1] < <<m - y, z>>[2])
    BY <2>1, <2>2, <1>4, Zenon
  <2>4. ~ (m - y < z)
    BY <2>2, <2>3
  <2>5. x \in Int /\ y \in Int
    BY <1>1
  <2> QED BY <2>1, <2>4, <2>5, <1>5
<1> QED BY <1>6

\* Of two tidy names one comes first.
LEMMA NameTotal ==
  ASSUME Tidy, NEW f \in Names, NEW g \in Names, f # g
  PROVE  NameLess(f, g) \/ NameLess(g, f)
<1>1. /\ f \in [head : Nat, time : Nat, tail : Nat] /\ f.time < Limit
      /\ g \in [head : Nat, time : Nat, tail : Nat] /\ g.time < Limit
  BY ReplayFilesAssumption DEF Tidy
<1>2. /\ TimeLess(f.time, g.time) <=> f.time < g.time
      /\ TimeLess(g.time, f.time) <=> g.time < f.time
  BY <1>1, ReplayFilesAssumption DEF TimeLess, Stretch
<1>3. f.head # g.head \/ f.time # g.time \/ f.tail # g.tail
  BY <1>1
<1> QED BY <1>1, <1>2, <1>3 DEF NameLess

\* No more than Max files are before the surplus of a folder.
LEMMA KeptIsBounded ==
  ASSUME Tidy, Max >= 0, NEW F, F \subseteq Names
  PROVE  Cardinality(F \ Surplus(F)) <= Max
<1> DEFINE B(f) == {g \in F : NameLess(g, f)}
           K == F \ Surplus(F)
<1>1. IsFiniteSet(F) /\ IsFiniteSet(K) /\ \A f \in F : IsFiniteSet(B(f))
  BY ReplayFilesAssumption, FS_Subset
<1>2. \A f \in F : Cardinality(B(f)) \in Nat
  BY <1>1, FS_CardinalityType
<1>3. Max \in Nat /\ \A f \in K : f \in F /\ Cardinality(B(f)) < Max
  BY <1>2, ReplayFilesAssumption DEF Surplus
<1>4. CASE K = {}
  BY <1>3, <1>4, FS_EmptySet
<1>5. CASE K # {}
  <2> DEFINE sizes == {Cardinality(B(f)) : f \in K}
  <2>1. sizes \subseteq 0 .. Max /\ sizes # {}
    <3>1. \A f \in K : Cardinality(B(f)) \in 0 .. Max
      BY <1>2, <1>3
    <3> HIDE DEF K, B
    <3> QED BY <3>1, <1>5
  <2>2. PICK n \in sizes : \A y \in sizes : y <= n
    <3> HIDE DEF sizes
    <3> QED BY <2>1, <1>3, GreatestNat
  <2>3. PICK f \in K : Cardinality(B(f)) = n
    OBVIOUS
  <2>4. ASSUME NEW g \in K, g # f PROVE g \in B(f)
    <3> SUFFICES ASSUME NameLess(f, g) PROVE FALSE
      <4>1. f \in Names /\ g \in Names /\ g \in F
        BY <1>3
      <4> QED BY <4>1, <2>4, NameTotal
    <3>1. f \in F /\ g \in F /\ f \in Names /\ g \in Names
      BY <1>3
    <3>2. B(f) \cup {f} \subseteq B(g)
      BY <3>1, NameOrder
    <3>3. f \notin B(f)
      BY <3>1, NameOrder
    <3>4. Cardinality(B(f) \cup {f}) = Cardinality(B(f)) + 1
      <4> HIDE DEF B
      <4> QED BY <1>1, <3>1, <3>3, FS_AddElement
    <3>5. Cardinality(B(f) \cup {f}) <= Cardinality(B(g))
      <4> HIDE DEF B
      <4> QED BY <1>1, <3>1, <3>2, FS_Subset
    <3>6. Cardinality(B(g)) <= Cardinality(B(f))
      BY <2>2, <2>3
    <3>7. Cardinality(B(f)) \in Nat /\ Cardinality(B(g)) \in Nat
      BY <1>2, <3>1
    <3> HIDE DEF B
    <3> QED BY <3>4, <3>5, <3>6, <3>7
  <2>5. K \subseteq B(f) \cup {f}
    BY <2>4
  <2>6. f \in F
    BY <1>3
  <2>7. f \notin B(f)
    BY <2>6, NameOrder
  <2> HIDE DEF B, K
  <2>8. /\ IsFiniteSet(B(f) \cup {f})
        /\ Cardinality(B(f) \cup {f}) = Cardinality(B(f)) + 1
    BY <1>1, <2>6, <2>7, FS_AddElement
  <2>9. Cardinality(K) <= Cardinality(B(f) \cup {f})
    BY <2>5, <2>8, FS_Subset
  <2>10. Cardinality(K) \in Nat
    BY <1>1, FS_CardinalityType
  <2>11. Cardinality(B(f)) \in Nat /\ Cardinality(B(f)) < Max /\ Max \in Nat
    BY <1>2, <1>3, <2>6
  <2>12. Cardinality(K) <= Max
    BY <2>8, <2>9, <2>10, <2>11
  <2> QED BY <2>12 DEF K
<1> QED BY <1>4, <1>5

-----------------------------------------------------------------------------
\* The files that have been there since the last map change of the map and that
\* will stay: while g_early_mapchange is set, the prune of the game thread
\* removes what it has on its list, otherwise it may leave that.
Lasting ==
  IF early THEN (folder \ unlisted) \ prune[Game].left ELSE folder \ unlisted

Bounded == Max >= 0 => Cardinality(Lasting) <= Max

\* While the game thread prunes nothing it does not matter how the flag is set.
LEMMA NothingOnTheList ==
  prune[Game] = NoPrune => Lasting = folder \ unlisted
BY DEF Lasting, NoPrune

\* A step that adds nothing to these files keeps the bound.
LEMMA LastingShrinks ==
  ASSUME FilesInv, Bounded, Lasting' \subseteq Lasting
  PROVE  Bounded'
<1>1. folder \subseteq Names
  BY DEF FilesInv, FilesTypeOK
<1>2. IsFiniteSet(Lasting)
  BY <1>1, FolderFinite, FS_Subset DEF Lasting, FilesInv
<1>3. Cardinality(Lasting') <= Cardinality(Lasting) /\ IsFiniteSet(Lasting')
  BY <1>2, FS_Subset
<1>4. Cardinality(Lasting) \in Nat /\ Cardinality(Lasting') \in Nat
  BY <1>2, <1>3, FS_CardinalityType
<1> QED BY <1>3, <1>4, ReplayFilesAssumption DEF Bounded

\* Only the map change of the map adds to these files, and removes at once.
LEMMA BoundedStep == ASSUME Tidy, FilesInv, Bounded, [FilesNext]_fvars PROVE Bounded'
<1>0. /\ prune \in [Pruners -> [step : {"none", "sort", "remove"}, left : SUBSET Names]]
      /\ folder \subseteq Names /\ Game # Ws /\ NoPrune.left = {}
      /\ Game \in Pruners /\ Ws \in Pruners
  BY ReplayFilesAssumption DEF FilesInv, FilesTypeOK, NoPrune, Pruners
<1>1. ASSUME NEW f \in Names, FileAck(f) PROVE Bounded'
  <2>1. prune'[Game] = prune[Game]
    BY <1>0, <1>1 DEF FileAck, List
  <2>2. Lasting' \subseteq Lasting
    BY <1>1, <2>1 DEF FileAck, Add, Lasting
  <2> QED BY <2>2, LastingShrinks
<1>2. ASSUME NEW f \in Names, Arrive(f) PROVE Bounded'
  <2>1. Lasting' \subseteq Lasting
    BY <1>2 DEF Arrive, Add, Lasting
  <2> QED BY <2>1, LastingShrinks
<1>3. ASSUME NEW f \in Names, DeleteReplay(f) PROVE Bounded'
  <2>1. Lasting' \subseteq Lasting
    BY <1>3 DEF DeleteReplay, Lasting
  <2> QED BY <2>1, LastingShrinks
<1>4. ASSUME ChangeLevel PROVE Bounded'
  <2>1. early' /\ folder' = folder /\ unlisted' = {}
    BY <1>4 DEF ChangeLevel
  <2>2. Lasting' = folder \ prune'[Game].left
    BY <2>1 DEF Lasting
  <2> SUFFICES ASSUME Max >= 0 PROVE Cardinality(Lasting') <= Max
    BY DEF Bounded
  <2>3. CASE Cardinality(folder) <= Max
    <3>1. prune'[Game].left = {}
      BY <1>0, <1>4, <2>3 DEF ChangeLevel, List
    <3> QED BY <2>2, <2>3, <3>1
  <2>4. CASE ~ (Cardinality(folder) <= Max)
    <3>1. prune'[Game].left = Surplus(folder)
      BY <1>0, <1>4, <2>4, ReplayFilesAssumption DEF ChangeLevel, List
    <3> QED BY <1>0, <2>2, <3>1, KeptIsBounded
  <2> QED BY <2>3, <2>4
<1>5. CASE MapLoaded
  <2>1. prune[Game] = NoPrune /\ ~ early' /\ UNCHANGED <<folder, unlisted>>
    BY <1>5 DEF MapLoaded
  <2>2. Lasting' = Lasting
    BY <2>1, NothingOnTheList DEF Lasting
  <2> QED BY <2>2, LastingShrinks
<1>5a. CASE OtherMap
  <2>1. /\ prune[Game] = NoPrune
        /\ UNCHANGED <<folder, unlisted, prune>>
    BY <1>5a DEF OtherMap
  <2>2. Lasting' \subseteq Lasting
    BY <2>1, NothingOnTheList DEF Lasting
  <2> QED BY <2>2, LastingShrinks
<1>6. ASSUME NEW t \in Pruners, Decide(t) PROVE Bounded'
  <2>1. early' = early /\ folder' = folder /\ unlisted' = unlisted
    BY <1>6 DEF Decide
  <2>2. early => prune'[Game].left = prune[Game].left
    <3>1. PICK waits \in Triggers : prune' = [prune EXCEPT ![t] =
             IF ~ waits \/ early THEN [step |-> "remove", left |-> prune[t].left]
             ELSE NoPrune]
      BY <1>6 DEF Decide
    <3> QED BY <1>0, <3>1
  <2>3. Lasting' = Lasting
    BY <2>1, <2>2 DEF Lasting
  <2> QED BY <2>3, LastingShrinks
<1>7. ASSUME NEW t \in Pruners, Remove(t) PROVE Bounded'
  <2>1. PICK f \in prune[t].left :
          /\ folder' = folder \ {f}
          /\ prune' = [prune EXCEPT ![t] =
               IF prune[t].left = {f} THEN NoPrune
               ELSE [step |-> "remove", left |-> prune[t].left \ {f}]]
    BY <1>0, <1>7 DEF Remove
  <2>2. early' = early /\ unlisted' = unlisted
    BY <1>7 DEF Remove
  <2>3. prune[Game].left \ {f} \subseteq prune'[Game].left
    <3>1. CASE t = Game
      BY <1>0, <2>1, <3>1
    <3>2. CASE t # Game
      BY <1>0, <2>1, <3>2
    <3> QED BY <3>1, <3>2
  <2>4. Lasting' \subseteq Lasting
    BY <2>1, <2>2, <2>3 DEF Lasting
  <2> QED BY <2>4, LastingShrinks
<1>8. CASE UNCHANGED fvars
  <2>1. Lasting' = Lasting
    BY <1>8 DEF fvars, Lasting
  <2> QED BY <2>1, LastingShrinks
<1> QED BY <1>1, <1>2, <1>3, <1>4, <1>5, <1>5a, <1>6, <1>7, <1>8 DEF FilesNext

(***************************************************************************)
(* While the game thread does not prune, no more than Max files are in the *)
(* folder besides those that have arrived since the last map change of the *)
(* map, for tidy names and whatever sets g_early_mapchange in between.     *)
(***************************************************************************)
THEOREM PruningBoundsTheFolder == ASSUME Tidy PROVE FilesSpec => []FolderIsBounded
<1>1. FilesInit => Bounded
  <2>1. FilesInit => folder = {} /\ Lasting \subseteq folder
    BY DEF FilesInit, Lasting
  <2> QED BY <2>1, FS_EmptySet DEF Bounded
<1>2. FilesInv /\ Bounded /\ [FilesNext]_fvars => Bounded'
  BY BoundedStep
<1>3. Bounded => FolderIsBounded
  BY NothingOnTheList DEF Bounded, FolderIsBounded
<1> QED BY <1>1, <1>2, <1>3, FilesInvHolds, PTL DEF FilesSpec

\* The folder holds only replays that were put there, and so on.
THEOREM ReplayFilesTypeCorrect == ASSUME Tidy PROVE FilesSpec => []FilesTypeOK
<1>1. FilesInv => FilesTypeOK
  BY DEF FilesInv
<1> QED BY <1>1, FilesInvHolds, PTL

-----------------------------------------------------------------------------
(* Fetching.                                                               *)

(***************************************************************************)
(* The strengthening.  The map a question names is the map being played    *)
(* because the header and the last map loaded always agree with it; and    *)
(* the client's thread that is about to give a map up still owes the       *)
(* answer to a request for it, so the count of requests stays a number.    *)
(***************************************************************************)
SameMap == map = loaded /\ header = loaded

OwesAnswer == ws # NoMap => requests[ws] > 0

FetchInv == TypeOK /\ SameMap /\ OwesAnswer

\* A callback of a kind for a map waits in the queue s.
Waits(s, kind, m) == \E i \in DOMAIN s : s[i].kind = kind /\ s[i].map = m

\* What waits after a push.
LEMMA PushWaits ==
  ASSUME NEW s \in Seq(Callback), NEW x \in Callback
  PROVE  /\ Append(s, x) \in Seq(Callback)
         /\ Len(Append(s, x)) = Len(s) + 1
         /\ \A kind, m : Waits(Append(s, x), kind, m) <=>
                           Waits(s, kind, m) \/ (x.kind = kind /\ x.map = m)
<1>1. /\ DOMAIN s = 1..Len(s) /\ Len(s) \in Nat
      /\ DOMAIN Append(s, x) = 1..(Len(s) + 1)
      /\ \A i \in 1..Len(s) : Append(s, x)[i] = s[i]
      /\ Append(s, x)[Len(s) + 1] = x
      /\ Append(s, x) \in Seq(Callback) /\ Len(Append(s, x)) = Len(s) + 1
  OBVIOUS
<1>2. \A i \in 1..(Len(s) + 1) : i \in 1..Len(s) \/ i = Len(s) + 1
  BY <1>1
<1> QED BY <1>1, <1>2 DEF Waits

\* What waits after the game thread has taken the first callback.
LEMMA PopWaits ==
  ASSUME NEW s \in Seq(Callback), s # <<>>
  PROVE  /\ Head(s) \in Callback
         /\ Tail(s) \in Seq(Callback)
         /\ Len(Tail(s)) = Len(s) - 1 /\ Len(s) \in Nat
         /\ \A kind, m : Waits(s, kind, m) <=>
              Waits(Tail(s), kind, m) \/ (Head(s).kind = kind /\ Head(s).map = m)
<1>1. /\ DOMAIN s = 1..Len(s) /\ Len(s) \in Nat /\ Len(s) > 0
      /\ DOMAIN Tail(s) = 1..(Len(s) - 1)
      /\ \A i \in 1..(Len(s) - 1) : Tail(s)[i] = s[i + 1] /\ i + 1 \in 1..Len(s)
      /\ Head(s) = s[1] /\ Head(s) \in Callback
      /\ Tail(s) \in Seq(Callback) /\ Len(Tail(s)) = Len(s) - 1
  OBVIOUS
<1>2. ASSUME NEW i \in 1..Len(s), i # 1
      PROVE  i - 1 \in 1..(Len(s) - 1) /\ Tail(s)[i - 1] = s[i]
  BY <1>1, <1>2
<1>3. 1 \in 1..Len(s)
  BY <1>1
<1>4. ASSUME NEW kind, NEW m, Waits(s, kind, m), ~ (Head(s).kind = kind /\ Head(s).map = m)
      PROVE  Waits(Tail(s), kind, m)
  <2>1. PICK i \in 1..Len(s) : s[i].kind = kind /\ s[i].map = m
    BY <1>1, <1>4 DEF Waits
  <2>2. i # 1
    BY <2>1, <1>1, <1>4
  <2> QED BY <1>1, <1>2, <2>1, <2>2 DEF Waits
<1>5. ASSUME NEW kind, NEW m, Waits(Tail(s), kind, m) PROVE Waits(s, kind, m)
  BY <1>1, <1>5 DEF Waits
<1>6. ASSUME NEW kind, NEW m, Head(s).kind = kind, Head(s).map = m
      PROVE  Waits(s, kind, m)
  BY <1>1, <1>3, <1>6 DEF Waits
<1> QED BY <1>1, <1>4, <1>5, <1>6

\* What waits after two pushes into the last place.
LEMMA CollideWaits ==
  ASSUME NEW s \in Seq(Callback), s # <<>>, NEW x \in Callback
  PROVE  /\ [s EXCEPT ![Len(s)] = x] \in Seq(Callback)
         /\ Len([s EXCEPT ![Len(s)] = x]) = Len(s)
         /\ s[Len(s)] \in Callback
         /\ \A kind, m :
              Waits(s, kind, m) =>
                \/ Waits([s EXCEPT ![Len(s)] = x], kind, m)
                \/ s[Len(s)].kind = kind /\ s[Len(s)].map = m
<1> DEFINE r == [s EXCEPT ![Len(s)] = x]
<1>1. /\ DOMAIN s = 1..Len(s) /\ Len(s) \in Nat /\ Len(s) > 0
      /\ r \in Seq(Callback) /\ Len(r) = Len(s) /\ DOMAIN r = 1..Len(s)
      /\ s[Len(s)] \in Callback
      /\ \A i \in 1..Len(s) : i # Len(s) => r[i] = s[i]
  OBVIOUS
<1>2. ASSUME NEW kind, NEW m, Waits(s, kind, m),
             ~ (s[Len(s)].kind = kind /\ s[Len(s)].map = m)
      PROVE  Waits(r, kind, m)
  <2>1. PICK i \in 1..Len(s) : s[i].kind = kind /\ s[i].map = m
    BY <1>1, <1>2 DEF Waits
  <2>2. i # Len(s)
    BY <2>1, <1>2
  <2>3. i \in DOMAIN r /\ r[i] = s[i]
    BY <1>1, <2>2
  <2> HIDE DEF r
  <2> QED BY <2>1, <2>3 DEF Waits
<1> QED BY <1>1, <1>2

\* The callbacks are well formed, and name a map.
LEMMA CallbackTyped ==
  /\ \A m \in Maps, b \in BOOLEAN :
       [kind |-> "info", map |-> m, pro |-> b] \in Callback
  /\ \A m \in Maps, c \in Class, b \in BOOLEAN :
       [kind |-> "downloaded", map |-> m, class |-> c, ok |-> b] \in Callback
  /\ \A m \in Maps, c \in Class :
       [kind |-> "deleted", map |-> m, class |-> c] \in Callback
  /\ \A d \in Callback : d.map \in Maps /\ d.kind \in {"info", "downloaded", "deleted"}
  /\ \A d \in Callback : d.kind = "info" => d.pro \in BOOLEAN
  /\ \A d \in Callback : d.kind = "downloaded" => d.class \in Class /\ d.ok \in BOOLEAN
  /\ \A d \in Callback : d.kind = "deleted" => d.class \in Class
  BY DEF Callback

\* kz_ws_try_fetch_replay marks the map and asks for it, or does neither.
LEMMA TryFetchEffect ==
  ASSUME TypeOK, NEW m \in Maps, TryFetch(m)
  PROVE  /\ pending' \subseteq Maps
         /\ requests' \in [Maps -> Nat]
         /\ \A n \in Maps : requests'[n] >= requests[n] /\ requests[n] \in Nat
         /\ \A n \in pending' : n \in pending \/ requests'[n] > 0
<1>1. \/ pending' = pending /\ requests' = requests
      \/ pending' = pending \cup {m} /\ requests' = [requests EXCEPT ![m] = @ + 1]
  BY DEF TryFetch
<1>2. pending \subseteq Maps /\ requests \in [Maps -> Nat]
  BY DEF TypeOK
<1> QED BY <1>1, <1>2

\* A failure more, or the last one, and the map is not marked any more.
LEMMA ScheduleEffect ==
  ASSUME TypeOK, NEW m \in Maps, Schedule(m)
  PROVE  /\ retries' \in [Maps -> 0 .. RetriesMax + 1]
         /\ \A n \in Maps : retries'[n] <= RetriesMax \/ retries'[n] = 1
         /\ pending' = pending \ {m}
<1>1. /\ retries \in [Maps -> 0 .. RetriesMax + 1]
      /\ \A n \in Maps : retries[n] <= RetriesMax \/ retries[n] = 1
      /\ RetriesMax \in Nat
  BY ReplayFetchAssumption DEF TypeOK
<1> DEFINE v == IF retries[m] > 0 /\ retries[m] + 1 > RetriesMax THEN 0 ELSE retries[m] + 1
<1>2. retries' = [retries EXCEPT ![m] = v] /\ pending' = pending \ {m}
  BY DEF Schedule
<1>3. v \in 0 .. RetriesMax + 1 /\ (v <= RetriesMax \/ v = 1)
  BY <1>1
<1> HIDE DEF v
<1> QED BY <1>1, <1>2, <1>3

\* What can be lost.
Lossy == {"info", "request", "downloaded", "deleted"}

\* The type of everything but the queue of callbacks.
FetchTypes ==
  /\ records \in [Maps -> SUBSET Class]
  /\ disk \in [Maps -> SUBSET Class]
  /\ questions \subseteq Question
  /\ requests \in [Maps -> Nat]
  /\ link \in {"down", "open", "up"}
  /\ {ws, map, loaded, header} \subseteq Maps \cup {NoMap}
  /\ downloads \in [Maps -> [Class -> Nat]]
  /\ stage \in {"frame", "notify"}
  /\ {known, proWR} \subseteq BOOLEAN
  /\ pending \subseteq Maps
  /\ failed \subseteq Maps
  /\ retries \in [Maps -> 0 .. RetriesMax + 1]
  /\ \A m \in Maps : retries[m] <= RetriesMax \/ retries[m] = 1
  /\ lost \subseteq Lossy \X (Maps \cup {NoMap})

QueueType == incoming \in Seq(Callback) /\ Len(incoming) <= IncomingCap

\* The files of a map's folder change, one class set for another.
LEMMA DiskTyped ==
  ASSUME FetchTypes, NEW m \in Maps, NEW c \in Class
  PROVE  /\ [disk EXCEPT ![m] = disk[m] \cup {c}] \in [Maps -> SUBSET Class]
         /\ [disk EXCEPT ![m] = disk[m] \ {c}] \in [Maps -> SUBSET Class]
<1>1. disk \in [Maps -> SUBSET Class]
  BY DEF FetchTypes
<1>2. ASSUME NEW v \in SUBSET Class
      PROVE  [disk EXCEPT ![m] = v] \in [Maps -> SUBSET Class]
  BY <1>1, <1>2
<1>3. disk[m] \in SUBSET Class
  BY <1>1
<1>4. disk[m] \cup {c} \in SUBSET Class /\ disk[m] \ {c} \in SUBSET Class
  BY <1>3
<1> QED BY <1>2, <1>4

\* The type invariant, as that of the queue and that of the rest.
LEMMA TypesSplit == TypeOK <=> FetchTypes /\ QueueType
  BY DEF TypeOK, FetchTypes, QueueType, Lossy

\* A step of the game thread keeps the invariant.
LEMMA GameStepTyped ==
  ASSUME FetchInv,
         \/ \E m \in Maps : LoadMap(m) \/ PluginFetch(m) \/ Retry(m)
         \/ Notify \/ NotifyRefused \/ Handle
  PROVE  FetchInv'
<1> USE DEF FetchTypes, server, client, level, info, fetching, bounds
<1>t. TypeOK /\ FetchTypes /\ QueueType /\ SameMap /\ OwesAnswer
  BY TypesSplit DEF FetchInv
<1>q. ASSUME FetchTypes', QueueType', SameMap', OwesAnswer' PROVE FetchInv'
  BY <1>q DEF FetchInv, FetchTypes, QueueType, TypeOK, Lossy
<1>f. ASSUME NEW m \in Maps, TryFetch(m)
      PROVE  /\ pending' \subseteq Maps
             /\ requests' \in [Maps -> Nat]
             /\ UNCHANGED ws => OwesAnswer'
  <2>1. ws \in Maps \cup {NoMap}
    BY <1>t
  <2> QED BY <1>f, <1>t, <2>1, TryFetchEffect DEF OwesAnswer
<1>k. UNCHANGED incoming => QueueType'
  BY <1>t DEF QueueType
<1>1. ASSUME NEW m \in Maps, LoadMap(m) PROVE FetchInv'
  <2>1. FetchTypes'
    BY <1>1, <1>t DEF LoadMap
  <2>2. SameMap' /\ OwesAnswer' /\ UNCHANGED incoming
    BY <1>1, <1>t DEF LoadMap, SameMap, OwesAnswer
  <2> QED BY <2>1, <2>2, <1>k, <1>q
<1>2. ASSUME NEW m \in Maps, PluginFetch(m) PROVE FetchInv'
  <2>1. FetchTypes' /\ OwesAnswer'
    BY <1>2, <1>t, <1>f DEF PluginFetch
  <2>2. SameMap' /\ UNCHANGED incoming
    BY <1>2, <1>t DEF PluginFetch, SameMap
  <2> QED BY <2>1, <2>2, <1>k, <1>q
<1>3. ASSUME NEW m \in Maps, Retry(m) PROVE FetchInv'
  <2>0. UNCHANGED <<records, questions, client, incoming, level, info, failed, disk,
                    bounds>>
    BY <1>3 DEF Retry
  <2>1. CASE m # map \/ Sufficient(m)
    <3>1. retries' = [retries EXCEPT ![m] = 0] /\ UNCHANGED <<pending, requests>>
      BY <1>3, <2>1 DEF Retry
    <3>2. /\ retries' \in [Maps -> 0 .. RetriesMax + 1]
          /\ \A n \in Maps : retries'[n] <= RetriesMax \/ retries'[n] = 1
      BY <3>1, <1>t, ReplayFetchAssumption
    <3> QED BY <2>0, <3>1, <3>2, <1>t, <1>k, <1>q DEF SameMap, OwesAnswer
  <2>2. CASE ~ (m # map \/ Sufficient(m))
    <3>1. UNCHANGED retries /\ TryFetch(m)
      BY <1>3, <2>2 DEF Retry
    <3> QED BY <2>0, <3>1, <1>f, <1>t, <1>k, <1>q DEF SameMap
  <2> QED BY <2>1, <2>2
<1>4. CASE Notify
  <2>1. questions' \subseteq Question
    BY <1>4, <1>t DEF Notify, Question
  <2> QED BY <2>1, <1>4, <1>t, <1>k, <1>q DEF Notify, SameMap, OwesAnswer
<1>9. CASE NotifyRefused
  <2>1. lost' \subseteq Lossy \X (Maps \cup {NoMap})
    BY <1>9, <1>t DEF NotifyRefused, Lossy
  <2> QED BY <2>1, <1>9, <1>t, <1>k, <1>q DEF NotifyRefused, SameMap, OwesAnswer
<1>p. ASSUME NEW kind, NextCallback(kind)
      PROVE  /\ QueueType' /\ map \in Maps
             /\ Head(incoming) \in Callback /\ Head(incoming).kind = kind
             /\ Head(incoming).map \in Maps
  <2>1. incoming \in Seq(Callback) /\ incoming # <<>> /\ incoming' = Tail(incoming)
    BY <1>p, <1>t DEF NextCallback, QueueType
  <2>2. IncomingCap \in Nat
    BY ReplayFetchAssumption
  <2>3. QueueType'
    BY <2>1, <2>2, <1>t, PopWaits DEF QueueType
  <2> QED BY <2>1, <2>3, <1>p, <1>t, PopWaits, CallbackTyped DEF NextCallback, InFrame
<1>5. CASE HandleInfo
  <2>0. UNCHANGED <<records, questions, client, level, failed, retries, disk, bounds>>
        /\ NextCallback("info")
    BY <1>5 DEF HandleInfo
  <2>1. CASE Head(incoming).map = map
    <3>1. known' = TRUE /\ proWR' = Head(incoming).pro /\ TryFetch(map)
      BY <1>5, <2>1 DEF HandleInfo
    <3>2. proWR' \in BOOLEAN
      BY <2>0, <3>1, <1>p, CallbackTyped
    <3> QED BY <2>0, <3>1, <3>2, <1>f, <1>p, <1>t, <1>q DEF SameMap
  <2>2. CASE Head(incoming).map # map
    <3>1. UNCHANGED <<info, pending, requests>>
      BY <1>5, <2>2 DEF HandleInfo
    <3> QED BY <2>0, <3>1, <1>p, <1>t, <1>q DEF SameMap, OwesAnswer
  <2> QED BY <2>1, <2>2
<1>6. CASE HandleFailure
  <2>0. UNCHANGED <<server, client, level, info, failed, disk, orders, unusable, lost>>
        /\ NextCallback("downloaded") /\ Schedule(Head(incoming).map)
    BY <1>6 DEF HandleFailure
  <2>1. /\ retries' \in [Maps -> 0 .. RetriesMax + 1]
        /\ \A n \in Maps : retries'[n] <= RetriesMax \/ retries'[n] = 1
        /\ pending' \subseteq pending
    BY <2>0, <1>p, <1>t, ScheduleEffect
  <2> QED BY <2>0, <2>1, <1>p, <1>t, <1>q DEF SameMap, OwesAnswer
<1>7. CASE HandleReplay
  <2>0. UNCHANGED <<server, client, level, info, bounds>>
        /\ NextCallback("downloaded") /\ pending' \subseteq pending
    BY <1>7 DEF HandleReplay
  <2>1. disk' \in [Maps -> SUBSET Class] /\ failed' \subseteq Maps
        /\ retries' \in [Maps -> 0 .. RetriesMax + 1]
        /\ \A n \in Maps : retries'[n] <= RetriesMax \/ retries'[n] = 1
    <3>1. Head(incoming).class \in Class
      BY <2>0, <1>p, CallbackTyped
    <3>2. CASE Head(incoming).map = map
      <4>1. /\ disk' = [disk EXCEPT ![map] = disk[map] \cup {Head(incoming).class}]
            /\ failed' = failed \ {map}
            /\ retries' = [retries EXCEPT ![map] = 0]
        BY <1>7, <1>t, <3>2 DEF HandleReplay
      <4>2. Head(incoming).map \in Maps
        BY <2>0, <1>p
      <4>3. disk' \in [Maps -> SUBSET Class]
        BY <3>1, <3>2, <4>1, <4>2, <1>t, DiskTyped
      <4> QED BY <4>1, <4>2, <4>3, <3>2, <1>t, ReplayFetchAssumption
    <3>3. CASE Head(incoming).map # map
      BY <1>7, <3>3, <1>t DEF HandleReplay
    <3> QED BY <3>2, <3>3
  <2> QED BY <2>0, <2>1, <1>p, <1>t, <1>q DEF SameMap, OwesAnswer
<1>8. CASE HandleDeletion
  <2>0. /\ UNCHANGED <<records, questions, client, level, info, failed, retries, bounds>>
        /\ NextCallback("deleted")
        /\ disk' = [disk EXCEPT ![Head(incoming).map] =
                                  disk[Head(incoming).map] \ {Head(incoming).class}]
        /\ (TryFetch(map) \/ UNCHANGED <<pending, requests>>)
    BY <1>8 DEF HandleDeletion
  <2>1. /\ Head(incoming) \in Callback /\ Head(incoming).kind = "deleted"
        /\ Head(incoming).map \in Maps /\ map \in Maps /\ QueueType'
    BY <2>0, <1>p
  <2>2. Head(incoming).class \in Class
    BY <2>1, CallbackTyped
  <2>3. disk' \in [Maps -> SUBSET Class]
    BY <2>0, <2>1, <2>2, <1>t, DiskTyped
  <2>4. UNCHANGED ws
    BY <2>0
  <2>5. pending' \subseteq Maps /\ requests' \in [Maps -> Nat] /\ OwesAnswer'
    <3>1. CASE TryFetch(map)
      BY <3>1, <2>1, <2>4, <1>f
    <3>2. CASE UNCHANGED <<pending, requests>>
      BY <3>2, <2>4, <1>t DEF OwesAnswer
    <3> QED BY <2>0, <3>1, <3>2
  <2>6. FetchTypes'
    BY <2>0, <2>3, <2>5, <1>t
  <2>7. SameMap'
    BY <2>0, <1>t DEF SameMap
  <2> QED BY <2>1, <2>5, <2>6, <2>7, <1>q
<1> QED BY <1>1, <1>2, <1>3, <1>4, <1>5, <1>6, <1>7, <1>8, <1>9 DEF Handle

\* What two threads of downloads have pushed into one place.
LEMMA CollideEffect ==
  ASSUME TypeOK, NEW m \in Maps, NEW c \in Class, Collide(m, c)
  PROVE  /\ QueueType'
         /\ lost \subseteq lost'
         /\ lost' \subseteq Lossy \X (Maps \cup {NoMap})
         /\ \A kind, n : Waits(incoming, kind, n) =>
                           Waits(incoming', kind, n) \/ <<kind, n>> \in lost'
         /\ Waits(incoming', "downloaded", m) \/ <<"downloaded", m>> \in lost'
<1> DEFINE x == [kind |-> "downloaded", map |-> m, class |-> c, ok |-> TRUE]
           n == Len(incoming)
<1>1. /\ incoming \in Seq(Callback) /\ Len(incoming) <= IncomingCap
      /\ lost \subseteq Lossy \X (Maps \cup {NoMap})
      /\ IncomingCap \in Nat
  BY ReplayFetchAssumption DEF TypeOK, Lossy
<1>2. /\ incoming # <<>>
      /\ \/ /\ lost' = lost \cup {<<"downloaded", m>>}
            /\ UNCHANGED incoming
         \/ /\ lost' = lost \cup {<<incoming[n].kind, incoming[n].map>>}
            /\ incoming' = [incoming EXCEPT ![n] = x]
  BY DEF Collide
<1>3. x \in Callback
  BY CallbackTyped
<1>4. CASE /\ lost' = lost \cup {<<"downloaded", m>>}
           /\ UNCHANGED incoming
  BY <1>1, <1>4 DEF QueueType, Lossy
<1>5. CASE /\ lost' = lost \cup {<<incoming[n].kind, incoming[n].map>>}
           /\ incoming' = [incoming EXCEPT ![n] = x]
  <2>1. /\ [incoming EXCEPT ![n] = x] \in Seq(Callback)
        /\ Len([incoming EXCEPT ![n] = x]) = n
        /\ incoming[n] \in Callback
        /\ \A kind, k :
             Waits(incoming, kind, k) =>
               \/ Waits([incoming EXCEPT ![n] = x], kind, k)
               \/ incoming[n].kind = kind /\ incoming[n].map = k
    BY <1>1, <1>2, <1>3, CollideWaits
  <2>2. n \in DOMAIN incoming' /\ incoming'[n] = x
    BY <1>1, <1>2, <1>5
  <2>3. Waits(incoming', "downloaded", m)
    BY <2>2 DEF Waits
  <2>4. QueueType'
    BY <2>1, <1>1, <1>5 DEF QueueType
  <2>5. lost' \subseteq Lossy \X (Maps \cup {NoMap})
    BY <2>1, <1>1, <1>5, CallbackTyped DEF Lossy
  <2> HIDE DEF x, n
  <2> QED BY <2>1, <2>3, <2>4, <2>5, <1>5
<1> QED BY <1>2, <1>4, <1>5

\* A callback is pushed while there is room.
LEMMA PushEffect ==
  ASSUME TypeOK, Room, NEW x \in Callback, incoming' = Append(incoming, x)
  PROVE  /\ QueueType'
         /\ \A kind, m : Waits(incoming', kind, m) <=>
                           Waits(incoming, kind, m) \/ (x.kind = kind /\ x.map = m)
<1>1. /\ incoming \in Seq(Callback) /\ Len(incoming) \in Nat /\ IncomingCap \in Nat
      /\ Len(incoming) < IncomingCap
  BY ReplayFetchAssumption DEF TypeOK, Room
<1> QED BY <1>1, PushWaits DEF QueueType

\* A step of the client's thread or of a download keeps the invariant.
LEMMA ClientStepTyped ==
  ASSUME FetchInv,
         \/ \E m \in Maps :
              \/ AnswerRequest(m) \/ AnswerUnusable(m) \/ LoseRequest(m)
              \/ \E c \in Class :
                   DeleteRecord(m, c) \/ EndDownload(m, c) \/ DropDownload(m, c)
                     \/ Collide(m, c)
         \/ Connect \/ SendHello \/ Disconnect \/ GiveUp
         \/ \E q \in questions : AnswerQuestion(q) \/ DropAnswer(q)
         \/ UNCHANGED vars
  PROVE  FetchInv'
<1> USE DEF FetchTypes, server, client, level, info, fetching, bounds
<1>t. TypeOK /\ FetchTypes /\ QueueType /\ SameMap /\ OwesAnswer
  BY TypesSplit DEF FetchInv
<1>q. ASSUME FetchTypes', QueueType', SameMap', OwesAnswer' PROVE FetchInv'
  BY <1>q DEF FetchInv, FetchTypes, QueueType, TypeOK, Lossy
<1>k. UNCHANGED incoming => QueueType'
  BY <1>t DEF QueueType
<1>s. UNCHANGED level => SameMap'
  BY <1>t DEF SameMap
<1>a. ASSUME NEW m \in Maps, requests[m] > 0, Answered(m)
      PROVE  /\ requests' \in [Maps -> Nat]
             /\ \A n \in Maps : n # m => requests'[n] = requests[n]
  <2>1. requests \in [Maps -> Nat] /\ requests' = [requests EXCEPT ![m] = requests[m] - 1]
    BY <1>a, <1>t DEF Answered
  <2>2. requests[m] - 1 \in Nat
    BY <1>a, <2>1
  <2> QED BY <2>1, <2>2
<1>d. ASSUME NEW m \in Maps, NEW c \in Class, Downloaded(m, c)
      PROVE  downloads' \in [Maps -> [Class -> Nat]]
  <2>1. downloads \in [Maps -> [Class -> Nat]] /\ downloads[m][c] > 0
        /\ downloads' = [downloads EXCEPT ![m] = [downloads[m] EXCEPT ![c] = downloads[m][c] - 1]]
    BY <1>d, <1>t DEF Downloaded
  <2>2. downloads[m][c] - 1 \in Nat
    BY <2>1
  <2>3. [downloads[m] EXCEPT ![c] = downloads[m][c] - 1] \in [Class -> Nat]
    BY <2>1, <2>2
  <2> QED BY <2>1, <2>3
<1>1. ASSUME NEW m \in Maps, AnswerRequest(m) PROVE FetchInv'
  <2>0. /\ UNCHANGED <<records, questions, link, incoming, level, info, failed, retries,
                       disk, bounds>>
        /\ Listening /\ requests[m] > 0
    BY <1>1 DEF AnswerRequest
  <2>1. CASE Disappoints(m)
    <3>1. ws' = m /\ UNCHANGED <<requests, downloads, pending>>
      BY <1>1, <2>1 DEF AnswerRequest
    <3> QED BY <2>0, <3>1, <1>t, <1>k, <1>s, <1>q DEF OwesAnswer
  <2>2. CASE ~Disappoints(m)
    <3>1. /\ Answered(m) /\ UNCHANGED ws
          /\ IF Offer(m) = "error"
             THEN pending' = pending \ {m} /\ UNCHANGED downloads
             ELSE /\ downloads' = [downloads EXCEPT ![m] =
                       [downloads[m] EXCEPT ![Offer(m)] = downloads[m][Offer(m)] + 1]]
                  /\ UNCHANGED pending
      BY <1>1, <2>2, <1>t DEF AnswerRequest
    <3>2. ws' = NoMap
      BY <2>0, <3>1 DEF Listening
    <3>3. pending' \subseteq Maps /\ downloads' \in [Maps -> [Class -> Nat]]
      <4>1. CASE Offer(m) = "error"
        BY <3>1, <4>1, <1>t
      <4>2. CASE Offer(m) # "error"
        <5>1. Offer(m) \in Class
          BY <4>2 DEF Offer, Class
        <5>2. downloads[m] \in [Class -> Nat]
          BY <1>t
        <5>3. [downloads[m] EXCEPT ![Offer(m)] = downloads[m][Offer(m)] + 1]
                \in [Class -> Nat]
          BY <5>1, <5>2
        <5> QED BY <3>1, <4>2, <5>3, <1>t
      <4> QED BY <4>1, <4>2
    <3>4. requests' \in [Maps -> Nat]
      BY <2>0, <3>1, <1>a
    <3>5. OwesAnswer'
      BY <3>2 DEF OwesAnswer
    <3>6. FetchTypes'
      BY <2>0, <3>1, <3>3, <3>4, <1>t
    <3> QED BY <2>0, <3>5, <3>6, <1>t, <1>k, <1>s, <1>q
  <2> QED BY <2>1, <2>2
<1>2. ASSUME NEW m \in Maps, AnswerUnusable(m) PROVE FetchInv'
  <2>0. /\ UNCHANGED <<records, questions, client, incoming, level, info, failed, retries,
                       disk, orders, troubles, lost>>
        /\ Listening /\ requests[m] > 0 /\ Answered(m) /\ pending' = pending \ {m}
    BY <1>2 DEF AnswerUnusable
  <2>1. OwesAnswer'
    BY <2>0 DEF OwesAnswer, Listening
  <2>2. FetchTypes'
    BY <2>0, <1>t, <1>a
  <2> QED BY <2>0, <2>1, <2>2, <1>k, <1>s, <1>q
<1>13. ASSUME NEW m \in Maps, LoseRequest(m) PROVE FetchInv'
  <2>0. /\ UNCHANGED <<records, questions, client, incoming, level, info, fetching, disk,
                       orders, unusable>>
        /\ requests[m] > (IF ws = m THEN 1 ELSE 0) /\ Answered(m)
        /\ lost' = lost \cup {<<"request", m>>}
    BY <1>13 DEF LoseRequest
  <2>1. requests[m] > 0 /\ requests[m] \in Nat
    BY <2>0, <1>t
  <2>2. OwesAnswer'
    <3>1. requests' = [requests EXCEPT ![m] = requests[m] - 1]
      BY <2>0, <1>t DEF Answered
    <3>2. CASE ws = m
      <4>1. requests'[m] = requests[m] - 1 /\ requests[m] > 1
        BY <2>0, <3>1, <3>2, <1>t
      <4> QED BY <2>0, <2>1, <3>2, <4>1 DEF OwesAnswer
    <3>3. CASE ws # m
      BY <2>0, <3>1, <3>3, <1>t DEF OwesAnswer
    <3> QED BY <3>2, <3>3
  <2>3. lost' \subseteq Lossy \X (Maps \cup {NoMap})
    BY <2>0, <1>t DEF Lossy
  <2>4. requests' \in [Maps -> Nat]
    BY <2>0, <2>1, <1>a
  <2>5. FetchTypes'
    BY <2>0, <2>3, <2>4, <1>t
  <2> QED BY <2>0, <2>2, <2>5, <1>k, <1>s, <1>q
<1>3. ASSUME NEW m \in Maps, NEW c \in Class, DeleteRecord(m, c) PROVE FetchInv'
  <2>0. /\ UNCHANGED <<questions, requests, client, level, info, fetching, disk, orders,
                       unusable>>
        /\ records' = [records EXCEPT ![m] = records[m] \ {c}]
        /\ (lost' = lost \/ lost' = lost \cup {<<"deleted", m>>})
    BY <1>3 DEF DeleteRecord
  <2>5. lost' \subseteq Lossy \X (Maps \cup {NoMap})
    BY <2>0, <1>t DEF Lossy
  <2>1. QueueType'
    <3>1. CASE Room /\ incoming' = Append(incoming, [kind |-> "deleted", map |-> m, class |-> c])
      BY <3>1, <1>t, CallbackTyped, PushEffect
    <3> QED BY <1>3, <3>1, <1>k DEF DeleteRecord
  <2>2. records' \in [Maps -> SUBSET Class]
    <3>1. records \in [Maps -> SUBSET Class] /\ records[m] \ {c} \in SUBSET Class
      BY <1>t
    <3> QED BY <2>0, <3>1
  <2>3. OwesAnswer'
    BY <2>0, <1>t DEF OwesAnswer
  <2>4. FetchTypes'
    BY <2>0, <2>2, <2>5, <1>t
  <2> QED BY <2>0, <2>1, <2>3, <2>4, <1>s, <1>q
<1>4. ASSUME NEW m \in Maps, NEW c \in Class, EndDownload(m, c) PROVE FetchInv'
  <2>0. /\ UNCHANGED <<server, link, ws, level, info, fetching, disk, orders, unusable, lost>>
        /\ Downloaded(m, c) /\ Room
        /\ \E b \in BOOLEAN : incoming' = Append(incoming,
             [kind |-> "downloaded", map |-> m, class |-> c, ok |-> b])
    BY <1>4 DEF EndDownload
  <2>1. QueueType'
    BY <2>0, <1>t, CallbackTyped, PushEffect
  <2>2. FetchTypes'
    BY <2>0, <1>t, <1>d
  <2>3. OwesAnswer'
    BY <2>0, <1>t DEF OwesAnswer
  <2> QED BY <2>0, <2>1, <2>2, <2>3, <1>s, <1>q
<1>5. ASSUME NEW m \in Maps, NEW c \in Class, DropDownload(m, c) PROVE FetchInv'
  <2>0. /\ UNCHANGED <<server, link, ws, incoming, level, info, failed, disk, orders,
                       unusable, lost>>
        /\ Downloaded(m, c) /\ Schedule(m)
    BY <1>5 DEF DropDownload
  <2>1. FetchTypes'
    BY <2>0, <1>t, <1>d, ScheduleEffect
  <2>2. OwesAnswer'
    BY <2>0, <1>t DEF OwesAnswer
  <2> QED BY <2>0, <2>1, <2>2, <1>k, <1>s, <1>q
<1>6. ASSUME NEW m \in Maps, NEW c \in Class, Collide(m, c) PROVE FetchInv'
  <2>0. /\ UNCHANGED <<server, link, ws, level, info, fetching, disk, orders, unusable>>
        /\ Downloaded(m, c)
    BY <1>6 DEF Collide
  <2>1. QueueType' /\ lost' \subseteq Lossy \X (Maps \cup {NoMap})
    BY <1>6, <1>t, CollideEffect
  <2>2. FetchTypes'
    BY <2>0, <2>1, <1>t, <1>d
  <2>3. OwesAnswer'
    BY <2>0, <1>t DEF OwesAnswer
  <2> QED BY <2>0, <2>1, <2>2, <2>3, <1>s, <1>q
<1>7. CASE Connect
  BY <1>7, <1>t, <1>k, <1>s, <1>q DEF Connect, OwesAnswer
<1>8. CASE SendHello
  <2>1. questions' \subseteq Question
    BY <1>8, <1>t DEF SendHello, Question
  <2> QED BY <2>1, <1>8, <1>t, <1>k, <1>s, <1>q DEF SendHello, OwesAnswer
<1>9. CASE Disconnect
  <2>1. questions' \subseteq Question
    BY <1>9, <1>t DEF Disconnect
  <2> QED BY <2>1, <1>9, <1>t, <1>k, <1>s, <1>q DEF Disconnect, OwesAnswer
<1>10. CASE GiveUp
  <2>0. /\ UNCHANGED <<records, questions, link, downloads, incoming, level, info, retries,
                       disk, bounds>>
        /\ ws # NoMap /\ ws' = NoMap /\ failed' = failed \cup {ws}
        /\ pending' = pending \ {ws} /\ Answered(ws)
    BY <1>10 DEF GiveUp
  <2>1. ws \in Maps /\ requests[ws] > 0
    BY <2>0, <1>t DEF OwesAnswer
  <2>2. OwesAnswer'
    BY <2>0 DEF OwesAnswer
  <2>3. FetchTypes'
    BY <2>0, <2>1, <1>t, <1>a
  <2> QED BY <2>0, <2>2, <2>3, <1>k, <1>s, <1>q
<1>11. ASSUME NEW q \in questions, AnswerQuestion(q) PROVE FetchInv'
  <2>0. /\ UNCHANGED <<records, requests, client, level, info, fetching, disk, bounds>>
        /\ questions' = questions \ {q} /\ (q.map # NoMap => Room)
        /\ q \in Question
    BY <1>11, <1>t DEF AnswerQuestion
  <2>1. QueueType'
    <3>1. CASE q.map = NoMap
      BY <1>11, <3>1, <1>k DEF AnswerQuestion
    <3>2. CASE q.map # NoMap
      <4> DEFINE x == [kind |-> "info", map |-> q.map, pro |-> "pro" \in records[q.map]]
      <4>1. q.map \in Maps /\ incoming' = Append(incoming, x)
        BY <1>11, <2>0, <3>2 DEF AnswerQuestion, Question
      <4>2. x \in Callback
        <5>1. ("pro" \in records[q.map]) \in BOOLEAN
          OBVIOUS
        <5> QED BY <4>1, <5>1, CallbackTyped, Zenon
      <4>3. TypeOK /\ Room
        BY <1>t, <2>0, <3>2
      <4> HIDE DEF x
      <4> QED BY <4>1, <4>2, <4>3, PushEffect
    <3> QED BY <3>1, <3>2
  <2>2. FetchTypes'
    BY <2>0, <1>t
  <2>3. OwesAnswer'
    BY <2>0, <1>t DEF OwesAnswer
  <2> QED BY <2>0, <2>1, <2>2, <2>3, <1>s, <1>q
<1>14. ASSUME NEW q \in questions, DropAnswer(q) PROVE FetchInv'
  <2>0. /\ UNCHANGED <<records, requests, client, incoming, level, info, fetching, disk,
                       orders, unusable>>
        /\ questions' = questions \ {q} /\ lost' = lost \cup {<<"info", q.map>>}
        /\ q \in Question
    BY <1>14, <1>t DEF DropAnswer
  <2>1. lost' \subseteq Lossy \X (Maps \cup {NoMap})
    BY <2>0, <1>t DEF Lossy, Question
  <2>2. FetchTypes' /\ OwesAnswer'
    BY <2>0, <2>1, <1>t DEF OwesAnswer
  <2> QED BY <2>0, <2>2, <1>k, <1>s, <1>q
<1>12. CASE UNCHANGED vars
  BY <1>12, <1>t, <1>k, <1>s, <1>q DEF vars, OwesAnswer
<1> QED BY <1>1, <1>2, <1>3, <1>4, <1>5, <1>6, <1>7, <1>8, <1>9, <1>10, <1>11, <1>12,
           <1>13, <1>14

\* Every step keeps the invariant.
LEMMA FetchStep == FetchInv /\ [Next]_vars => FetchInv'
<1> SUFFICES ASSUME FetchInv, [Next]_vars PROVE FetchInv'
  OBVIOUS
<1>1. CASE \/ \E m \in Maps : LoadMap(m) \/ PluginFetch(m) \/ Retry(m)
           \/ Notify \/ NotifyRefused \/ Handle
  BY <1>1, GameStepTyped
<1>2. CASE \/ \E m \in Maps :
                \/ AnswerRequest(m) \/ AnswerUnusable(m) \/ LoseRequest(m)
                \/ \E c \in Class :
                     DeleteRecord(m, c) \/ EndDownload(m, c) \/ DropDownload(m, c)
                       \/ Collide(m, c)
           \/ Connect \/ SendHello \/ Disconnect \/ GiveUp
           \/ \E q \in questions : AnswerQuestion(q) \/ DropAnswer(q)
           \/ UNCHANGED vars
  BY <1>2, ClientStepTyped
<1> QED BY <1>1, <1>2 DEF Next

\* The start satisfies it.
LEMMA FetchStart == Init => FetchInv
<1> SUFFICES ASSUME Init PROVE FetchInv
  OBVIOUS
<1>1. \A S \in {Holdings, Stocks} : S \subseteq SUBSET Class
  BY ReplayFetchAssumption
<1>2. records \in [Maps -> SUBSET Class] /\ disk \in [Maps -> SUBSET Class]
  BY <1>1 DEF Init
<1>3. downloads \in [Maps -> [Class -> Nat]]
  BY DEF Init
<1>4. QueueType
  BY ReplayFetchAssumption DEF Init, QueueType
<1>5. FetchTypes
  <2>1. RetriesMax \in Nat
    BY ReplayFetchAssumption
  <2>2. /\ retries \in [Maps -> 0 .. RetriesMax + 1]
        /\ \A m \in Maps : retries[m] <= RetriesMax \/ retries[m] = 1
    BY <2>1 DEF Init
  <2>3. /\ questions \subseteq Question /\ requests \in [Maps -> Nat]
        /\ link \in {"down", "open", "up"}
        /\ {ws, map, loaded, header} \subseteq Maps \cup {NoMap}
        /\ stage \in {"frame", "notify"} /\ {known, proWR} \subseteq BOOLEAN
        /\ pending \subseteq Maps /\ failed \subseteq Maps
        /\ lost \subseteq Lossy \X (Maps \cup {NoMap})
    BY DEF Init
  <2> QED BY <1>2, <1>3, <2>2, <2>3 DEF FetchTypes
<1>6. SameMap /\ OwesAnswer
  BY DEF Init, SameMap, OwesAnswer
<1> QED BY <1>4, <1>5, <1>6, TypesSplit DEF FetchInv

\* The invariant holds.
LEMMA FetchInvHolds == Spec => []FetchInv
  BY FetchStart, FetchStep, PTL DEF Spec

(***************************************************************************)
(* The retries of a map never pass kz_api_retries_max, the queue of        *)
(* callbacks never overflows, and no answer is counted that nobody asked   *)
(* for.                                                                    *)
(***************************************************************************)
THEOREM FetchTypeCorrect == Spec => []TypeOK
<1>1. FetchInv => TypeOK
  BY DEF FetchInv
<1> QED BY <1>1, FetchInvHolds, PTL

-----------------------------------------------------------------------------
(***************************************************************************)
(* A mark has a cause.                                                     *)
(***************************************************************************)
Cause(m) ==
  \/ requests[m] > 0
  \/ \E c \in Class : downloads[m][c] > 0
  \/ Waits(incoming, "downloaded", m)
  \/ {<<"downloaded", m>>, <<"request", m>>} \cap lost # {}

\* The property, in the words of the proof.
LEMMA CausesOfMarks == PendingHasCause <=> \A m \in pending : Cause(m)
  BY DEF PendingHasCause, Cause, CallbackFor, Waits

\* What a step does to the cause of the mark of n, when it is no business of
\* the step.
Leaves(n) ==
  /\ requests[n] > 0 => requests'[n] > 0
  /\ downloads'[n] = downloads[n]
  /\ Waits(incoming, "downloaded", n) => Waits(incoming', "downloaded", n)
  /\ \A kind \in {"downloaded", "request"} : <<kind, n>> \in lost => <<kind, n>> \in lost'

\* The cause of a mark survives a step whose business it is not.
LEMMA CauseKept == ASSUME NEW n, Cause(n), Leaves(n) PROVE Cause(n)'
  BY DEF Cause, Leaves

\* A step of the game thread leaves every mark its cause.
LEMMA GameStepCause ==
  ASSUME TypeOK, PendingHasCause,
         \/ \E m \in Maps : LoadMap(m) \/ PluginFetch(m) \/ Retry(m)
         \/ Notify \/ NotifyRefused \/ Handle
  PROVE  \A m \in pending' : Cause(m)'
<1> USE DEF server, client, level, info, fetching, bounds
<1>t. /\ incoming \in Seq(Callback) /\ pending \subseteq Maps
      /\ \A m \in pending : Cause(m)
  BY CausesOfMarks DEF TypeOK
<1>f. ASSUME NEW m \in Maps, TryFetch(m), UNCHANGED <<downloads, lost>>,
             \A n : Waits(incoming, "downloaded", n) => Waits(incoming', "downloaded", n)
      PROVE  \A n \in pending' : Cause(n)'
  <2>1. SUFFICES ASSUME NEW n \in pending' PROVE Cause(n)'
    OBVIOUS
  <2>2. /\ n \in Maps /\ requests'[n] >= requests[n] /\ requests[n] \in Nat
        /\ requests'[n] \in Nat
        /\ n \in pending \/ requests'[n] > 0
    BY <1>f, TryFetchEffect
  <2>3. CASE requests'[n] > 0
    BY <2>3 DEF Cause
  <2>4. CASE n \in pending
    <3>1. Leaves(n)
      BY <1>f, <2>2 DEF Leaves
    <3> QED BY <1>t, <2>4, <3>1, CauseKept
  <2> QED BY <2>2, <2>3, <2>4
<1>s. ASSUME UNCHANGED <<requests, downloads, lost>>, pending' \subseteq pending,
             \A n \in pending' :
               Waits(incoming, "downloaded", n) => Waits(incoming', "downloaded", n)
      PROVE  \A n \in pending' : Cause(n)'
  <2>1. \A n \in pending' : Cause(n) /\ Leaves(n)
    BY <1>t, <1>s DEF Leaves
  <2> QED BY <2>1, CauseKept
<1>p. ASSUME NEW kind, NextCallback(kind)
      PROVE  /\ Head(incoming) \in Callback /\ Head(incoming).kind = kind
             /\ \A n : \/ Waits(incoming, "downloaded", n)
                            => Waits(incoming', "downloaded", n)
                       \/ kind = "downloaded" /\ n = Head(incoming).map
  <2>1. incoming # <<>> /\ incoming' = Tail(incoming) /\ Head(incoming).kind = kind
    BY <1>p DEF NextCallback
  <2> QED BY <2>1, <1>t, PopWaits
<1>1. ASSUME NEW m \in Maps, LoadMap(m) PROVE \A n \in pending' : Cause(n)'
  <2>1. UNCHANGED <<requests, downloads, incoming>>
    BY <1>1 DEF LoadMap
  <2>2. CASE m = loaded
    BY <1>1, <2>1, <2>2, <1>s DEF LoadMap
  <2>3. CASE m # loaded
    <3>1. /\ pending' = pending \cap {m}
          /\ lost' = lost \cap {<<"downloaded", m>>, <<"request", m>>}
      BY <1>1, <2>3 DEF LoadMap
    <3>2. \A n \in pending' : Cause(n) /\ Leaves(n)
      BY <1>t, <2>1, <3>1 DEF Leaves
    <3> QED BY <3>2, CauseKept
  <2> QED BY <2>2, <2>3
<1>2. ASSUME NEW m \in Maps, PluginFetch(m) PROVE \A n \in pending' : Cause(n)'
  BY <1>2, <1>f DEF PluginFetch
<1>3. ASSUME NEW m \in Maps, Retry(m) PROVE \A n \in pending' : Cause(n)'
  <2>1. UNCHANGED <<downloads, lost, incoming>>
    BY <1>3 DEF Retry
  <2>2. CASE m # map \/ Sufficient(m)
    BY <1>3, <2>1, <2>2, <1>s DEF Retry
  <2>3. CASE ~ (m # map \/ Sufficient(m))
    <3>1. TryFetch(m)
      BY <1>3, <2>3 DEF Retry
    <3> QED BY <3>1, <2>1, <1>f
  <2> QED BY <2>2, <2>3
<1>4. CASE Notify
  BY <1>4, <1>s DEF Notify
<1>9. CASE NotifyRefused
  <2>1. UNCHANGED <<requests, downloads, pending, incoming>> /\ lost \subseteq lost'
    BY <1>9 DEF NotifyRefused
  <2>2. \A n \in pending' : Cause(n) /\ Leaves(n)
    BY <2>1, <1>t DEF Leaves
  <2> QED BY <2>2, CauseKept
<1>m. ASSUME NEW kind, NextCallback(kind), TypeOK PROVE Head(incoming).map \in Maps
  BY <1>m, <1>p, CallbackTyped
<1>5. CASE HandleInfo
  <2>1. NextCallback("info") /\ UNCHANGED <<downloads, lost>>
    BY <1>5 DEF HandleInfo
  <2>2. \A n : Waits(incoming, "downloaded", n) => Waits(incoming', "downloaded", n)
    BY <2>1, <1>p
  <2>3. CASE Head(incoming).map = map
    <3>1. TryFetch(map) /\ map \in Maps
      BY <1>5, <2>1, <2>3, <1>m DEF HandleInfo
    <3> QED BY <3>1, <2>1, <2>2, <1>f
  <2>4. CASE Head(incoming).map # map
    BY <1>5, <2>1, <2>2, <2>4, <1>s DEF HandleInfo
  <2> QED BY <2>3, <2>4
<1>6. CASE HandleFailure
  <2>1. /\ NextCallback("downloaded") /\ UNCHANGED <<requests, downloads, lost>>
        /\ Schedule(Head(incoming).map)
    BY <1>6 DEF HandleFailure
  <2>2. pending' = pending \ {Head(incoming).map}
    BY <2>1 DEF Schedule
  <2> QED BY <2>1, <2>2, <1>p, <1>s
<1>7. CASE HandleReplay
  <2>1. /\ NextCallback("downloaded") /\ UNCHANGED <<requests, downloads, lost>>
        /\ pending' = pending \ {Head(incoming).map}
    BY <1>7 DEF HandleReplay
  <2> QED BY <2>1, <1>p, <1>s
<1>8. CASE HandleDeletion
  <2>1. NextCallback("deleted") /\ UNCHANGED <<downloads, lost>>
    BY <1>8 DEF HandleDeletion
  <2>2. \A n : Waits(incoming, "downloaded", n) => Waits(incoming', "downloaded", n)
    BY <2>1, <1>p
  <2>3. CASE Head(incoming).map = map
    <3>1. TryFetch(map) /\ map \in Maps
      BY <1>8, <2>1, <2>3, <1>m DEF HandleDeletion
    <3> QED BY <3>1, <2>1, <2>2, <1>f
  <2>4. CASE Head(incoming).map # map
    BY <1>8, <2>1, <2>2, <2>4, <1>s DEF HandleDeletion
  <2> QED BY <2>3, <2>4
<1> QED BY <1>1, <1>2, <1>3, <1>4, <1>5, <1>6, <1>7, <1>8, <1>9 DEF Handle

\* A step of the client's thread or of a download leaves every mark its cause.
LEMMA ClientStepCause ==
  ASSUME FetchInv, PendingHasCause,
         \/ \E m \in Maps :
              \/ AnswerRequest(m) \/ AnswerUnusable(m) \/ LoseRequest(m)
              \/ \E c \in Class :
                   DeleteRecord(m, c) \/ EndDownload(m, c) \/ DropDownload(m, c)
                     \/ Collide(m, c)
         \/ Connect \/ SendHello \/ Disconnect \/ GiveUp
         \/ \E q \in questions : AnswerQuestion(q) \/ DropAnswer(q)
         \/ UNCHANGED vars
  PROVE  \A m \in pending' : Cause(m)'
<1> USE DEF server, client, level, info, fetching, bounds
<1>t. /\ TypeOK /\ OwesAnswer
      /\ pending \subseteq Maps
      /\ requests \in [Maps -> Nat]
      /\ downloads \in [Maps -> [Class -> Nat]]
      /\ \A m \in pending : Cause(m)
  BY CausesOfMarks DEF FetchInv, TypeOK
<1>o. ASSUME NEW m \in Maps, pending' \subseteq pending,
             m \in pending' => Cause(m)',
             \A n \in Maps : n # m => Leaves(n)
      PROVE  \A n \in pending' : Cause(n)'
  <2>1. ASSUME NEW n \in pending', n # m PROVE Cause(n)'
    <3>1. Cause(n) /\ Leaves(n)
      BY <1>t, <1>o, <2>1
    <3> QED BY <3>1, CauseKept
  <2> QED BY <2>1, <1>o
<1>s. ASSUME pending' \subseteq pending, \A n \in Maps : Leaves(n)
      PROVE  \A n \in pending' : Cause(n)'
  <2>1. \A n \in pending' : Cause(n) /\ Leaves(n)
    BY <1>s, <1>t
  <2> QED BY <2>1, CauseKept
<1>a. ASSUME NEW m \in Maps, Answered(m)
      PROVE  \A n \in Maps : n # m => requests'[n] = requests[n]
  BY <1>a, <1>t DEF Answered
<1>d. ASSUME NEW m \in Maps, NEW c \in Class, Downloaded(m, c)
      PROVE  \A n \in Maps : n # m => downloads'[n] = downloads[n]
  <2>1. downloads' = [downloads EXCEPT ![m] = [downloads[m] EXCEPT ![c] = downloads[m][c] - 1]]
    BY <1>d, <1>t DEF Downloaded
  <2> QED BY <2>1, <1>t
<1>1. ASSUME NEW m \in Maps, AnswerRequest(m) PROVE \A n \in pending' : Cause(n)'
  <2>0. UNCHANGED <<incoming, lost>>
    BY <1>1 DEF AnswerRequest
  <2>1. CASE Disappoints(m)
    BY <1>1, <2>0, <2>1, <1>s DEF AnswerRequest, Leaves
  <2>2. CASE ~Disappoints(m) /\ Offer(m) = "error"
    <3>1. Answered(m) /\ pending' = pending \ {m} /\ UNCHANGED downloads
      BY <1>1, <2>2 DEF AnswerRequest
    <3>2. \A n \in Maps : n # m => Leaves(n)
      BY <3>1, <2>0, <1>a DEF Leaves
    <3> QED BY <3>1, <3>2, <1>o
  <2>3. CASE ~Disappoints(m) /\ Offer(m) # "error"
    <3> DEFINE c == Offer(m)
    <3>1. c \in Class
      BY <2>3 DEF Offer, Class
    <3>2. /\ Answered(m) /\ UNCHANGED pending
          /\ downloads' = [downloads EXCEPT ![m] =
                             [downloads[m] EXCEPT ![c] = downloads[m][c] + 1]]
      BY <1>1, <2>3, <1>t DEF AnswerRequest
    <3> HIDE DEF c
    <3>3. downloads[m] \in [Class -> Nat]
      BY <1>t
    <3>4. downloads'[m][c] = downloads[m][c] + 1 /\ downloads[m][c] \in Nat
      BY <3>1, <3>2, <3>3, <1>t
    <3>5. Cause(m)'
      BY <3>1, <3>4 DEF Cause
    <3>6. \A n \in Maps : n # m => Leaves(n)
      BY <3>2, <2>0, <1>a, <1>t DEF Leaves
    <3> QED BY <3>2, <3>5, <3>6, <1>o
  <2> QED BY <2>1, <2>2, <2>3
<1>2. ASSUME NEW m \in Maps, AnswerUnusable(m) PROVE \A n \in pending' : Cause(n)'
  <2>1. /\ UNCHANGED <<downloads, incoming, lost>>
        /\ Answered(m) /\ pending' = pending \ {m}
    BY <1>2 DEF AnswerUnusable
  <2>2. \A n \in Maps : n # m => Leaves(n)
    BY <2>1, <1>a DEF Leaves
  <2> QED BY <2>1, <2>2, <1>o
<1>13. ASSUME NEW m \in Maps, LoseRequest(m) PROVE \A n \in pending' : Cause(n)'
  <2>1. /\ UNCHANGED <<downloads, incoming, pending>>
        /\ Answered(m) /\ lost' = lost \cup {<<"request", m>>}
    BY <1>13 DEF LoseRequest
  <2>2. \A n \in Maps : n # m => Leaves(n)
    BY <2>1, <1>a DEF Leaves
  <2>3. Cause(m)'
    BY <2>1 DEF Cause
  <2> QED BY <2>1, <2>2, <2>3, <1>o
<1>3. ASSUME NEW m \in Maps, NEW c \in Class, DeleteRecord(m, c)
      PROVE \A n \in pending' : Cause(n)'
  <2> DEFINE x == [kind |-> "deleted", map |-> m, class |-> c]
  <2>1. UNCHANGED <<requests, downloads, pending>> /\ lost \subseteq lost'
    BY <1>3 DEF DeleteRecord
  <2>2. (Room /\ incoming' = Append(incoming, x)) \/ UNCHANGED incoming
    BY <1>3 DEF DeleteRecord
  <2>3. x \in Callback
    BY CallbackTyped
  <2> HIDE DEF x
  <2>4. \A n : Waits(incoming, "downloaded", n) => Waits(incoming', "downloaded", n)
    BY <2>2, <2>3, <1>t, PushEffect
  <2> QED BY <2>1, <2>4, <1>s DEF Leaves
<1>4. ASSUME NEW m \in Maps, NEW c \in Class, EndDownload(m, c)
      PROVE \A n \in pending' : Cause(n)'
  <2>1. /\ UNCHANGED <<requests, lost, pending>> /\ Downloaded(m, c) /\ Room
        /\ \E b \in BOOLEAN : incoming' = Append(incoming,
             [kind |-> "downloaded", map |-> m, class |-> c, ok |-> b])
    BY <1>4 DEF EndDownload
  <2>2. PICK x \in Callback : /\ incoming' = Append(incoming, x)
                              /\ x.kind = "downloaded" /\ x.map = m
    BY <2>1, CallbackTyped
  <2>3. \A n : Waits(incoming', "downloaded", n) <=> Waits(incoming, "downloaded", n) \/ n = m
    BY <2>1, <2>2, <1>t, PushEffect
  <2>4. Cause(m)'
    BY <2>3 DEF Cause
  <2>5. \A n \in Maps : n # m => Leaves(n)
    BY <2>1, <2>3, <1>d DEF Leaves
  <2> QED BY <2>1, <2>4, <2>5, <1>o
<1>5. ASSUME NEW m \in Maps, NEW c \in Class, DropDownload(m, c)
      PROVE \A n \in pending' : Cause(n)'
  <2>1. /\ UNCHANGED <<requests, lost, incoming>> /\ Downloaded(m, c)
        /\ pending' = pending \ {m}
    BY <1>5 DEF DropDownload, Schedule
  <2>2. \A n \in Maps : n # m => Leaves(n)
    BY <2>1, <1>d DEF Leaves
  <2> QED BY <2>1, <2>2, <1>o
<1>6. ASSUME NEW m \in Maps, NEW c \in Class, Collide(m, c)
      PROVE \A n \in pending' : Cause(n)'
  <2>1. UNCHANGED <<requests, pending>> /\ Downloaded(m, c)
    BY <1>6 DEF Collide
  <2>2. /\ lost \subseteq lost'
        /\ \A n : Waits(incoming, "downloaded", n) =>
                    Waits(incoming', "downloaded", n) \/ <<"downloaded", n>> \in lost'
        /\ Waits(incoming', "downloaded", m) \/ <<"downloaded", m>> \in lost'
    BY <1>6, <1>t, CollideEffect
  <2>3. Cause(m)'
    BY <2>2 DEF Cause
  <2>4. ASSUME NEW n \in pending', n # m PROVE Cause(n)'
    BY <2>1, <2>2, <2>4, <1>d, <1>t DEF Cause
  <2> QED BY <2>3, <2>4
<1>7. CASE Connect
  BY <1>7, <1>s DEF Connect, Leaves
<1>8. CASE SendHello
  <2>1. /\ UNCHANGED <<requests, downloads, pending, incoming>>
        /\ lost' = lost \ {<<"info", header>>}
    BY <1>8 DEF SendHello
  <2> QED BY <2>1, <1>s DEF Leaves
<1>9. CASE Disconnect
  BY <1>9, <1>s DEF Disconnect, Leaves
<1>10. CASE GiveUp
  <2>1. /\ UNCHANGED <<downloads, incoming, lost>>
        /\ ws # NoMap /\ Answered(ws) /\ pending' = pending \ {ws}
    BY <1>10 DEF GiveUp
  <2>2. ws \in Maps
    BY <2>1, <1>t DEF TypeOK
  <2>3. \A n \in Maps : n # ws => Leaves(n)
    BY <2>1, <2>2, <1>a DEF Leaves
  <2> QED BY <2>1, <2>2, <2>3, <1>o
<1>11. ASSUME NEW q \in questions, AnswerQuestion(q) PROVE \A n \in pending' : Cause(n)'
  <2>1. UNCHANGED <<requests, downloads, pending, lost>>
    BY <1>11 DEF AnswerQuestion
  <2>2. \A n : Waits(incoming, "downloaded", n) => Waits(incoming', "downloaded", n)
    <3>1. CASE q.map = NoMap
      BY <1>11, <3>1 DEF AnswerQuestion
    <3>2. CASE q.map # NoMap
      <4> DEFINE x == [kind |-> "info", map |-> q.map, pro |-> "pro" \in records[q.map]]
      <4>1. q \in Question /\ Room /\ incoming' = Append(incoming, x)
        BY <1>11, <1>t, <3>2 DEF AnswerQuestion, TypeOK
      <4>2. x \in Callback
        <5>1. ("pro" \in records[q.map]) \in BOOLEAN /\ q.map \in Maps
          BY <3>2, <4>1 DEF Question
        <5> QED BY <5>1, CallbackTyped, Zenon
      <4> HIDE DEF x
      <4> QED BY <4>1, <4>2, <1>t, PushEffect
    <3> QED BY <3>1, <3>2
  <2> QED BY <2>1, <2>2, <1>s DEF Leaves
<1>14. ASSUME NEW q \in questions, DropAnswer(q) PROVE \A n \in pending' : Cause(n)'
  <2>1. UNCHANGED <<requests, downloads, pending, incoming>> /\ lost \subseteq lost'
    BY <1>14 DEF DropAnswer
  <2> QED BY <2>1, <1>s DEF Leaves
<1>12. CASE UNCHANGED vars
  BY <1>12, <1>s DEF vars, Leaves
<1> QED BY <1>1, <1>2, <1>3, <1>4, <1>5, <1>6, <1>7, <1>8, <1>9, <1>10, <1>11, <1>12,
           <1>13, <1>14

(***************************************************************************)
(* A map stays marked as being fetched only while a request, a download or *)
(* a callback that will unmark it is under way (or was lost, in a push or  *)
(* for want of a row in the outbox):                                       *)
(* whatever fails, kz_ws_try_fetch_replay can ask for the map again.       *)
(***************************************************************************)
THEOREM MarksHaveACause == Spec => []PendingHasCause
<1>1. Init => PendingHasCause
  BY DEF Init, PendingHasCause
<1>2. FetchInv /\ PendingHasCause /\ [Next]_vars => PendingHasCause'
  <2> SUFFICES ASSUME FetchInv, PendingHasCause, [Next]_vars PROVE PendingHasCause'
    OBVIOUS
  <2>t. TypeOK
    BY DEF FetchInv
  <2>1. CASE \/ \E m \in Maps : LoadMap(m) \/ PluginFetch(m) \/ Retry(m)
             \/ Notify \/ NotifyRefused \/ Handle
    BY <2>1, <2>t, GameStepCause DEF PendingHasCause, Cause, CallbackFor, Waits
  <2>2. CASE \/ \E m \in Maps :
                  \/ AnswerRequest(m) \/ AnswerUnusable(m) \/ LoseRequest(m)
                  \/ \E c \in Class :
                       DeleteRecord(m, c) \/ EndDownload(m, c) \/ DropDownload(m, c)
                         \/ Collide(m, c)
             \/ Connect \/ SendHello \/ Disconnect \/ GiveUp
             \/ \E q \in questions : AnswerQuestion(q) \/ DropAnswer(q)
             \/ UNCHANGED vars
    BY <2>2, ClientStepCause DEF PendingHasCause, Cause, CallbackFor, Waits
  <2> QED BY <2>1, <2>2 DEF Next
<1> QED BY <1>1, <1>2, FetchInvHolds, PTL DEF Spec

-----------------------------------------------------------------------------
(***************************************************************************)
(* The record of the map being played becomes known.                       *)
(***************************************************************************)
Coming(m) ==
  \/ \E q \in questions : q.map = m
  \/ Waits(incoming, "info", m)
  \/ <<"info", m>> \in lost

\* The server is connected and does not know the record of its map.
Ignorant == link = "up" /\ stage = "frame" /\ map # NoMap /\ ~known

\* The property, in the words of the proof.
LEMMA ComingInfo == InfoIsComing <=> (Ignorant => Coming(map))
  BY DEF InfoIsComing, Ignorant, Coming, CallbackFor, Waits

\* A step of the game thread leaves an ignorant server its answer.
LEMMA GameStepInfo ==
  ASSUME FetchInv, InfoIsComing,
         \/ \E m \in Maps : LoadMap(m) \/ PluginFetch(m) \/ Retry(m)
         \/ Notify \/ NotifyRefused \/ Handle
  PROVE  Ignorant' => Coming(map)'
<1> USE DEF server, client, level, info, fetching, bounds
<1>t. /\ incoming \in Seq(Callback)
      /\ SameMap
      /\ Ignorant => Coming(map)
  BY ComingInfo DEF FetchInv, TypeOK
<1>k. ASSUME UNCHANGED <<link, stage, map, known, questions, incoming, lost>>
      PROVE  Ignorant' => Coming(map)'
  BY <1>k, <1>t DEF Ignorant, Coming, Waits
<1>p. ASSUME NEW kind, NextCallback(kind),
             UNCHANGED <<link, stage, map, known, questions, lost>>,
             ~ (kind = "info" /\ Head(incoming).map = map)
      PROVE  Ignorant' => Coming(map)'
  <2>1. incoming # <<>> /\ incoming' = Tail(incoming) /\ Head(incoming).kind = kind
    BY <1>p DEF NextCallback
  <2>2. Waits(incoming, "info", map) => Waits(incoming', "info", map)
    BY <2>1, <1>t, <1>p, PopWaits
  <2> QED BY <1>p, <1>t, <2>2 DEF Ignorant, Coming
<1>1. ASSUME NEW m \in Maps, LoadMap(m) PROVE Ignorant' => Coming(map)'
  <2>1. CASE m = loaded
    <3>1. UNCHANGED <<link, stage, map, known, questions, incoming, lost>>
      BY <1>1, <1>t, <2>1 DEF LoadMap, SameMap
    <3> QED BY <3>1, <1>k
  <2>2. CASE m # loaded
    BY <1>1, <2>2 DEF LoadMap, Ignorant
  <2> QED BY <2>1, <2>2
<1>2. ASSUME NEW m \in Maps, PluginFetch(m) PROVE Ignorant' => Coming(map)'
  <2>1. UNCHANGED <<link, stage, map, known, questions, incoming, lost>>
    BY <1>2 DEF PluginFetch
  <2> QED BY <2>1, <1>k
<1>3. ASSUME NEW m \in Maps, Retry(m) PROVE Ignorant' => Coming(map)'
  <2>1. UNCHANGED <<link, stage, map, known, questions, incoming, lost>>
    BY <1>3 DEF Retry
  <2> QED BY <2>1, <1>k
<1>4. CASE Notify
  <2>1. /\ UNCHANGED <<link, map, header>>
        /\ questions' = IF Connected
                        THEN questions \cup {[msg |-> "MAP_CHANGE", map |-> header]}
                        ELSE questions
    BY <1>4 DEF Notify
  <2>2. CASE Connected
    <3>1. [msg |-> "MAP_CHANGE", map |-> header] \in questions'
      BY <2>1, <2>2
    <3>2. [msg |-> "MAP_CHANGE", map |-> header].map = map'
      BY <2>1, <1>t DEF SameMap
    <3> QED BY <3>1, <3>2 DEF Coming
  <2>3. CASE ~Connected
    BY <2>1, <2>3 DEF Connected, Ignorant
  <2> QED BY <2>2, <2>3
<1>9. CASE NotifyRefused
  <2>1. UNCHANGED <<map, header>> /\ <<"info", header>> \in lost'
    BY <1>9 DEF NotifyRefused
  <2> QED BY <2>1, <1>t DEF SameMap, Coming
<1>5. CASE HandleInfo
  <2>1. /\ NextCallback("info")
        /\ UNCHANGED <<link, stage, map, questions, lost>>
    BY <1>5 DEF HandleInfo
  <2>2. CASE Head(incoming).map = map
    BY <1>5, <2>2 DEF HandleInfo, Ignorant
  <2>3. CASE Head(incoming).map # map
    <3>1. UNCHANGED known
      BY <1>5, <2>3 DEF HandleInfo
    <3> QED BY <2>1, <2>3, <3>1, <1>p
  <2> QED BY <2>2, <2>3
<1>6. CASE HandleFailure
  <2>1. /\ NextCallback("downloaded")
        /\ UNCHANGED <<link, stage, map, known, questions, lost>>
    BY <1>6 DEF HandleFailure
  <2> QED BY <2>1, <1>p
<1>7. CASE HandleReplay
  <2>1. /\ NextCallback("downloaded")
        /\ UNCHANGED <<link, stage, map, known, questions, lost>>
    BY <1>7 DEF HandleReplay
  <2> QED BY <2>1, <1>p
<1>8. CASE HandleDeletion
  <2>1. /\ NextCallback("deleted")
        /\ UNCHANGED <<link, stage, map, known, questions, lost>>
    BY <1>8 DEF HandleDeletion
  <2> QED BY <2>1, <1>p
<1> QED BY <1>1, <1>2, <1>3, <1>4, <1>5, <1>6, <1>7, <1>8, <1>9 DEF Handle

\* A step of the client's thread or of a download leaves it, too.
LEMMA ClientStepInfo ==
  ASSUME FetchInv, InfoIsComing,
         \/ \E m \in Maps :
              \/ AnswerRequest(m) \/ AnswerUnusable(m) \/ LoseRequest(m)
              \/ \E c \in Class :
                   DeleteRecord(m, c) \/ EndDownload(m, c) \/ DropDownload(m, c)
                     \/ Collide(m, c)
         \/ Connect \/ SendHello \/ Disconnect \/ GiveUp
         \/ \E q \in questions : AnswerQuestion(q) \/ DropAnswer(q)
         \/ UNCHANGED vars
  PROVE  Ignorant' => Coming(map)'
<1> USE DEF server, client, level, info, fetching, bounds
<1>t. /\ TypeOK /\ SameMap
      /\ Ignorant => Coming(map)
  BY ComingInfo DEF FetchInv
<1>k. ASSUME UNCHANGED <<link, stage, map, known, questions>>,
             lost \subseteq lost',
             Waits(incoming, "info", map) =>
               Waits(incoming', "info", map) \/ <<"info", map>> \in lost'
      PROVE  Ignorant' => Coming(map)'
  BY <1>k, <1>t DEF Ignorant, Coming
<1>1. ASSUME NEW m \in Maps, AnswerRequest(m) PROVE Ignorant' => Coming(map)'
  <2>1. UNCHANGED <<link, stage, map, known, questions, incoming, lost>>
    BY <1>1 DEF AnswerRequest
  <2> QED BY <2>1, <1>k
<1>2. ASSUME NEW m \in Maps, AnswerUnusable(m) PROVE Ignorant' => Coming(map)'
  <2>1. UNCHANGED <<link, stage, map, known, questions, incoming, lost>>
    BY <1>2 DEF AnswerUnusable
  <2> QED BY <2>1, <1>k
<1>13. ASSUME NEW m \in Maps, LoseRequest(m) PROVE Ignorant' => Coming(map)'
  <2>1. UNCHANGED <<link, stage, map, known, questions, incoming>> /\ lost \subseteq lost'
    BY <1>13 DEF LoseRequest
  <2> QED BY <2>1, <1>k
<1>3. ASSUME NEW m \in Maps, NEW c \in Class, DeleteRecord(m, c)
      PROVE Ignorant' => Coming(map)'
  <2> DEFINE x == [kind |-> "deleted", map |-> m, class |-> c]
  <2>1. UNCHANGED <<link, stage, map, known, questions>> /\ lost \subseteq lost'
    BY <1>3 DEF DeleteRecord
  <2>2. (Room /\ incoming' = Append(incoming, x)) \/ UNCHANGED incoming
    BY <1>3 DEF DeleteRecord
  <2>3. x \in Callback
    BY CallbackTyped
  <2> HIDE DEF x
  <2>4. \A n : Waits(incoming, "info", n) => Waits(incoming', "info", n)
    BY <2>2, <2>3, <1>t, PushEffect
  <2> QED BY <2>1, <2>4, <1>k
<1>4. ASSUME NEW m \in Maps, NEW c \in Class, EndDownload(m, c)
      PROVE Ignorant' => Coming(map)'
  <2>1. /\ UNCHANGED <<link, stage, map, known, questions, lost>> /\ Room
        /\ \E b \in BOOLEAN : incoming' = Append(incoming,
             [kind |-> "downloaded", map |-> m, class |-> c, ok |-> b])
    BY <1>4 DEF EndDownload
  <2>2. PICK x \in Callback : incoming' = Append(incoming, x)
    BY <2>1, CallbackTyped
  <2>3. \A n : Waits(incoming, "info", n) => Waits(incoming', "info", n)
    BY <2>1, <2>2, <1>t, PushEffect
  <2> QED BY <2>1, <2>3, <1>k
<1>5. ASSUME NEW m \in Maps, NEW c \in Class, DropDownload(m, c)
      PROVE Ignorant' => Coming(map)'
  <2>1. UNCHANGED <<link, stage, map, known, questions, incoming, lost>>
    BY <1>5 DEF DropDownload
  <2> QED BY <2>1, <1>k
<1>6. ASSUME NEW m \in Maps, NEW c \in Class, Collide(m, c)
      PROVE Ignorant' => Coming(map)'
  <2>1. UNCHANGED <<link, stage, map, known, questions>>
    BY <1>6 DEF Collide
  <2>2. /\ lost \subseteq lost'
        /\ \A n : Waits(incoming, "info", n) =>
                    Waits(incoming', "info", n) \/ <<"info", n>> \in lost'
    BY <1>6, <1>t, CollideEffect
  <2> QED BY <2>1, <2>2, <1>k
<1>7. CASE Connect
  BY <1>7 DEF Connect, Ignorant
<1>8. CASE SendHello
  <2>1. /\ UNCHANGED <<map, header>>
        /\ [msg |-> "HELLO", map |-> header] \in questions'
    BY <1>8 DEF SendHello
  <2>2. [msg |-> "HELLO", map |-> header].map = map'
    BY <2>1, <1>t DEF SameMap
  <2> QED BY <2>1, <2>2 DEF Coming
<1>9. CASE Disconnect
  BY <1>9 DEF Disconnect, Ignorant
<1>10. CASE GiveUp
  <2>1. UNCHANGED <<link, stage, map, known, questions, incoming, lost>>
    BY <1>10 DEF GiveUp
  <2> QED BY <2>1, <1>k
<1>11. ASSUME NEW q \in questions, AnswerQuestion(q) PROVE Ignorant' => Coming(map)'
  <2>1. /\ UNCHANGED <<link, stage, map, known, lost>>
        /\ questions' = questions \ {q}
    BY <1>11 DEF AnswerQuestion
  <2>2. q \in Question
    BY <1>11, <1>t DEF TypeOK
  <2>3. CASE q.map = NoMap
    <3>1. UNCHANGED incoming
      BY <1>11, <2>3 DEF AnswerQuestion
    <3>2. map # NoMap /\ Coming(map) => Coming(map)'
      BY <2>1, <2>3, <3>1 DEF Coming
    <3> QED BY <2>1, <3>2, <1>t DEF Ignorant
  <2>4. CASE q.map # NoMap
    <3> DEFINE x == [kind |-> "info", map |-> q.map, pro |-> "pro" \in records[q.map]]
    <3>1. Room /\ incoming' = Append(incoming, x)
      BY <1>11, <2>4 DEF AnswerQuestion
    <3>2. x \in Callback
      <4>1. ("pro" \in records[q.map]) \in BOOLEAN /\ q.map \in Maps
        BY <2>2, <2>4 DEF Question
      <4> QED BY <4>1, CallbackTyped, Zenon
    <3>3. x.kind = "info" /\ x.map = q.map
      OBVIOUS
    <3> HIDE DEF x
    <3>4. \A n : Waits(incoming', "info", n) <=> Waits(incoming, "info", n) \/ q.map = n
      BY <3>1, <3>2, <3>3, <1>t, PushEffect
    <3>5. Coming(map) => Coming(map)'
      BY <2>1, <3>4 DEF Coming
    <3> QED BY <2>1, <3>5, <1>t DEF Ignorant
  <2> QED BY <2>3, <2>4
<1>14. ASSUME NEW q \in questions, DropAnswer(q) PROVE Ignorant' => Coming(map)'
  <2>1. /\ UNCHANGED <<link, stage, map, known, incoming>>
        /\ questions' = questions \ {q} /\ lost' = lost \cup {<<"info", q.map>>}
    BY <1>14 DEF DropAnswer
  <2>2. Coming(map) => Coming(map)'
    BY <2>1 DEF Coming
  <2> QED BY <2>1, <2>2, <1>t DEF Ignorant
<1>12. CASE UNCHANGED vars
  BY <1>12, <1>k DEF vars
<1> QED BY <1>1, <1>2, <1>3, <1>4, <1>5, <1>6, <1>7, <1>8, <1>9, <1>10, <1>11, <1>12,
           <1>13, <1>14

(***************************************************************************)
(* A connected server that does not know the record of its map is about to *)
(* hear of it: of the map load, which stores the header and then looks at  *)
(* the connection, and the client's thread, which stores the connection    *)
(* and then reads the header, one sees the other's store.  Nothing but a   *)
(* full queue or two pushes into one place, since the map was loaded and   *)
(* the last HELLO sent, can keep the answer from it.                       *)
(***************************************************************************)
THEOREM TheRecordBecomesKnown == Spec => []InfoIsComing
<1>1. Init => InfoIsComing
  BY DEF Init, InfoIsComing
<1>2. FetchInv /\ InfoIsComing /\ [Next]_vars => InfoIsComing'
  <2> SUFFICES ASSUME FetchInv, InfoIsComing, [Next]_vars PROVE InfoIsComing'
    OBVIOUS
  <2>1. CASE \/ \E m \in Maps : LoadMap(m) \/ PluginFetch(m) \/ Retry(m)
             \/ Notify \/ NotifyRefused \/ Handle
    BY <2>1, GameStepInfo DEF InfoIsComing, Ignorant, Coming, CallbackFor, Waits
  <2>2. CASE \/ \E m \in Maps :
                  \/ AnswerRequest(m) \/ AnswerUnusable(m) \/ LoseRequest(m)
                  \/ \E c \in Class :
                       DeleteRecord(m, c) \/ EndDownload(m, c) \/ DropDownload(m, c)
                         \/ Collide(m, c)
             \/ Connect \/ SendHello \/ Disconnect \/ GiveUp
             \/ \E q \in questions : AnswerQuestion(q) \/ DropAnswer(q)
             \/ UNCHANGED vars
    BY <2>2, ClientStepInfo DEF InfoIsComing, Ignorant, Coming, CallbackFor, Waits
  <2> QED BY <2>1, <2>2 DEF Next
<1> QED BY <1>1, <1>2, FetchInvHolds, PTL DEF Spec
=============================================================================
