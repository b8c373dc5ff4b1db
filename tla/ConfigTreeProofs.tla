--------------------------- MODULE ConfigTreeProofs ---------------------------
(* Proofs about ConfigTree, for any set of programs.  The invariant says       *)
(* where the tree's edge is: before the one program that is creating below     *)
(* .webinos.  mkdir of .webinos itself decides who that is.                    *)
EXTENDS ConfigTree, TLAPS

\* At the start nobody has created anything.
LEMMA TreeInitIInv == TreeInit => TreeIInv
<1> SUFFICES ASSUME TreeInit PROVE TreeIInv
  OBVIOUS
<1>1. TreeTypeOK
  BY DEF TreeInit, TreeTypeOK, Count
<1>2. TreeIsPrefix
  <2>1. dirs = 1..0
    BY DEF TreeInit
  <2> QED
    BY <2>1 DEF TreeIsPrefix, Count
<1>3. Frontier /\ OneCreates
  BY DEF TreeInit, Frontier, OneCreates
<1> QED
  BY <1>1, <1>2, <1>3 DEF TreeIInv

\* A step that only takes programs out of the list, or to its start, keeps it.
LEMMA LeavingKeepsIInv ==
  ASSUME TreeIInv, NEW p \in Programs, NEW n \in {0, 1},
         at' = [at EXCEPT ![p] = n], dirs' = dirs,
         answer' \in [Programs -> {"none", "exists", "created"}]
  PROVE  TreeIInv'
<1>1. TreeTypeOK'
  <2>1. dirs' \subseteq Entries
    BY DEF TreeIInv, TreeTypeOK
  <2>2. at' \in [Programs -> 0..(Count + 1)]
    <3>1. n \in 0..(Count + 1)
      BY DEF Count
    <3> QED
      BY <3>1 DEF TreeIInv, TreeTypeOK
  <2> QED
    BY <2>1, <2>2 DEF TreeTypeOK
<1>2. \A q \in Programs : at'[q] > 1 => at'[q] = at[q]
  BY DEF TreeIInv, TreeTypeOK, Count
<1>3. Frontier' /\ OneCreates'
  BY <1>2 DEF TreeIInv, Frontier, OneCreates
<1>4. TreeIsPrefix'
  BY DEF TreeIInv, TreeIsPrefix
<1> QED
  BY <1>1, <1>3, <1>4 DEF TreeIInv

\* A successful mkdir: the maker is at the tree's edge, and is the only one.
LEMMA MakingKeepsIInv ==
  ASSUME TreeIInv, NEW p \in Programs, at[p] \in Entries, at[p] \notin dirs,
         dirs' = dirs \cup {at[p]}, at' = [at EXCEPT ![p] = at[p] + 1],
         answer' = answer
  PROVE  TreeIInv'
<1> DEFINE d == at[p]
<1>0. d \in 1..Count /\ d \in Nat
  BY DEF Entries, Count
<1>1. dirs = 1..(d - 1)
  <2>1. CASE d > 1
    BY <2>1 DEF TreeIInv, Frontier
  <2>2. CASE d = 1
    BY <2>2 DEF TreeIInv, TreeIsPrefix, Count
  <2> QED
    BY <1>0, <2>1, <2>2 DEF Count
<1>2. dirs' = 1..d
  BY <1>0, <1>1 DEF Count
<1>3. \A q \in Programs : q # p => at[q] <= 1
  <2> SUFFICES ASSUME NEW q \in Programs, q # p, at[q] > 1 PROVE FALSE
    BY DEF TreeIInv, TreeTypeOK, Count
  <2>1. CASE d > 1
    BY <2>1 DEF TreeIInv, OneCreates
  <2>2. CASE d = 1
    <3>1. dirs = 1..(at[q] - 1) /\ at[q] \in Nat
      BY DEF TreeIInv, Frontier, TreeTypeOK, Count
    <3>2. 1 \in dirs
      BY <3>1
    <3> QED
      BY <3>2, <2>2
  <2> QED
    BY <1>0, <2>1, <2>2
<1>4. TreeTypeOK'
  <2>1. dirs' \subseteq Entries
    BY DEF TreeIInv, TreeTypeOK
  <2>2. at' \in [Programs -> 0..(Count + 1)]
    <3>1. d + 1 \in 0..(Count + 1)
      BY <1>0 DEF Count
    <3> QED
      BY <3>1 DEF TreeIInv, TreeTypeOK
  <2> QED
    BY <2>1, <2>2 DEF TreeIInv, TreeTypeOK
<1>5. TreeIsPrefix'
  BY <1>0, <1>2 DEF TreeIsPrefix, Count
<1>6. \A q \in Programs : at'[q] = IF q = p THEN d + 1 ELSE at[q]
  BY DEF TreeIInv, TreeTypeOK
<1>7. \A q \in Programs : at'[q] > 1 => q = p
  <2> SUFFICES ASSUME NEW q \in Programs, at'[q] > 1, q # p PROVE FALSE
    OBVIOUS
  <2>1. at'[q] = at[q] /\ at[q] \in Nat
    BY <1>6 DEF TreeIInv, TreeTypeOK, Count
  <2> QED
    BY <1>3, <2>1
<1>8. Frontier'
  <2>1. at'[p] - 1 = d
    BY <1>0, <1>6
  <2> QED
    BY <1>2, <1>7, <2>1 DEF Frontier
<1>9. OneCreates'
  BY <1>7 DEF OneCreates
<1> QED
  BY <1>4, <1>5, <1>8, <1>9 DEF TreeIInv

\* Every step of every program keeps the invariant.
LEMMA TreeStepIInv == TreeIInv /\ [TreeNext]_treeVars => TreeIInv'
<1> SUFFICES ASSUME TreeIInv, [TreeNext]_treeVars PROVE TreeIInv'
  OBVIOUS
<1>0. CASE UNCHANGED treeVars
  BY <1>0 DEF treeVars, TreeIInv, TreeTypeOK, TreeIsPrefix, Frontier, OneCreates
<1>1. ASSUME NEW p \in Programs, CheckConfiguration(p) PROVE TreeIInv'
  <2>1. at' = at \/ at' = [at EXCEPT ![p] = 1]
    BY <1>1 DEF CheckConfiguration
  <2>2. dirs' = dirs /\ answer' \in [Programs -> {"none", "exists", "created"}]
    BY <1>1 DEF CheckConfiguration, TreeIInv, TreeTypeOK
  <2>3. CASE at' = at
    BY <2>2, <2>3 DEF TreeIInv, TreeTypeOK, TreeIsPrefix, Frontier, OneCreates
  <2> QED
    BY <2>1, <2>2, <2>3, LeavingKeepsIInv
<1>2. ASSUME NEW p \in Programs, MakeDirectory(p) PROVE TreeIInv'
  <2>1. CASE at[p] \notin dirs /\ dirs' = dirs \cup {at[p]}
             /\ at' = [at EXCEPT ![p] = at[p] + 1] /\ answer' = answer
    BY <1>2, <2>1, MakingKeepsIInv DEF MakeDirectory
  <2>2. CASE at' = [at EXCEPT ![p] = 0] /\ dirs' = dirs
             /\ answer' = [answer EXCEPT ![p] = "created"]
    <3>1. answer' \in [Programs -> {"none", "exists", "created"}]
      BY <2>2 DEF TreeIInv, TreeTypeOK
    <3> QED
      BY <2>2, <3>1, LeavingKeepsIInv
  <2> QED
    BY <1>2, <2>1, <2>2 DEF MakeDirectory
<1>3. ASSUME NEW p \in Programs, AllMade(p) \/ Crash(p) PROVE TreeIInv'
  <2>1. at' = [at EXCEPT ![p] = 0] /\ dirs' = dirs
    BY <1>3 DEF AllMade, Crash
  <2>2. answer' \in [Programs -> {"none", "exists", "created"}]
    BY <1>3 DEF AllMade, Crash, TreeIInv, TreeTypeOK
  <2> QED
    BY <2>1, <2>2, LeavingKeepsIInv
<1> QED
  BY <1>0, <1>1, <1>2, <1>3 DEF TreeNext, Checking

\* The invariant of the tree, in every behaviour.
LEMMA TreeSpecIInv == TreeSpec => []TreeIInv
  BY TreeInitIInv, TreeStepIInv, PTL DEF TreeSpec

\* checkConfiguration's variables keep their types, for any programs.
THEOREM TreeTypeCorrect == TreeSpec => []TreeTypeOK
<1>1. TreeIInv => TreeTypeOK
  BY DEF TreeIInv
<1> QED
  BY <1>1, TreeSpecIInv, PTL

\* The directories that exist are a prefix of listFile, whoever fails or dies.
THEOREM TreeIsPrefixAlways == TreeSpec => []TreeIsPrefix
<1>1. TreeIInv => TreeIsPrefix
  BY DEF TreeIInv
<1> QED
  BY <1>1, TreeSpecIInv, PTL

\* Only one program creates below .webinos.
THEOREM OneCreatesAlways == TreeSpec => []OneCreates
<1>1. TreeIInv => OneCreates
  BY DEF TreeIInv
<1> QED
  BY <1>1, TreeSpecIInv, PTL

\* A tree that is left incomplete stays so.
THEOREM NeverRepairedAlways == TreeSpec => NeverRepaired
<1>1. TreeIInv /\ [TreeNext]_treeVars => [Abandoned => Abandoned' /\ dirs' = dirs]_treeVars
  <2> SUFFICES ASSUME TreeIInv, TreeNext, Abandoned
               PROVE  Abandoned' /\ dirs' = dirs
    BY DEF treeVars
  <2>1. 1 \in dirs
    BY DEF TreeIInv, TreeIsPrefix, Abandoned, Count
  <2>2. PICK p \in Programs : Checking(p)
    BY DEF TreeNext
  <2>3. at \in [Programs -> Nat]
    BY DEF TreeIInv, TreeTypeOK
  <2>4. CASE CheckConfiguration(p)
    BY <2>3, <2>4 DEF CheckConfiguration, Abandoned
  <2>5. CASE MakeDirectory(p)
    <3>1. at[p] = 1
      BY <2>3, <2>5 DEF MakeDirectory, Abandoned, Entries, Count
    <3>2. at' = [at EXCEPT ![p] = 0] /\ dirs' = dirs
      BY <2>1, <2>5, <3>1 DEF MakeDirectory
    <3> QED
      BY <2>3, <3>2 DEF Abandoned
  <2>6. CASE AllMade(p) \/ Crash(p)
    BY <2>3, <2>6 DEF AllMade, Crash, Abandoned
  <2> QED
    BY <2>2, <2>4, <2>5, <2>6 DEF Checking
<1> QED
  BY <1>1, TreeSpecIInv, PTL DEF TreeSpec, NeverRepaired
=============================================================================
