------------------------------ MODULE ConfigTree ------------------------------
(***************************************************************************)
(* checkConfiguration (configuration.c), which main keeps in a comment:    *)
(* the directories below .webinos, created by programs that are started in *)
(* one home directory, whose mkdir may fail and which may die.             *)
(***************************************************************************)
EXTENDS Naturals, FiniteSets

CONSTANT Programs   \* programs that look for their directories

VARIABLES
  dirs,    \* the directories of listFile that exist
  at,      \* where each program is in the list, 0 outside of checkConfiguration
  answer   \* what checkConfiguration returned to each

treeVars == <<dirs, at, answer>>

Count == 6             \* entries of listFile
Entries == 1..Count     \* listFile: webinos first, certificates before what is in it
Parent == [d \in Entries |-> IF d = 1 THEN 0 ELSE IF d <= 4 THEN 1 ELSE 4]

\* Defect: it goes on where the one before it has stopped.
CheckConfigurationResume(p) ==
  /\ at[p] = 0
  /\ at' = [at EXCEPT ![p] = Cardinality(dirs) + 1] /\ answer' = [answer EXCEPT ![p] = "none"]
  /\ UNCHANGED dirs

\* scandir finds the tree, or else the first directory is to be created.
CheckConfiguration(p) ==
  /\ at[p] = 0
  /\ \/ 1 \in dirs /\ answer' = [answer EXCEPT ![p] = "exists"] /\ UNCHANGED at
     \/ at' = [at EXCEPT ![p] = 1] /\ answer' = [answer EXCEPT ![p] = "none"]
  /\ UNCHANGED dirs

\* Defect: an error does not end the loop.
MakeDirectoryOn(p) ==
  LET d == at[p] IN
  /\ d \in Entries
  /\ \/ d \notin dirs /\ Parent[d] \in dirs \cup {0} /\ dirs' = dirs \cup {d}
     \/ UNCHANGED dirs
  /\ at' = [at EXCEPT ![p] = d + 1]
  /\ UNCHANGED answer

\* Defect: a directory that is there already is as good as made.
MakeDirectoryExisting(p) ==
  LET d == at[p] IN
  /\ d \in Entries
  /\ dirs' = dirs \cup {d}
  /\ at' = [at EXCEPT ![p] = d + 1]
  /\ UNCHANGED answer

\* mkdir may fail at any time and fails when the directory is there or its parent
\* is not: the loop ends.
MakeDirectory(p) ==
  LET d == at[p] IN
  /\ d \in Entries
  /\ \/ /\ d \notin dirs /\ Parent[d] \in dirs \cup {0}
        /\ dirs' = dirs \cup {d}
        /\ at' = [at EXCEPT ![p] = d + 1]
        /\ UNCHANGED answer
     \/ /\ at' = [at EXCEPT ![p] = 0]
        /\ answer' = [answer EXCEPT ![p] = "created"]
        /\ UNCHANGED dirs

\* Behind the last entry the loop ends, whatever listFile[6] is.
AllMade(p) ==
  /\ at[p] = Count + 1
  /\ at' = [at EXCEPT ![p] = 0]
  /\ answer' = [answer EXCEPT ![p] = "created"]
  /\ UNCHANGED dirs

\* A program dies in the middle of it, and may be started again.
Crash(p) ==
  /\ at[p] # 0
  /\ at' = [at EXCEPT ![p] = 0]
  /\ answer' = [answer EXCEPT ![p] = "none"]
  /\ UNCHANGED dirs

TreeInit ==
  /\ dirs = {} /\ at = [p \in Programs |-> 0] /\ answer = [p \in Programs |-> "none"]

Checking(p) == \/ CheckConfiguration(p) \/ MakeDirectory(p) \/ AllMade(p) \/ Crash(p)

TreeNext == \E p \in Programs : Checking(p)

TreeSpec == TreeInit /\ [][TreeNext]_treeVars

-----------------------------------------------------------------------------
(* Properties *)

\* The variables keep their types.
TreeTypeOK ==
  /\ dirs \subseteq Entries
  /\ at \in [Programs -> 0..(Count + 1)]
  /\ answer \in [Programs -> {"none", "exists", "created"}]

\* Directories are created in the list's order with none left out, although programs
\* fail, die, and run side by side.
TreeIsPrefix == \E n \in 0..Count : dirs = 1..n

\* Of the programs in one home directory only one creates below .webinos at a time.
OneCreates == \A p, q \in Programs : at[p] > 1 /\ at[q] > 1 => p = q

\* Whoever creates has created all that stands before its place.
Frontier == \A p \in Programs : at[p] > 1 => dirs = 1..(at[p] - 1)

TreeIInv == TreeTypeOK /\ TreeIsPrefix /\ Frontier /\ OneCreates

Abandoned == dirs # {} /\ \A p \in Programs : at[p] <= 1

\* A tree that nobody is creating any more stays as it is: what a failed mkdir or
\* a crash has left out is never made up for (configuration.c:97).
NeverRepaired ==
  [][Abandoned => Abandoned' /\ dirs' = dirs]_treeVars
=============================================================================
