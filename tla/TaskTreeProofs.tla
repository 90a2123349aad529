--------------------------- MODULE TaskTreeProofs ---------------------------
(***************************************************************************)
(* The safety properties of TaskTree, proved for every pool of frames and  *)
(* every bound on the ids.                                                 *)
(***************************************************************************)
EXTENDS TaskTree, WellFoundedInduction, TLAPS

(***************************************************************************)
(* What ImageHeld needs to be inductive.  All tasks of the one tree share  *)
(* one image, and the root gives none of it back while it has a child.     *)
(***************************************************************************)
SingleRoot ==
  \A t, u \in Tasks \ {Main} : parent[t] = Main /\ parent[u] = Main => t = u

SameImage ==
  \A t, u \in Tasks \ {Main} : image[t] = image[u]

RootKeeps ==
  \A r \in Tasks \ {Main} :
    parent[r] = Main =>
      \/ image[r] \subseteq held[r]
      \/ r \in zombie /\ \A u \in Tasks \ {Main} : parent[u] # r

Apart ==
  /\ \A t, u \in Id : t # u => held[t] \cap held[u] = {}
  /\ \A t \in Tasks : t < next

IndInv ==
  /\ TypeOK
  /\ NoOrphan
  /\ Apart
  /\ SingleRoot
  /\ SameImage
  /\ RootKeeps

-----------------------------------------------------------------------------

\* A nonempty set of ids has a least element.
LEMMA LeastId ==
  ASSUME NEW S \in SUBSET Nat, S # {}
  PROVE  \E x \in S : \A y \in S : ~(y < x)
<1>. DEFINE R == OpToRel(<, Nat)
<1>1. IsWellFoundedOn(R, Nat)
  BY NatLessThanWellFounded
<1>2. \E x \in S : \A y \in S : ~(<<y, x>> \in R)
  <2>. HIDE DEF R
  <2>. QED BY <1>1, WFMin
<1>3. \A x, y \in Nat : y < x => <<y, x>> \in R
  BY DEF OpToRel
<1>. QED
  <2>. HIDE DEF R
  <2>. QED BY <1>2, <1>3

\* While any task but main is in the table there is exactly one app at the
\* root of the tree, and any other task means the root has a child: the task
\* with the least id cannot have another parent, since parents are older.
LEMMA RootExists ==
  ASSUME IndInv, NEW t \in Tasks \ {Main}
  PROVE  \E r \in Tasks \ {Main} :
           /\ parent[r] = Main
           /\ t # r => \E u \in Tasks \ {Main} : parent[u] = r
<1>. DEFINE S == Tasks \ {Main}
<1>0. Id \subseteq Nat
  BY LastIdAssumption DEF Id
<1>1. S \in SUBSET Nat /\ S # {}
  BY <1>0 DEF IndInv, TypeOK, Tasks
<1>2. PICK r \in S : \A y \in S : ~(y < r)
  <2>. HIDE DEF S
  <2>. QED BY <1>1, LeastId
<1>3. parent[r] = Main
  BY <1>2 DEF IndInv, NoOrphan
<1>4. ASSUME t # r
      PROVE  \E u \in S : parent[u] = r
  <2>. DEFINE Q == S \ {r}
  <2>1. Q \in SUBSET Nat /\ Q # {}
    BY <1>1, <1>4
  <2>2. PICK u \in Q : \A y \in Q : ~(y < u)
    <3>. HIDE DEF Q
    <3>. QED BY <2>1, LeastId
  <2>3. parent[u] \in Tasks /\ parent[u] < u
    BY <2>2 DEF IndInv, NoOrphan
  <2>4. parent[u] \in {Main, r}
    BY <2>2, <2>3
  <2>5. parent[u] # Main
    BY <1>2, <1>3, <2>2 DEF IndInv, SingleRoot
  <2>. QED BY <2>2, <2>4, <2>5
<1>. QED BY <1>2, <1>3, <1>4

\* The inductive invariant gives the use-after-free property.
LEMMA IndInvImpliesImageHeld == IndInv => ImageHeld
<1>. SUFFICES ASSUME IndInv, NEW t \in live \ {Main}
              PROVE  \E r \in Tasks \ {Main} :
                       parent[r] = Main /\ image[t] \subseteq held[r]
  BY DEF ImageHeld
<1>1. t \in Tasks \ {Main}
  BY DEF Tasks
<1>2. PICK r \in Tasks \ {Main} :
        /\ parent[r] = Main
        /\ t # r => \E u \in Tasks \ {Main} : parent[u] = r
  BY <1>1, RootExists
<1>3. image[t] = image[r]
  BY <1>1, <1>2 DEF IndInv, SameImage
<1>4. image[r] \subseteq held[r]
  <2>1. CASE t = r
    BY <1>2, <2>1 DEF IndInv, RootKeeps, TypeOK
  <2>2. CASE t # r
    BY <1>2, <2>2 DEF IndInv, RootKeeps
  <2>. QED BY <2>1, <2>2
<1>. QED BY <1>2, <1>3, <1>4

\* Disjoint holdings of all ids give the isolation of the tasks in the table.
LEMMA IndInvImpliesIsolation == IndInv => Isolation
<1>1. TypeOK => Tasks \subseteq Id
  BY DEF TypeOK, Tasks
<1>. QED BY <1>1 DEF IndInv, Apart, Isolation

-----------------------------------------------------------------------------

\* The boot state, with the main task alone, satisfies the invariant.
LEMMA InitIndInv == Init => IndInv
<1>. SUFFICES ASSUME Init PROVE IndInv
  OBVIOUS
<1>1. Main \in Id
  BY LastIdAssumption DEF Id, Main
<1>2. TypeOK
  BY <1>1, BootFrameAssumption DEF Init, TypeOK
<1>3. Tasks = {Main}
  BY DEF Init, Tasks
<1>4. Apart
  BY <1>3 DEF Init, Apart, Main
<1>. QED
  BY <1>2, <1>3, <1>4
  DEF IndInv, NoOrphan, SingleRoot, SameImage, RootKeeps

\* Creating a task under parent p keeps the invariant, when the new task is
\* either the only one besides main or a child sharing its parent's image.
LEMMA CreateIndInv ==
  ASSUME IndInv, NEW p \in live, NEW F \in SUBSET Frames,
         NEW img \in SUBSET Frames, NewTask(p), F \subseteq Unheld, Memory(F, img),
         \/ Tasks = {Main} /\ p = Main /\ img \subseteq F
         \/ p # Main /\ img = image[p]
  PROVE  IndInv'
<1>0. /\ TypeOK /\ NoOrphan /\ Apart /\ SingleRoot /\ SameImage /\ RootKeeps
      /\ Id \subseteq Nat /\ next \in Id /\ Main \in Id /\ Main = 0
  BY LastIdAssumption DEF IndInv, NewTask, Id, Main
<1>1. /\ next \notin Tasks
      /\ Tasks' = Tasks \cup {next}
      /\ p \in Tasks /\ p < next /\ next # Main
  BY <1>0 DEF NewTask, Apart, Tasks, TypeOK
<1>2. /\ parent' = [parent EXCEPT ![next] = p]
      /\ held' = [held EXCEPT ![next] = F]
      /\ image' = [image EXCEPT ![next] = img]
      /\ next' = next + 1 /\ zombie' = zombie
      /\ live' = live \cup {next}
      /\ \A f \in F : \A t \in Id : f \notin held[t]
  BY DEF NewTask, Memory, Unheld
<1>3. TypeOK'
  BY <1>0, <1>1, <1>2 DEF TypeOK, Tasks
<1>4. \A t \in Tasks : parent'[t] = parent[t] /\ held'[t] = held[t] /\ image'[t] = image[t]
  BY <1>0, <1>1, <1>2 DEF TypeOK, Tasks
<1>5. parent'[next] = p /\ held'[next] = F /\ image'[next] = img
  BY <1>0, <1>2 DEF TypeOK
<1>6. NoOrphan'
  BY <1>0, <1>1, <1>4, <1>5 DEF NoOrphan
<1>7. Apart'
  <2>1. \A t \in Tasks' : t < next'
    BY <1>0, <1>1, <1>2 DEF Apart, Tasks, TypeOK
  <2>2. \A t, u \in Id : t # u => held'[t] \cap held'[u] = {}
    BY <1>0, <1>2 DEF Apart, TypeOK
  <2>. QED BY <2>1, <2>2 DEF Apart
<1>8. SingleRoot'
  BY <1>0, <1>1, <1>4, <1>5 DEF SingleRoot
<1>9. SameImage'
  BY <1>0, <1>1, <1>4, <1>5 DEF SameImage
<1>10. RootKeeps'
  <2>. SUFFICES ASSUME NEW r \in Tasks' \ {Main}, parent'[r] = Main
                PROVE  \/ image'[r] \subseteq held'[r]
                       \/ /\ r \in zombie'
                          /\ \A u \in Tasks' \ {Main} : parent'[u] # r
    BY DEF RootKeeps
  <2>1. CASE r = next
    BY <1>1, <1>5, <2>1
  <2>2. CASE r # next
    <3>1. r \in Tasks \ {Main} /\ parent[r] = Main
      BY <1>1, <1>4, <2>2
    <3>2. CASE r = p
      BY <1>0, <1>4, <3>1, <3>2 DEF RootKeeps, TypeOK
    <3>3. CASE r # p
      BY <1>0, <1>1, <1>2, <1>4, <1>5, <3>1, <3>3 DEF RootKeeps
    <3>. QED BY <3>2, <3>3
  <2>. QED BY <2>1, <2>2
<1>. QED BY <1>3, <1>6, <1>7, <1>8, <1>9, <1>10 DEF IndInv

\* Every step of the specification keeps the invariant.
LEMMA NextIndInv == IndInv /\ [Next]_vars => IndInv'
<1>. SUFFICES ASSUME IndInv, [Next]_vars PROVE IndInv'
  OBVIOUS
<1>0. /\ TypeOK /\ NoOrphan /\ Apart /\ SingleRoot /\ SameImage /\ RootKeeps
      /\ Tasks \subseteq Id
  BY DEF IndInv, TypeOK, Tasks
<1>1. ASSUME Launch
      PROVE  IndInv'
  <2>1. PICK F \in SUBSET Unheld : \E I \in SUBSET F : Memory(F, I)
    BY <1>1 DEF Launch
  <2>2. PICK I \in SUBSET F : Memory(F, I)
    BY <2>1
  <2>3. Main \in live /\ F \in SUBSET Frames /\ I \in SUBSET Frames
    BY <1>0 DEF TypeOK, Unheld
  <2>. QED BY <1>1, <2>2, <2>3, CreateIndInv DEF Launch
<1>2. ASSUME NEW p \in Id, Spawn(p)
      PROVE  IndInv'
  <2>1. PICK F \in SUBSET Unheld : Memory(F, image[p])
    BY <1>2 DEF Spawn
  <2>2. /\ p \in live /\ p # Main /\ image[p] \in SUBSET Frames
        /\ F \in SUBSET Frames
    BY <1>0, <1>2 DEF Spawn, TypeOK, Unheld
  <2>. QED BY <1>2, <2>1, <2>2, CreateIndInv DEF Spawn
<1>3. ASSUME NEW t \in Id, Exit(t)
      PROVE  IndInv'
  <2>1. /\ Tasks' = Tasks
        /\ parent' = parent /\ held' = held /\ image' = image /\ next' = next
        /\ zombie \subseteq zombie'
    BY <1>3 DEF Exit, Tasks
  <2>2. TypeOK'
    BY <1>0, <1>3 DEF Exit, TypeOK
  <2>. QED
    BY <1>0, <2>1, <2>2
    DEF IndInv, NoOrphan, Apart, SingleRoot, SameImage, RootKeeps
<1>4. ASSUME NEW t \in Id, Release(t)
      PROVE  IndInv'
  <2>1. PICK F \in SUBSET held[t] : /\ held' = [held EXCEPT ![t] = @ \ F]
                                    /\ image' = [image EXCEPT ![t] = @ \ F]
    BY <1>4 DEF Release
  <2>2. /\ Tasks' = Tasks /\ live' = live /\ zombie' = zombie
        /\ parent' = parent /\ next' = next
        /\ t \in zombie /\ \A u \in Tasks \ {Main} : parent[u] # t
    BY <1>4 DEF Release, Reapable, Children, Tasks
  <2>3. t \in Tasks \ {Main}
    BY <1>0, <2>2 DEF TypeOK, Tasks
  <2>4. TypeOK'
    BY <1>0, <2>1, <2>2 DEF TypeOK
  <2>5. Apart'
    BY <1>0, <2>1, <2>2 DEF Apart, TypeOK
  <2>6. PICK r \in Tasks \ {Main} :
          /\ parent[r] = Main
          /\ t # r => \E u \in Tasks \ {Main} : parent[u] = r
    BY <2>3, RootExists
  <2>7. CASE t = r
    \* t has no child, so it is alone and its image matters to nobody else.
    <3>1. ASSUME NEW u \in Tasks \ {Main} PROVE u = t
      <4>1. PICK q \in Tasks \ {Main} :
              /\ parent[q] = Main
              /\ u # q => \E x \in Tasks \ {Main} : parent[x] = q
        BY RootExists
      <4>2. q = t
        BY <1>0, <2>3, <2>6, <2>7, <4>1 DEF SingleRoot
      <4>. QED BY <2>2, <4>1, <4>2
    <3>. QED
      BY <1>0, <2>2, <2>3, <2>4, <2>5, <3>1
      DEF IndInv, NoOrphan, SingleRoot, SameImage, RootKeeps
  <2>8. CASE t # r
    \* The root has a child, so it holds the whole image, and t none of it.
    <3>1. image[r] \subseteq held[r]
      BY <1>0, <2>6, <2>8 DEF RootKeeps
    <3>2. image[t] = image[r] /\ held[t] \cap held[r] = {}
      BY <1>0, <2>3, <2>6, <2>8 DEF SameImage, Apart
    <3>3. image[t] \ F = image[t]
      BY <3>1, <3>2
    <3>4. image' = image
      BY <1>0, <2>1, <3>3 DEF TypeOK
    <3>5. \A u \in Tasks \ {Main} : parent[u] = Main => u # t /\ held'[u] = held[u]
      BY <1>0, <2>1, <2>3, <2>6, <2>8 DEF SingleRoot, TypeOK
    <3>. QED
      BY <1>0, <2>2, <2>4, <2>5, <3>4, <3>5
      DEF IndInv, NoOrphan, SingleRoot, SameImage, RootKeeps
  <2>. QED BY <2>7, <2>8
<1>5. ASSUME NEW t \in Id, Reap(t)
      PROVE  IndInv'
  <2>1. /\ zombie' = zombie \ {t} /\ live' = live
        /\ parent' = [parent EXCEPT ![t] = Main]
        /\ image' = [image EXCEPT ![t] = {}]
        /\ held' = held /\ next' = next
        /\ t \in zombie /\ \A u \in Tasks \ {Main} : parent[u] # t
    BY <1>5 DEF Reap, Reapable, Children
  <2>2. Tasks' = Tasks \ {t} /\ t # Main
    BY <1>0, <2>1 DEF Tasks, TypeOK
  <2>3. TypeOK'
    BY <1>0, <2>1 DEF TypeOK, Main, Id
  <2>4. \A u \in Tasks' : parent'[u] = parent[u] /\ image'[u] = image[u]
    BY <1>0, <2>1, <2>2 DEF TypeOK
  <2>. QED
    BY <1>0, <2>1, <2>2, <2>3, <2>4
    DEF IndInv, NoOrphan, Apart, SingleRoot, SameImage, RootKeeps
<1>6. CASE UNCHANGED vars
  BY <1>0, <1>6
  DEF vars, IndInv, TypeOK, Tasks, NoOrphan, Apart, SingleRoot, SameImage, RootKeeps
<1>. QED BY <1>1, <1>2, <1>3, <1>4, <1>5, <1>6 DEF Next

\* The strengthened invariant holds in every reachable state.
THEOREM IndInvHolds == Spec => []IndInv
<1>. QED BY InitIndInv, NextIndInv, PTL DEF Spec

\* Type correctness: in particular the main task never leaves the table, so
\* the scheduler always has something to run.
THEOREM TypeCorrect == Spec => []TypeOK
<1>1. IndInv => TypeOK
  BY DEF IndInv
<1>. QED BY <1>1, IndInvHolds, PTL

\* No two tasks ever hold the same frame (task.h's per-task private pages).
THEOREM IsolationHolds == Spec => []Isolation
<1>. QED BY IndInvImpliesIsolation, IndInvHolds, PTL

\* A task that can run never executes out of a frame that was given back,
\* the ordering task_reap's cascade over the children is there to ensure.
THEOREM NoUseAfterFree == Spec => []ImageHeld
<1>. QED BY IndInvImpliesImageHeld, IndInvHolds, PTL

\* task_reap never removes a task that still has a child in the table.
THEOREM NoOrphanHolds == Spec => []NoOrphan
<1>1. IndInv => NoOrphan
  BY DEF IndInv
<1>. QED BY <1>1, IndInvHolds, PTL

=============================================================================
