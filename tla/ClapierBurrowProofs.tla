-------------------------- MODULE ClapierBurrowProofs --------------------------
(***************************************************************************)
(* What the burrow keeps, for every set of requests, every length of a     *)
(* copy and any number of deployments: two names never share a file; as    *)
(* long as no two copies met, nothing but a whole brain is published or    *)
(* served; and no request that found the burrow empty is refused for it.   *)
(***************************************************************************)
EXTENDS ClapierBurrow, TLAPS, FiniteSetTheorems, WellFoundedInduction

\* Who copies, or reads, does so through a descriptor, and a copy has an end.
Handed ==
    \A w \in Writers : /\ pc[w] = "copy" => fd[w] # None /\ off[w] < Blocks
                       /\ pc[w] = "read" => fd[w] # None

Typed == TypeOK /\ Handed

\* Until two copies meet there is one writer at most, the temporary file is its
\* own, and holds what it has copied so far.
Lone ==
    ~overlapped =>
        /\ \A v, w \in Writers : Copying(v) /\ Copying(w) => v = w
        /\ \A w \in Writers : pc[w] = "copy" =>
               /\ fd[w] = tmp
               /\ \A b \in 1 .. off[w] : content[tmp][b] = Source(w)
        /\ \A w \in Writers : pc[w] = "rename" => tmp # None /\ Whole(content[tmp])

\* Until then nobody writes what is published, or what was when it was opened.
Undisturbed ==
    ~overlapped =>
        /\ bc # None => Whole(content[bc])
        /\ \A w \in Writers : pc[w] = "read" => fd[w] # tmp /\ Whole(content[fd[w]])

\* Who looks again after an adoption finds a brain, or the operator took it away.
Filled ==
    \A h \in Handlers : pc[h] = "look" /\ adopted[h] => bc # None \/ excused[h]

IInv == Typed /\ Lone /\ Undisturbed /\ WholeWhileAlone /\ Filled /\ NoVain404

--------------------------------------------------------------------------------
\* A set of inodes that is not empty has a least one.
LEMMA MinIn ==
    ASSUME NEW S \in SUBSET Nat, S # {}
    PROVE  Min(S) \in S
<1>. DEFINE Less == {p \in Nat \X Nat : p[1] < p[2]}
<1>1. IsWellFoundedOn(Less, Nat)
  BY NatLessThanWellFounded DEF OpToRel
<1>2. PICK i \in S : \A j \in S : <<j, i>> \notin Less
  <2>. HIDE DEF Less
  <2>. QED  BY <1>1, WFMin
<1>3. ASSUME NEW j \in S PROVE i <= j
  <2>1. ~(j < i)
    BY <1>2
  <2>. QED  BY <2>1
<1>. QED  BY <1>2, <1>3 DEF Min

\* There are two more inodes than writers: one is free for a new file.
LEMMA FreeInode ==
    ASSUME Typed
    PROVE  \E i \in Inodes : i # bc /\ \A v \in Writers : fd[v] # i
<1>. DEFINE n == Cardinality(Writers)
            Rest == Inodes \ {bc}
<1>1. IsFiniteSet(Writers) /\ n \in Nat
  BY BurrowAssumption, FS_AddElement, FS_CardinalityType DEF Writers
<1>2. IsFiniteSet(Inodes) /\ Cardinality(Inodes) = n + 2
  <2>1. n + 2 \in Int /\ n + 2 >= 1
    BY <1>1
  <2>. HIDE DEF n
  <2>2. IsFiniteSet(1 .. n + 2) /\ Cardinality(1 .. n + 2) = n + 2
    BY <2>1, FS_Interval
  <2>. QED  BY <2>2 DEF Inodes, n
<1>3. IsFiniteSet(Rest) /\ n < Cardinality(Rest)
  <2>1. /\ IsFiniteSet(Rest)
        /\ Cardinality(Rest) = IF bc \in Inodes THEN Cardinality(Inodes) - 1
                               ELSE Cardinality(Inodes)
    BY <1>2, FS_RemoveElement
  <2>. QED  BY <1>1, <1>2, <2>1
<1>4. SUFFICES ASSUME \A i \in Rest : \E v \in Writers : fd[v] = i
               PROVE  FALSE
  OBVIOUS
<1>. DEFINE Holder == [i \in Rest |-> CHOOSE v \in Writers : fd[v] = i]
<1>5. \A i \in Rest : Holder[i] \in Writers /\ fd[Holder[i]] = i
  BY <1>4
<1>6. Holder \in [Rest -> Writers]
  BY <1>5
<1>7. \E i, j \in Rest : i # j /\ Holder[i] = Holder[j]
  <2>. HIDE DEF Holder, Rest
  <2>. QED  BY <1>1, <1>3, <1>6, FS_PigeonHole
<1>. QED  BY <1>5, <1>7

\* What opening the temporary file does, whether it was there or not.
Opened(w) ==
    /\ tmp' \in Inodes /\ (bc # None => bc # tmp')
    /\ tmp # None => tmp' = tmp
    /\ tmp = None => \A v \in Writers : fd[v] # tmp'
    /\ content' \in [Inodes -> Content]
    /\ \A i \in Inodes : i # tmp' => content'[i] = content[i]
    /\ fd' = [fd EXCEPT ![w] = tmp'] /\ off' = [off EXCEPT ![w] = 0]
    /\ pc' = [pc EXCEPT ![w] = "copy"]
    /\ overlapped' = (overlapped \/ \E v \in Writers \ {w} : Copying(v))
    /\ bc' = bc

LEMMA OpenOpens ==
    ASSUME Typed, NEW w \in Writers, Open(w)
    PROVE  Opened(w)
<1>. DEFINE Free == {i \in Inodes : i # bc /\ \A v \in Writers : fd[v] # i}
<1>1. Min(Free) \in Free
  <2>1. Free \in SUBSET Nat
    BY DEF Inodes
  <2>2. Free # {}
    BY FreeInode
  <2>. HIDE DEF Free
  <2>. QED  BY <2>1, <2>2, MinIn
<1>2. tmp' = IF tmp # None THEN tmp ELSE Min(Free)
  BY DEF Open
<1>3. /\ tmp' \in Inodes /\ (bc # None => bc # tmp')
      /\ tmp # None => tmp' = tmp
      /\ tmp = None => \A v \in Writers : fd[v] # tmp'
  BY <1>1, <1>2 DEF Typed, TypeOK
<1>4. Empty \in Content
  BY DEF Empty, Content
<1>5. content' = [content EXCEPT ![tmp'] = Empty]
  BY DEF Open
<1>6. /\ content' \in [Inodes -> Content]
      /\ \A i \in Inodes : i # tmp' => content'[i] = content[i]
  BY <1>3, <1>4, <1>5 DEF Typed, TypeOK
<1>. QED  BY <1>3, <1>6 DEF Open, Opened

\* What one write of a copy does.
LEMMA CopyWrites ==
    ASSUME Typed, NEW w \in Writers, Copy(w)
    PROVE  /\ content' \in [Inodes -> Content] /\ fd[w] \in Inodes
           /\ off[w] + 1 \in 1 .. Blocks
           /\ \A i \in Inodes : i # fd[w] => content'[i] = content[i]
           /\ content'[fd[w]][off[w] + 1] = Source(w)
           /\ \A b \in 1 .. off[w] : content'[fd[w]][b] = content[fd[w]][b]
<1>. DEFINE f == fd[w]
            k == off[w] + 1
<1>1. f \in Inodes /\ k \in 1 .. Blocks /\ off[w] \in Nat
  BY BurrowAssumption DEF Typed, TypeOK, Handed, Copy, None
<1>2. content[f] \in Content /\ Source(w) \in Brains \cup {"hole"}
  BY <1>1 DEF Typed, TypeOK, Source, Brains
<1>3. content' = [content EXCEPT ![f] = [content[f] EXCEPT ![k] = Source(w)]]
  BY DEF Copy
<1>4. [content[f] EXCEPT ![k] = Source(w)] \in Content
  BY <1>1, <1>2 DEF Content
<1>5. content' \in [Inodes -> Content]
  BY <1>1, <1>3, <1>4 DEF Typed, TypeOK
<1>6. content'[f] = [content[f] EXCEPT ![k] = Source(w)]
  BY <1>1, <1>3 DEF Typed, TypeOK
<1>7. \A b \in 1 .. Blocks : content'[f][b] = IF b = k THEN Source(w) ELSE content[f][b]
  BY <1>2, <1>6 DEF Content
<1>8. \A b \in 1 .. off[w] : b \in 1 .. Blocks /\ b # k
  BY <1>1, BurrowAssumption
<1>9. \A i \in Inodes : i # f => content'[i] = content[i]
  BY <1>1, <1>3 DEF Typed, TypeOK
<1>. QED  BY <1>1, <1>5, <1>7, <1>8, <1>9

--------------------------------------------------------------------------------
LEMMA TypedInit == Init => Typed
<1>. SUFFICES ASSUME Init PROVE Typed
  OBVIOUS
<1>1. Empty \in Content
  BY DEF Empty, Content
<1>2. 0 \in 0 .. Blocks /\ 0 \in 0 .. MaxDeploys
  BY BurrowAssumption
<1>. QED  BY <1>1, <1>2 DEF Init, Typed, TypeOK, Handed, Steps, Answers

LEMMA TypedStep == Typed /\ [Next]_vars => Typed'
<1>. SUFFICES ASSUME Typed, [Next]_vars PROVE Typed'
  OBVIOUS
<1>. USE DEF Typed, TypeOK, Handed
<1>0. /\ 0 \in 0 .. Blocks /\ 0 < Blocks /\ "op" \in Writers /\ Handlers \subseteq Writers
      /\ "op" \notin Handlers
  BY BurrowAssumption DEF Writers
<1>1. ASSUME NEW h \in Handlers, Ask(h) PROVE Typed'
  BY <1>0, <1>1 DEF Ask, Goto, files, Steps, Answers
<1>2. ASSUME NEW h \in Handlers, Look(h) PROVE Typed'
  BY <1>0, <1>2 DEF Look, Answer, Goto, files, Steps, Answers
<1>3. ASSUME NEW h \in Handlers, Read(h) PROVE Typed'
  BY <1>0, <1>3 DEF Read, Answer, files, Steps, Answers
<1>4. ASSUME NEW h \in Handlers, HangUp(h) PROVE Typed'
  BY <1>0, <1>4 DEF HangUp, Answer, files, Steps, Answers
<1>5. ASSUME NEW h \in Handlers, AdoptOpen(h) PROVE Typed'
  <2>1. Opened(h)
    BY <1>0, <1>5, OpenOpens DEF AdoptOpen
  <2>. QED  BY <1>0, <1>5, <2>1 DEF AdoptOpen, Opened, Steps, None, Inodes
<1>6. ASSUME NEW h \in Handlers, AdoptRename(h) PROVE Typed'
  BY <1>0, <1>6 DEF AdoptRename, Publish, Steps
<1>7. ASSUME NEW h \in Handlers, AdoptFail(h) PROVE Typed'
  BY <1>0, <1>7 DEF AdoptFail, Answer, files, Steps, Answers
<1>8. ASSUME NEW w \in Writers, Copy(w) PROVE Typed'
  <2>1. /\ content' \in [Inodes -> Content] /\ fd[w] \in Inodes
        /\ off[w] + 1 \in 1 .. Blocks
    BY <1>8, CopyWrites
  <2>2. off[w] + 1 \in 0 .. Blocks /\ (off[w] + 1 # Blocks => off[w] + 1 < Blocks)
    BY <2>1, BurrowAssumption
  <2>3. /\ off' \in [Writers -> 0 .. Blocks]
        /\ off'[w] = off[w] + 1 /\ \A v \in Writers \ {w} : off'[v] = off[v]
    BY <1>8, <2>2 DEF Copy
  <2>4. /\ pc' \in [Writers -> Steps]
        /\ pc'[w] = IF off[w] + 1 = Blocks THEN "rename" ELSE "copy"
        /\ \A v \in Writers \ {w} : pc'[v] = pc[v]
    BY <1>8 DEF Copy, Steps
  <2>5. /\ fd' \in [Writers -> Inodes \cup {None}]
        /\ off[w] + 1 # Blocks => fd'[w] = fd[w]
        /\ \A v \in Writers \ {w} : fd'[v] = fd[v]
    BY <1>8 DEF Copy
  <2>6. TypeOK'
    BY <1>8, <2>1, <2>3, <2>4, <2>5 DEF Copy
  <2>7. Handed'
    <3>. SUFFICES ASSUME NEW v \in Writers
                  PROVE  /\ pc'[v] = "copy" => fd'[v] # None /\ off'[v] < Blocks
                         /\ pc'[v] = "read" => fd'[v] # None
      OBVIOUS
    <3>1. CASE v = w
      BY <3>1, <1>8, <2>2, <2>3, <2>4, <2>5 DEF Copy
    <3>2. CASE v # w
      BY <3>2, <2>3, <2>4, <2>5
    <3>. QED  BY <3>1, <3>2
  <2>. QED  BY <2>6, <2>7
<1>9. CASE Crash
  BY <1>0, <1>9 DEF Crash, files, Steps, Answers
<1>10. CASE DeployOpen
  <2>1. Opened("op")
    BY <1>0, <1>10, OpenOpens DEF DeployOpen
  <2>2. deploys' \in 0 .. MaxDeploys
    BY <1>10, BurrowAssumption DEF DeployOpen
  <2>. QED  BY <1>0, <1>10, <2>1, <2>2 DEF DeployOpen, Opened, Steps, None, Inodes
<1>11. CASE DeployMove
  BY <1>0, <1>11 DEF DeployMove, Publish, Goto, Steps
<1>12. CASE DeployStop
  BY <1>0, <1>12 DEF DeployStop, Goto, files, Steps
<1>13. CASE Rollback
  <2>1. deploys' \in 0 .. MaxDeploys
    BY <1>13, BurrowAssumption DEF Rollback
  <2>. QED  BY <1>0, <1>13, <2>1 DEF Rollback
<1>14. CASE UNCHANGED vars
  BY <1>14 DEF vars
<1>. QED  BY <1>1, <1>2, <1>3, <1>4, <1>5, <1>6, <1>7, <1>8, <1>9, <1>10, <1>11,
             <1>12, <1>13, <1>14 DEF Next

--------------------------------------------------------------------------------
LEMMA LoneStep == Typed /\ Typed' /\ Lone /\ [Next]_vars => Lone'
<1>. SUFFICES ASSUME Typed, Typed', Lone, [Next]_vars, ~overlapped' PROVE Lone'
  BY DEF Lone
<1>. USE DEF Copying
<1>0. /\ "op" \in Writers /\ Handlers \subseteq Writers
      /\ fd \in [Writers -> Inodes \cup {None}] /\ pc \in [Writers -> Steps]
      /\ off \in [Writers -> 0 .. Blocks]
  BY DEF Writers, Typed, TypeOK
<1>1. ASSUME ~overlapped, UNCHANGED files,
             \A w \in Writers : /\ pc'[w] \in {"copy", "rename"} => pc'[w] = pc[w]
                                /\ pc'[w] = "copy" => fd'[w] = fd[w] /\ off'[w] = off[w]
      PROVE  Lone'
  BY <1>1 DEF Lone, files, Source, Whole
<1>2. ASSUME NEW w \in Writers, Opened(w) PROVE Lone'
  <2>1. /\ ~overlapped /\ \A v \in Writers \ {w} : ~Copying(v)
    BY <1>2 DEF Opened
  <2>2. /\ \A v \in Writers \ {w} : pc'[v] = pc[v]
        /\ pc'[w] = "copy" /\ fd'[w] = tmp' /\ off'[w] = 0
    BY <1>0, <1>2 DEF Opened
  <2>. QED  BY <2>1, <2>2 DEF Lone
<1>3. ASSUME NEW w \in Writers, pc[w] = "rename", tmp # None, ~overlapped,
             pc'[w] \notin {"copy", "rename"}, \A v \in Writers \ {w} : pc'[v] = pc[v]
      PROVE  Lone'
  BY <1>3 DEF Lone
<1>4. ASSUME NEW h \in Handlers, Ask(h) PROVE Lone'
  BY <1>0, <1>1, <1>4 DEF Ask, Goto
<1>5. ASSUME NEW h \in Handlers, Look(h) PROVE Lone'
  BY <1>0, <1>1, <1>5 DEF Look, Goto, Answer
<1>6. ASSUME NEW h \in Handlers, Read(h) \/ HangUp(h) \/ AdoptFail(h) PROVE Lone'
  BY <1>0, <1>1, <1>6 DEF Read, HangUp, AdoptFail, Answer
<1>7. ASSUME NEW h \in Handlers, AdoptOpen(h) PROVE Lone'
  BY <1>0, <1>2, <1>7, OpenOpens DEF AdoptOpen
<1>8. ASSUME NEW h \in Handlers, AdoptRename(h) PROVE Lone'
  BY <1>0, <1>3, <1>8 DEF AdoptRename, Publish
<1>9. ASSUME NEW w \in Writers, Copy(w) PROVE Lone'
  <2>1. /\ ~overlapped /\ tmp' = tmp /\ pc[w] = "copy" /\ fd[w] = tmp
        /\ \A v \in Writers \ {w} : ~Copying(v) /\ pc'[v] = pc[v]
        /\ \A b \in 1 .. off[w] : content[tmp][b] = Source(w)
    BY <1>0, <1>9 DEF Copy, Lone
  <2>2. /\ content'[tmp][off[w] + 1] = Source(w)
        /\ \A b \in 1 .. off[w] : content'[tmp][b] = content[tmp][b]
        /\ tmp \in Inodes
    BY <1>9, <2>1, CopyWrites
  <2>3. off'[w] = off[w] + 1 /\ off[w] \in Nat
    BY <1>0, <1>9, BurrowAssumption DEF Copy
  <2>4. \A b \in 1 .. off[w] + 1 : content'[tmp][b] = Source(w)
    <3>1. \A b \in 1 .. off[w] + 1 : b \in 1 .. off[w] \/ b = off[w] + 1
      BY <2>3
    <3>. QED  BY <2>1, <2>2, <3>1
  <2>5. CASE off[w] + 1 = Blocks
    <3>1. pc'[w] = "rename"
      BY <1>0, <1>9, <2>5 DEF Copy
    <3>2. Whole(content'[tmp])
      BY <2>4, <2>5 DEF Whole, Source, Brains
    <3>3. tmp # None
      BY <2>2 DEF Inodes, None
    <3>. QED  BY <2>1, <3>1, <3>2, <3>3 DEF Lone
  <2>6. CASE off[w] + 1 # Blocks
    <3>1. pc'[w] = "copy" /\ fd'[w] = tmp
      BY <1>0, <1>9, <2>1, <2>6 DEF Copy
    <3>. QED  BY <2>1, <2>3, <2>4, <3>1 DEF Lone, Source
  <2>. QED  BY <2>5, <2>6
<1>10. CASE Crash
  BY <1>0, <1>1, <1>10 DEF Crash
<1>11. CASE DeployOpen
  BY <1>0, <1>2, <1>11, OpenOpens DEF DeployOpen
<1>12. CASE DeployMove
  BY <1>0, <1>3, <1>12 DEF DeployMove, Publish, Goto
<1>13. CASE DeployStop
  BY <1>0, <1>1, <1>13 DEF DeployStop, Goto
<1>14. CASE Rollback
  BY <1>14 DEF Rollback, Lone, Whole, Source
<1>15. CASE UNCHANGED vars
  BY <1>1, <1>15 DEF vars, files
<1>. QED  BY <1>4, <1>5, <1>6, <1>7, <1>8, <1>9, <1>10, <1>11, <1>12, <1>13, <1>14,
             <1>15 DEF Next

LEMMA UndisturbedStep ==
    Typed /\ Typed' /\ Lone /\ Undisturbed /\ [Next]_vars => Undisturbed'
<1>. SUFFICES ASSUME Typed, Typed', Lone, Undisturbed, [Next]_vars, ~overlapped'
              PROVE  Undisturbed'
  BY DEF Undisturbed
<1>0. /\ "op" \in Writers /\ Handlers \subseteq Writers
      /\ fd \in [Writers -> Inodes \cup {None}] /\ pc \in [Writers -> Steps]
      /\ bc \in Inodes \cup {None} /\ (bc # None => bc # tmp)
      /\ \A w \in Writers : pc[w] = "read" => fd[w] \in Inodes
  BY DEF Writers, Typed, TypeOK, Handed
<1>1. ASSUME ~overlapped, UNCHANGED files,
             \A w \in Writers : pc'[w] = "read" => pc[w] = "read" /\ fd'[w] = fd[w]
      PROVE  Undisturbed'
  BY <1>1 DEF Undisturbed, files, Whole
<1>2. ASSUME NEW w \in Writers, Opened(w) PROVE Undisturbed'
  <2>1. ~overlapped /\ bc' = bc /\ pc'[w] = "copy"
    BY <1>0, <1>2 DEF Opened
  <2>2. \A v \in Writers : pc'[v] = "read" =>
            /\ pc[v] = "read" /\ fd'[v] = fd[v] /\ fd[v] # tmp'
    BY <1>0, <1>2, <2>1 DEF Opened, Undisturbed
  <2>3. \A i \in Inodes : i # tmp' => content'[i] = content[i]
    BY <1>2 DEF Opened
  <2>4. bc # None => bc # tmp'
    BY <1>2 DEF Opened
  <2>. QED  BY <1>0, <2>1, <2>2, <2>3, <2>4 DEF Undisturbed, Whole
<1>3. ASSUME NEW w \in Writers, pc[w] = "rename", Publish, ~overlapped,
             \A v \in Writers : pc'[v] = "read" => pc[v] = "read" /\ fd'[v] = fd[v]
      PROVE  Undisturbed'
  <2>1. Whole(content[tmp]) /\ bc' = tmp /\ tmp' = None /\ content' = content
    BY <1>3 DEF Lone, Publish
  <2>2. \A v \in Writers : pc'[v] = "read" => fd[v] # None
    BY <1>0, <1>3 DEF Inodes, None
  <2>. QED  BY <1>3, <2>1, <2>2 DEF Undisturbed, Whole
<1>4. ASSUME NEW h \in Handlers, Ask(h) PROVE Undisturbed'
  BY <1>0, <1>1, <1>4 DEF Ask, Goto
<1>5. ASSUME NEW h \in Handlers, Look(h) PROVE Undisturbed'
  <2>1. ~overlapped /\ UNCHANGED files
    BY <1>5 DEF Look
  <2>2. CASE bc # None
    <3>1. pc'[h] = "read" /\ fd'[h] = bc
      BY <1>0, <1>5, <2>2 DEF Look, Goto
    <3>2. \A v \in Writers \ {h} : pc'[v] = pc[v] /\ fd'[v] = fd[v]
      BY <1>0, <1>5, <2>2 DEF Look, Goto
    <3>. QED  BY <1>0, <2>1, <2>2, <3>1, <3>2 DEF Undisturbed, files, Whole
  <2>3. CASE bc = None
    BY <1>0, <1>1, <1>5, <2>1, <2>3 DEF Look, Goto, Answer
  <2>. QED  BY <2>2, <2>3
<1>6. ASSUME NEW h \in Handlers, Read(h) \/ HangUp(h) \/ AdoptFail(h) PROVE Undisturbed'
  BY <1>0, <1>1, <1>6 DEF Read, HangUp, AdoptFail, Answer
<1>7. ASSUME NEW h \in Handlers, AdoptOpen(h) PROVE Undisturbed'
  BY <1>0, <1>2, <1>7, OpenOpens DEF AdoptOpen
<1>8. ASSUME NEW h \in Handlers, AdoptRename(h) PROVE Undisturbed'
  BY <1>0, <1>3, <1>8 DEF AdoptRename
<1>9. ASSUME NEW w \in Writers, Copy(w) PROVE Undisturbed'
  <2>1. ~overlapped /\ UNCHANGED <<bc, tmp>> /\ fd[w] = tmp
    BY <1>9 DEF Copy, Lone
  <2>2. \A i \in Inodes : i # tmp => content'[i] = content[i]
    BY <1>9, <2>1, CopyWrites
  <2>3. \A v \in Writers : pc'[v] = "read" => pc[v] = "read" /\ fd'[v] = fd[v]
    BY <1>0, <1>9 DEF Copy
  <2>. QED  BY <1>0, <2>1, <2>2, <2>3 DEF Undisturbed, Whole
<1>10. CASE Crash
  BY <1>0, <1>1, <1>10 DEF Crash
<1>11. CASE DeployOpen
  BY <1>0, <1>2, <1>11, OpenOpens DEF DeployOpen
<1>12. CASE DeployMove
  BY <1>0, <1>3, <1>12 DEF DeployMove, Goto
<1>13. CASE DeployStop
  BY <1>0, <1>1, <1>13 DEF DeployStop, Goto
<1>14. CASE Rollback
  BY <1>14 DEF Rollback, Undisturbed, Whole
<1>15. CASE UNCHANGED vars
  BY <1>1, <1>15 DEF vars, files
<1>. QED  BY <1>4, <1>5, <1>6, <1>7, <1>8, <1>9, <1>10, <1>11, <1>12, <1>13, <1>14,
             <1>15 DEF Next

\* What a request is told comes from a whole file as long as no two copies met.
LEMMA WholeStep ==
    Typed /\ Lone /\ Undisturbed /\ Undisturbed' /\ WholeWhileAlone /\ [Next]_vars
        => WholeWhileAlone'
<1>. SUFFICES ASSUME Typed, Lone, Undisturbed, Undisturbed', WholeWhileAlone, [Next]_vars,
                     ~overlapped'
              PROVE  \A h \in Handlers : served'[h] # "half"
  BY DEF WholeWhileAlone, Undisturbed
<1>0. Handlers \subseteq Writers /\ served \in [Handlers -> Answers]
  BY DEF Writers, Typed, TypeOK
<1>1. ASSUME ~overlapped, UNCHANGED served PROVE \A h \in Handlers : served'[h] # "half"
  BY <1>1 DEF WholeWhileAlone
<1>2. ASSUME ~overlapped, NEW h \in Handlers, NEW answer, answer # "half",
             served' = [served EXCEPT ![h] = answer]
      PROVE  \A g \in Handlers : served'[g] # "half"
  BY <1>0, <1>2 DEF WholeWhileAlone
<1>3. ASSUME NEW h \in Handlers, Ask(h) PROVE \A g \in Handlers : served'[g] # "half"
  BY <1>2, <1>3 DEF Ask
<1>4. ASSUME NEW h \in Handlers, Look(h) PROVE \A g \in Handlers : served'[g] # "half"
  <2>1. ~overlapped
    BY <1>4 DEF Look
  <2>2. CASE UNCHANGED served
    BY <1>1, <2>1, <2>2
  <2>3. CASE Answer(h, "tree")
    BY <1>2, <2>1, <2>3 DEF Answer
  <2>4. CASE Answer(h, "missing")
    BY <1>2, <2>1, <2>4 DEF Answer
  <2>5. UNCHANGED served \/ Answer(h, "tree") \/ Answer(h, "missing")
    BY <1>4, Zenon DEF Look
  <2>. QED  BY <2>2, <2>3, <2>4, <2>5
<1>5. ASSUME NEW h \in Handlers, Read(h) PROVE \A g \in Handlers : served'[g] # "half"
  <2>1. Whole(content[fd[h]]) /\ ~overlapped
    BY <1>0, <1>5 DEF Read, Undisturbed
  <2>. QED  BY <1>2, <1>5, <2>1 DEF Read, Answer
<1>6. ASSUME NEW h \in Handlers, HangUp(h) \/ AdoptFail(h)
      PROVE  \A g \in Handlers : served'[g] # "half"
  BY <1>2, <1>6 DEF HangUp, AdoptFail, Answer
<1>7. ASSUME NEW h \in Handlers, AdoptOpen(h) \/ AdoptRename(h)
      PROVE  \A g \in Handlers : served'[g] # "half"
  BY <1>1, <1>7 DEF AdoptOpen, AdoptRename, Open
<1>8. ASSUME NEW w \in Writers, Copy(w) PROVE \A g \in Handlers : served'[g] # "half"
  BY <1>1, <1>8 DEF Copy
<1>9. CASE Crash
  BY <1>9 DEF Crash
<1>10. CASE DeployOpen
  BY <1>1, <1>10 DEF DeployOpen, Open
<1>11. CASE DeployMove \/ DeployStop \/ Rollback
  BY <1>1, <1>11 DEF DeployMove, DeployStop, Rollback
<1>12. CASE UNCHANGED vars
  BY <1>1, <1>12 DEF vars
<1>. QED  BY <1>3, <1>4, <1>5, <1>6, <1>7, <1>8, <1>9, <1>10, <1>11, <1>12 DEF Next

--------------------------------------------------------------------------------
\* The burrow stays filled for who adopted into it, unless it is rolled back.
LEMMA FilledStep ==
    Typed /\ Filled /\ [Next]_vars => Filled'
<1>. SUFFICES ASSUME Typed, Filled, [Next]_vars PROVE Filled'
  OBVIOUS
<1>0. /\ Handlers \subseteq Writers /\ "op" \notin Handlers
      /\ pc \in [Writers -> Steps] /\ adopted \in [Handlers -> BOOLEAN]
      /\ excused \in [Handlers -> BOOLEAN]
  BY BurrowAssumption DEF Writers, Typed, TypeOK
<1>1. ASSUME bc' = bc \/ bc' # None, UNCHANGED excused,
             \A h \in Handlers : pc'[h] = "look" => pc[h] = "look" /\ adopted'[h] = adopted[h]
      PROVE  Filled'
  BY <1>1 DEF Filled
<1>2. ASSUME NEW h \in Handlers, Ask(h) PROVE Filled'
  BY <1>0, <1>2 DEF Ask, Goto, files, Filled
<1>3. ASSUME NEW h \in Handlers, Look(h) \/ Read(h) \/ HangUp(h) PROVE Filled'
  BY <1>0, <1>1, <1>3 DEF Look, Read, HangUp, Answer, Goto, files
<1>4. ASSUME NEW h \in Handlers, AdoptOpen(h) PROVE Filled'
  BY <1>0, <1>1, <1>4 DEF AdoptOpen, Open
<1>5. ASSUME NEW h \in Handlers, AdoptRename(h) PROVE Filled'
  BY <1>5 DEF AdoptRename, Publish, Filled
<1>6. ASSUME NEW h \in Handlers, AdoptFail(h) PROVE Filled'
  BY <1>0, <1>6 DEF AdoptFail, Answer, files, Filled
<1>7. ASSUME NEW w \in Writers, Copy(w) PROVE Filled'
  BY <1>0, <1>1, <1>7 DEF Copy
<1>8. CASE Crash
  BY <1>0, <1>1, <1>8 DEF Crash, files
<1>9. CASE DeployOpen
  BY <1>0, <1>1, <1>9 DEF DeployOpen, Open
<1>10. CASE DeployMove \/ DeployStop
  BY <1>0, <1>1, <1>10 DEF DeployMove, DeployStop, Publish, Goto, files
<1>11. CASE Rollback
  BY <1>11 DEF Rollback, Filled
<1>12. CASE UNCHANGED vars
  BY <1>1, <1>12 DEF vars
<1>. QED  BY <1>2, <1>3, <1>4, <1>5, <1>6, <1>7, <1>8, <1>9, <1>10, <1>11, <1>12 DEF Next

\* Nobody is refused but for a failed copy, a rollback or a lost temporary file.
LEMMA NoVainStep ==
    Typed /\ Lone /\ Filled /\ NoVain404 /\ [Next]_vars => NoVain404'
<1>. SUFFICES ASSUME Typed, Lone, Filled, NoVain404, [Next]_vars PROVE NoVain404'
  OBVIOUS
<1>0. /\ Handlers \subseteq Writers /\ served \in [Handlers -> Answers]
      /\ excused \in [Handlers -> BOOLEAN]
  BY DEF Writers, Typed, TypeOK
<1>1. ASSUME overlapped => overlapped', UNCHANGED <<served, excused>> PROVE NoVain404'
  BY <1>1 DEF NoVain404
<1>2. ASSUME UNCHANGED <<overlapped, excused>>, NEW h \in Handlers, NEW answer,
             served' = [served EXCEPT ![h] = answer],
             answer = "missing" => overlapped \/ excused[h]
      PROVE  NoVain404'
  BY <1>0, <1>2 DEF NoVain404
<1>3. ASSUME NEW h \in Handlers, Ask(h) PROVE NoVain404'
  BY <1>0, <1>3 DEF Ask, NoVain404
<1>4. ASSUME NEW h \in Handlers, Look(h) PROVE NoVain404'
  <2>1. UNCHANGED <<overlapped, excused>>
    BY <1>4 DEF Look
  <2>2. CASE UNCHANGED served
    BY <1>1, <2>1, <2>2
  <2>3. CASE Answer(h, "tree")
    BY <1>2, <2>1, <2>3 DEF Answer
  <2>4. CASE bc = None /\ adopted[h] /\ Answer(h, "missing")
    BY <1>2, <1>4, <2>1, <2>4 DEF Look, Answer, Filled
  <2>5. \/ UNCHANGED served
        \/ Answer(h, "tree")
        \/ bc = None /\ adopted[h] /\ Answer(h, "missing")
    BY <1>4, Zenon DEF Look
  <2>. QED  BY <2>2, <2>3, <2>4, <2>5
<1>5. ASSUME NEW h \in Handlers, Read(h) \/ HangUp(h) PROVE NoVain404'
  BY <1>2, <1>5 DEF Read, HangUp, Answer
<1>6. ASSUME NEW h \in Handlers, AdoptOpen(h) \/ AdoptRename(h) PROVE NoVain404'
  BY <1>1, <1>6 DEF AdoptOpen, AdoptRename, Open
<1>7. ASSUME NEW h \in Handlers, AdoptFail(h) PROVE NoVain404'
  <2>1. overlapped \/ excused'[h]
    BY <1>0, <1>7 DEF AdoptFail, Lone
  <2>2. \A g \in Handlers : g # h => excused'[g] = excused[g] /\ served'[g] = served[g]
    BY <1>0, <1>7 DEF AdoptFail, Answer
  <2>. QED  BY <1>7, <2>1, <2>2 DEF AdoptFail, NoVain404
<1>8. ASSUME NEW w \in Writers, Copy(w) PROVE NoVain404'
  BY <1>1, <1>8 DEF Copy
<1>9. CASE Crash
  BY <1>9 DEF Crash, NoVain404
<1>10. CASE DeployOpen
  BY <1>1, <1>10 DEF DeployOpen, Open
<1>11. CASE DeployMove \/ DeployStop
  BY <1>1, <1>11 DEF DeployMove, DeployStop
<1>12. CASE Rollback
  BY <1>12 DEF Rollback, NoVain404
<1>13. CASE UNCHANGED vars
  BY <1>1, <1>13 DEF vars
<1>. QED  BY <1>3, <1>4, <1>5, <1>6, <1>7, <1>8, <1>9, <1>10, <1>11, <1>12, <1>13 DEF Next

--------------------------------------------------------------------------------
LEMMA IInvInit == Init => IInv
<1>. SUFFICES ASSUME Init PROVE IInv
  OBVIOUS
<1>1. Handlers \subseteq Writers
  BY DEF Writers
<1>. QED  BY <1>1, TypedInit DEF Init, IInv, Lone, Undisturbed, WholeWhileAlone, Filled,
                                 NoVain404, Copying

LEMMA IInvStep == IInv /\ [Next]_vars => IInv'
BY TypedStep, LoneStep, UndisturbedStep, WholeStep, FilledStep, NoVainStep DEF IInv

LEMMA IInvHolds == Spec => []IInv
BY IInvInit, IInvStep, PTL DEF Spec

\* Every variable keeps its type: there is always a free file for a new copy,
\* and the two names never point to one, however the renames of the handlers
\* and of the operator fall.
THEOREM TypeOKHolds == Spec => []TypeOK
<1>1. IInv => TypeOK
  BY DEF IInv, Typed
<1>. QED  BY <1>1, IInvHolds, PTL

\* Until two copies were under way at once, what is published and what was
\* served is one whole brain, whatever was killed or interrupted half way.
THEOREM WholeWhileAloneHolds == Spec => []WholeWhileAlone
<1>1. IInv => WholeWhileAlone
  BY DEF IInv
<1>. QED  BY <1>1, IInvHolds, PTL

\* A request is refused its bytecode only if its copy failed, the operator
\* rolled back meanwhile, or two copies met.
THEOREM NoVain404Holds == Spec => []NoVain404
<1>1. IInv => NoVain404
  BY DEF IInv
<1>. QED  BY <1>1, IInvHolds, PTL
================================================================================
