-------------------------- MODULE ClapierPilotProofs --------------------------
(***************************************************************************)
(* What the pilot page keeps, for any number of forms and rabbits and any  *)
(* commands a button may send: a rabbit plays what was sent, a browser is  *)
(* told what is so, and nothing passes the gate that the rabbit would not  *)
(* understand.                                                             *)
(***************************************************************************)
EXTENDS ClapierPilot, SequenceTheorems, TLAPS

\* The variables have their types.
Typed ==
    /\ post \in [Posts -> Asking] /\ pc \in [Posts -> Steps]
    /\ told \in [Posts -> {"nothing", "refused", "thinking", "answered", "no answer"}]
    /\ detached \subseteq Posts
    /\ dest \in [Places -> Posts \cup {None}] /\ tmp \in [Places -> Posts \cup {None}]
    /\ content \in [Posts -> SUBSET Posts] /\ got \in [Posts -> SUBSET (Posts \cup {None})]
    /\ commands \subseteq Posts /\ replies \subseteq Posts
    /\ volume \in [Rabbits -> Nat]
    /\ fetch \in [Posts -> {"none", "look", "read", "done"}]
    /\ fd \in [Posts -> Posts \cup {None}]
    /\ installs \in [Places -> Seq(Posts)] /\ floor \in [Posts -> Nat]
    /\ crossed \in [Places -> BOOLEAN]

Early == {"idle", "open", "write", "rename"}

\* A file bears the name of the POST that created it, in that POST's place.
Owned(i, p) == i \in Posts /\ pc[i] \notin {"idle", "open"} /\ Place(i) = p

\* Every name, and every descriptor, is of a file of its own place, and no
\* reader holds the file a writer is given.
Homes ==
    /\ \A p \in Places : /\ dest[p] # None => Owned(dest[p], p) /\ dest[p] # tmp[p]
                         /\ tmp[p] # None => Owned(tmp[p], p)
    /\ \A n \in Posts :
          /\ pc[n] = "write" => Owned(fd[n], Place(n))
          /\ fetch[n] = "read" => Owned(fd[n], Wanted(n)) /\ fd[n] # tmp[Wanted(n)]

\* How far a POST has come tells what it may have left behind.
Staged ==
    \A n \in Posts :
        /\ pc[n] = "idle" => told[n] = "nothing" /\ floor[n] = 0
        /\ pc[n] \in Early \cup {"send"} =>
              n \notin commands \cup replies /\ fetch[n] = "none" /\ got[n] = Unfed
        /\ pc[n] \in Early \/ told[n] = "refused" => \A p \in Places : n \notin Range(installs[p])
        /\ told[n] = "refused" => pc[n] = "done"
        /\ n \in replies \/ told[n] = "answered" => fetch[n] # "none"
        /\ (pc[n] \in {"send", "await"} \/ told[n] = "answered") /\ post[n].kind = "dance"
              => n \in Range(installs[Place(n)])
        /\ floor[n] <= Len(installs[Wanted(n)])

\* What reaches a rabbit has passed the gate, or is one of clapier's own commands.
Fit(c) == Understood(c) /\ (c.verb = "vol" => c.level >= 40)
Vetted ==
    /\ \A n \in Posts : /\ pc[n] = "idle" => n \notin commands /\ fetch[n] = "none"
                        /\ pc[n] \notin {"idle", "done"} \/ n \in commands \/ fetch[n] # "none"
                              => Fit(post[n].cmd)
    /\ \A r \in Rabbits : volume[r] >= 40

\* Until two writers of a file meet: who writes it is alone and writes its
\* temporary file, the name is of the last one installed, and readers of it
\* hold one that was, no older than their command.
Tidy(p) ==
    /\ \A m, n \in Posts : Writing(m) /\ Writing(n) /\ Place(m) = p /\ Place(n) = p => m = n
    /\ \A n \in Posts : Place(n) = p =>
          /\ pc[n] = "write" => fd[n] = tmp[p] /\ content[tmp[p]] = {}
          /\ pc[n] = "rename" => tmp[p] # None /\ content[tmp[p]] = {n}
    /\ dest[p] # None => /\ Len(installs[p]) > 0
                         /\ content[dest[p]] = {installs[p][Len(installs[p])]}
    /\ \A n \in Posts : fetch[n] = "read" /\ Wanted(n) = p =>
          \E k \in DOMAIN installs[p] : content[fd[n]] = {installs[p][k]} /\ k >= floor[n]
Tidied == \A p \in Places : ~crossed[p] => Tidy(p)

IInv == Typed /\ Homes /\ Staged /\ Vetted /\ Tidied /\ PlaysWhatWasSent

--------------------------------------------------------------------------------
LEMMA PlacesIn ==
    ASSUME Typed, NEW n \in Posts
    PROVE  Place(n) \in Places /\ Wanted(n) \in Places
<1>1. post[n].mac \in Rabbits /\ post[n].to \in Rabbits
  BY DEF Typed, Asking
<1>. QED  BY <1>1 DEF Place, Wanted, Places, Dirs

LEMMA CommandIn ==
    ASSUME Typed, NEW n \in Posts
    PROVE  post[n].cmd.level \in Nat /\ post[n].to \in Rabbits
<1>1. post[n] \in Asking
  BY DEF Typed
<1>2. /\ post[n].to \in Rabbits
      /\ post[n].cmd \in {[verb |-> "none", level |-> 0, spaced |-> FALSE]}
                        \cup [verb : Verbs, level : Nat, spaced : BOOLEAN]
  BY <1>1 DEF Asking
<1>. QED  BY <1>2

\* What the gate lets through is a command, and one the rabbit understands.
LEMMA Gate ==
    ASSUME NEW c \in Presses, NEW v \in vet_ctl(c)
    PROVE  v \in [verb : Verbs, level : Nat, spaced : BOOLEAN] /\ Fit(v)
<1>1. c \in [verb : Verbs, level : Nat, spaced : BOOLEAN]
  BY PilotAssumption
<1>2. /\ c.verb # "other" /\ (c.verb = "vol" => c.level \in 40 .. 254)
      /\ v = [c EXCEPT !.spaced = FALSE]
  BY DEF vet_ctl
<1>3. /\ v \in [verb : Verbs, level : Nat, spaced : BOOLEAN]
      /\ v.verb = c.verb /\ v.level = c.level /\ v.spaced = FALSE
  BY <1>1, <1>2
<1>. QED  BY <1>1, <1>2, <1>3 DEF Fit, Understood, Verbs

--------------------------------------------------------------------------------
\* What a form does until it first awaits, whichever it is.
Taken(n) ==
    /\ pc[n] = "idle" /\ pc' \in [Posts -> Steps] /\ pc'[n] \in {"open", "send", "done"}
    /\ post' \in [Posts -> Asking]
    /\ pc'[n] # "done" => Fit(post'[n].cmd)
    /\ pc'[n] = "send" => post'[n].kind = "ctl"
    /\ told' \in [Posts -> {"nothing", "refused", "thinking", "answered", "no answer"}]
    /\ told'[n] \in {"nothing", "refused", "thinking"}
    /\ told'[n] = "refused" => pc'[n] = "done"
    /\ \A m \in Posts \ {n} : post'[m] = post[m] /\ pc'[m] = pc[m] /\ told'[m] = told[m]
    /\ UNCHANGED <<detached, files, air, rabbit, floor>>

LEMMA FormTaken ==
    ASSUME Typed, Staged, NEW n \in Posts, dance_post(n) \/ ctl_post(n) \/ say_post(n)
    PROVE  Taken(n)
<1>. DEFINE Commands == [verb : Verbs, level : Nat, spaced : BOOLEAN]
<1>1. Chor \in Commands /\ Play \in Commands /\ Fit(Chor) /\ Fit(Play)
  BY DEF Chor, Play, Fit, Understood, Verbs
<1>2. ASSUME NEW kind \in {"dance", "say", "ctl"}, NEW mac \in Rabbits, NEW to \in Rabbits,
             NEW cmd \in Commands \cup {Nothing}, Ask(n, kind, mac, to, cmd),
             NEW step \in {"open", "send", "done"}, Goto(n, step),
             NEW what \in {"nothing", "refused", "thinking"}, told' = [told EXCEPT ![n] = what],
             step # "done" => Fit(cmd) /\ what # "refused", step = "send" => kind = "ctl"
      PROVE  Taken(n)
  <2>1. [kind |-> kind, mac |-> mac, to |-> to, cmd |-> cmd] \in Asking
    BY DEF Asking, Nothing
  <2>2. /\ post' \in [Posts -> Asking] /\ post'[n].kind = kind /\ post'[n].cmd = cmd
        /\ \A m \in Posts \ {n} : post'[m] = post[m]
    BY <1>2, <2>1 DEF Ask, Typed
  <2>3. pc' \in [Posts -> Steps] /\ pc'[n] = step /\ \A m \in Posts \ {n} : pc'[m] = pc[m]
    BY <1>2 DEF Goto, Typed, Steps
  <2>4. /\ told' \in [Posts -> {"nothing", "refused", "thinking", "answered", "no answer"}]
        /\ told'[n] = what /\ \A m \in Posts \ {n} : told'[m] = told[m]
    BY <1>2 DEF Typed
  <2>. QED  BY <1>2, <2>2, <2>3, <2>4 DEF Taken, Ask
<1>3. ASSUME pc[n] = "idle", UNCHANGED told PROVE told' = [told EXCEPT ![n] = "nothing"]
  BY <1>3 DEF Typed, Staged
<1>. HIDE DEF Commands
<1>4. CASE dance_post(n)
  <2>1. PICK mac, to \in Rabbits :
           /\ Ask(n, "dance", mac, to, Chor)
           /\ \/ Goto(n, "open") /\ UNCHANGED told
              \/ Goto(n, "done") /\ Tell(n, "refused")
    BY <1>4 DEF dance_post
  <2>2. CASE Goto(n, "open") /\ UNCHANGED told
    BY <1>1, <1>2, <1>3, <2>1, <2>2 DEF Ask
  <2>3. CASE Goto(n, "done") /\ Tell(n, "refused")
    BY <1>1, <1>2, <2>1, <2>3 DEF Tell
  <2>. QED  BY <2>1, <2>2, <2>3
<1>5. CASE say_post(n)
  <2>1. SayRabbit \in Rabbits
    BY PilotAssumption
  <2>. QED  BY <1>1, <1>2, <1>5, <2>1 DEF say_post, Tell
<1>6. CASE ctl_post(n)
  <2>1. PICK to \in Rabbits, c \in Presses, known \in BOOLEAN :
           \/ \E v \in vet_ctl(c) : Ask(n, "ctl", to, to, v) /\ Goto(n, "send") /\ UNCHANGED told
           \/ /\ Ask(n, "ctl", to, to, Nothing)
              /\ Goto(n, "done") /\ Tell(n, "refused")
    BY <1>6 DEF ctl_post
  <2>2. ASSUME NEW v \in vet_ctl(c), Ask(n, "ctl", to, to, v), Goto(n, "send"), UNCHANGED told
        PROVE  Taken(n)
    <3>1. v \in Commands /\ Fit(v)
      BY Gate DEF Commands
    <3>2. told' = [told EXCEPT ![n] = "nothing"]
      BY <1>3, <2>2 DEF Ask
    <3>. QED  BY <1>2, <2>2, <3>1, <3>2
  <2>3. CASE Ask(n, "ctl", to, to, Nothing) /\ Goto(n, "done") /\ Tell(n, "refused")
    BY <1>2, <2>3 DEF Tell
  <2>. QED  BY <2>1, <2>2, <2>3
<1>. QED  BY <1>4, <1>5, <1>6

\* What a rename appends.
LEMMA Installed ==
    ASSUME Typed, NEW n \in Posts, Rename(n)
    PROVE  /\ installs' \in [Places -> Seq(Posts)]
           /\ \A q \in Places \ {Place(n)} : installs'[q] = installs[q]
           /\ LET s == installs[Place(n)]
                  t == installs'[Place(n)]
              IN /\ Len(s) \in Nat /\ Len(t) = Len(s) + 1
                 /\ DOMAIN s = 1 .. Len(s) /\ DOMAIN t = 1 .. Len(t)
                 /\ \A k \in 1 .. Len(s) : t[k] = s[k]
                 /\ t[Len(t)] = n
<1>. DEFINE p == Place(n)
            s == installs[p]
<1>1. p \in Places /\ s \in Seq(Posts)
  BY PlacesIn DEF Typed
<1>2. installs' = [installs EXCEPT ![p] = Append(s, n)]
  BY DEF Rename
<1>3. /\ Append(s, n) \in Seq(Posts) /\ Len(Append(s, n)) = Len(s) + 1
      /\ \A k \in 1 .. Len(s) : Append(s, n)[k] = s[k]
      /\ Append(s, n)[Len(s) + 1] = n
  BY <1>1, AppendProperties
<1>4. /\ Len(s) \in Nat /\ DOMAIN s = 1 .. Len(s)
      /\ DOMAIN Append(s, n) = 1 .. Len(Append(s, n))
  BY <1>1, <1>3, LenProperties
<1>5. /\ installs' \in [Places -> Seq(Posts)] /\ installs'[p] = Append(s, n)
      /\ \A q \in Places \ {p} : installs'[q] = installs[q]
  <2>. HIDE DEF p
  <2>. QED  BY <1>1, <1>2, <1>3 DEF Typed
<1>. QED  BY <1>3, <1>4, <1>5

--------------------------------------------------------------------------------
LEMMA TypedStep == Typed /\ Staged /\ Homes /\ [Next]_vars => Typed'
<1>. SUFFICES ASSUME Typed, Staged, Homes, [Next]_vars PROVE Typed'
  OBVIOUS
<1>0. \A n \in Posts : Place(n) \in Places /\ Wanted(n) \in Places
  BY PlacesIn
<1>1. ASSUME NEW n \in Posts, dance_post(n) \/ ctl_post(n) \/ say_post(n) PROVE Typed'
  BY <1>1, FormTaken DEF Taken, Typed, files, air, rabbit
<1>. USE DEF Typed, Goto, files, air, rabbit
<1>2. ASSUME NEW n \in Posts, Open(n) PROVE Typed'
  <2>. DEFINE p == Place(n)
              inode == IF tmp[p] = None THEN n ELSE tmp[p]
  <2>1. inode \in Posts /\ p \in Places
    BY <1>0
  <2>2. /\ pc' = [pc EXCEPT ![n] = "write"] /\ tmp' = [tmp EXCEPT ![p] = inode]
        /\ content' = [content EXCEPT ![inode] = {}] /\ fd' = [fd EXCEPT ![n] = inode]
        /\ \E b \in BOOLEAN : crossed' = [crossed EXCEPT ![p] = b]
        /\ UNCHANGED <<post, told, detached, dest, installs, air, volume, fetch, got, floor>>
    BY <1>2 DEF Open, Truncated
  <2>. HIDE DEF p, inode
  <2>. QED  BY <2>1, <2>2 DEF Steps
<1>3. ASSUME NEW n \in Posts, Write(n) PROVE Typed'
  BY <1>3 DEF Write, Steps
<1>4. ASSUME NEW n \in Posts, Rename(n) PROVE Typed'
  <2>1. installs' \in [Places -> Seq(Posts)]
    BY <1>4, Installed
  <2>. QED  BY <1>0, <1>4, <2>1 DEF Rename, Freed, Steps
<1>5. ASSUME NEW n \in Posts, Fail(n) PROVE Typed'
  BY <1>5 DEF Fail, Tell, Steps
<1>6. ASSUME NEW n \in Posts, Send(n) PROVE Typed'
  <2>1. Len(installs[Wanted(n)]) \in Nat
    BY <1>0, LenProperties
  <2>. QED  BY <1>6, <2>1 DEF Send, Steps
<1>7. ASSUME NEW n \in Posts, Hear(n) \/ Timeout(n) PROVE Typed'
  <2>1. /\ pc' = [pc EXCEPT ![n] = "done"]
        /\ told' = told \/ told' = [told EXCEPT ![n] = "answered"]
              \/ told' = [told EXCEPT ![n] = "no answer"]
        /\ replies' \subseteq Posts
        /\ UNCHANGED <<post, detached, files, commands, rabbit, floor>>
    BY <1>7 DEF Hear, Timeout, Answered, Tell
  <2>2. pc' \in [Posts -> Steps]
    BY <2>1 DEF Steps
  <2>3. told' \in [Posts -> {"nothing", "refused", "thinking", "answered", "no answer"}]
    BY <2>1
  <2>. QED  BY <2>1, <2>2, <2>3
<1>8. ASSUME NEW n \in Posts, HangUp(n) PROVE Typed'
  <2>1. pc' \in [Posts -> Steps]
    BY <1>8 DEF HangUp, Steps
  <2>2. detached' \subseteq Posts
    BY <1>8 DEF HangUp
  <2>3. UNCHANGED <<post, told, files, air, rabbit, floor>>
    BY <1>8 DEF HangUp
  <2>. QED  BY <2>1, <2>2, <2>3
<1>9. ASSUME NEW n \in Posts, Run(n) PROVE Typed'
  <2>1. post[n].cmd.level \in Nat /\ post[n].to \in Rabbits
    BY CommandIn
  <2>2. volume' \in [Rabbits -> Nat]
    BY <1>9, <2>1 DEF Run
  <2>. QED  BY <1>9, <2>2 DEF Run
<1>10. ASSUME NEW n \in Posts, Lose(n) PROVE Typed'
  BY <1>10 DEF Lose
<1>11. ASSUME NEW n \in Posts, Look(n) PROVE Typed'
  BY <1>0, <1>11 DEF Look
<1>12. ASSUME NEW n \in Posts, Read(n) PROVE Typed'
  BY <1>12 DEF Read, Homes, Owned
<1>13. ASSUME NEW n \in Posts, FetchFails(n) PROVE Typed'
  BY <1>13 DEF FetchFails
<1>14. CASE Crash
  BY <1>14 DEF Crash, Steps
<1>15. CASE UNCHANGED vars
  BY <1>15 DEF vars
<1>. QED  BY <1>1, <1>2, <1>3, <1>4, <1>5, <1>6, <1>7, <1>8, <1>9, <1>10, <1>11, <1>12,
             <1>13, <1>14, <1>15 DEF Next, Handler

--------------------------------------------------------------------------------
\* A POST that was made stays what it is, and never opens its file again.
Onward ==
    \A i \in Posts : /\ pc[i] # "idle" => pc'[i] # "idle" /\ post'[i] = post[i]
                     /\ pc[i] \notin {"idle", "open"} => pc'[i] \notin {"idle", "open"}

LEMMA GoesOnward == Typed /\ Staged /\ [Next]_vars => Onward
<1>. SUFFICES ASSUME Typed, Staged, [Next]_vars PROVE Onward
  OBVIOUS
<1>. USE DEF Typed, Goto, Onward
<1>1. ASSUME NEW n \in Posts, dance_post(n) \/ ctl_post(n) \/ say_post(n) PROVE Onward
  BY <1>1, FormTaken DEF Taken
<1>2. ASSUME NEW n \in Posts, Open(n) \/ Write(n) \/ Rename(n) \/ Fail(n) PROVE Onward
  BY <1>2 DEF Open, Write, Rename, Fail
<1>3. ASSUME NEW n \in Posts, Send(n) \/ Hear(n) \/ Timeout(n) \/ HangUp(n) PROVE Onward
  BY <1>3 DEF Send, Hear, Timeout, HangUp, Answered
<1>4. ASSUME NEW n \in Posts, Run(n) \/ Lose(n) \/ Look(n) \/ Read(n) \/ FetchFails(n)
      PROVE  Onward
  BY <1>4 DEF Run, Lose, Look, Read, FetchFails
<1>5. CASE Crash
  BY <1>5 DEF Crash
<1>6. CASE UNCHANGED vars
  BY <1>6 DEF vars
<1>. QED  BY <1>1, <1>2, <1>3, <1>4, <1>5, <1>6 DEF Next, Handler

LEMMA HomesStep == Typed /\ Staged /\ Homes /\ [Next]_vars => Homes'
<1>. SUFFICES ASSUME Typed, Staged, Homes, [Next]_vars PROVE Homes'
  OBVIOUS
<1>0. /\ Onward
      /\ \A n \in Posts : Place(n) \in Places /\ Wanted(n) \in Places
      /\ None \notin Posts
  BY GoesOnward, PlacesIn, PilotAssumption
<1>1. \A n \in Posts : pc[n] = "write" => fetch[n] = "none"
  BY DEF Staged, Early
<1>2. \A n \in Posts : fetch[n] # "none" => pc[n] # "idle"
  BY DEF Staged, Early
<1>3. \A n \in Posts : pc[n] # "idle" => Place(n)' = Place(n) /\ Wanted(n)' = Wanted(n)
  BY <1>0 DEF Onward, Place, Wanted
<1>3a. \A n \in Posts :
          /\ pc[n] = "write" => fd[n] \in Posts /\ Owned(fd[n], Place(n))
          /\ fetch[n] = "read" => fd[n] \in Posts /\ Owned(fd[n], Wanted(n))
  BY DEF Homes, Owned
<1>4. ASSUME \A p \in Places : /\ dest'[p] # None => Owned(dest'[p], p) /\ dest'[p] # tmp'[p]
                               /\ tmp'[p] # None => Owned(tmp'[p], p),
             \A n \in Posts :
                /\ pc'[n] = "write" => pc[n] # "idle" /\ Owned(fd'[n], Place(n))
                /\ fetch'[n] = "read" => /\ pc[n] # "idle" /\ Owned(fd'[n], Wanted(n))
                                         /\ fd'[n] # tmp'[Wanted(n)]
      PROVE  Homes'
  <2>1. \A i \in Posts, p \in Places : Owned(i, p) =>
            /\ pc'[i] \notin {"idle", "open"} /\ Place(i)' = p
    BY <1>0, <1>3 DEF Onward, Owned
  <2>2. ASSUME NEW p \in Places
        PROVE  /\ dest'[p] # None => Owned(dest[p], p)' /\ dest'[p] # tmp'[p]
               /\ tmp'[p] # None => Owned(tmp[p], p)'
    BY <1>4, <2>1 DEF Owned, Place
  <2>3. ASSUME NEW n \in Posts, pc'[n] = "write" PROVE Owned(fd[n], Place(n))'
    <3>1. /\ fd'[n] \in Posts /\ Owned(fd'[n], Place(n)) /\ Place(n) \in Places
          /\ Place(n)' = Place(n)
      BY <1>0, <1>3, <1>4, <2>3 DEF Owned
    <3>2. ASSUME NEW i \in Posts, i = fd'[n]
          PROVE  pc'[i] \notin {"idle", "open"} /\ Place(i)' = Place(n)'
      BY <2>1, <3>1, <3>2
    <3>. QED  BY <3>1, <3>2 DEF Owned, Place
  <2>4. ASSUME NEW n \in Posts, fetch'[n] = "read"
        PROVE  Owned(fd[n], Wanted(n))' /\ fd'[n] # tmp'[Wanted(n)']
    <3>1. /\ fd'[n] \in Posts /\ Owned(fd'[n], Wanted(n)) /\ Wanted(n) \in Places
          /\ Wanted(n)' = Wanted(n) /\ fd'[n] # tmp'[Wanted(n)]
      BY <1>0, <1>3, <1>4, <2>4 DEF Owned
    <3>2. ASSUME NEW i \in Posts, i = fd'[n]
          PROVE  pc'[i] \notin {"idle", "open"} /\ Place(i)' = Wanted(n)'
      BY <2>1, <3>1, <3>2
    <3>. QED  BY <3>1, <3>2 DEF Owned, Place, Wanted
  <2>. QED  BY <2>2, <2>3, <2>4 DEF Homes
<1>5. ASSUME UNCHANGED <<dest, tmp>>,
             \A n \in Posts : /\ pc'[n] = "write" => pc[n] = "write" /\ fd'[n] = fd[n]
                              /\ fetch'[n] = "read" => fetch[n] = "read" /\ fd'[n] = fd[n]
      PROVE  Homes'
  BY <1>2, <1>4, <1>5 DEF Homes
<1>6. ASSUME NEW n \in Posts, dance_post(n) \/ ctl_post(n) \/ say_post(n) PROVE Homes'
  BY <1>5, <1>6, FormTaken DEF Taken, files, rabbit
<1>. USE DEF Typed, Goto
<1>7. ASSUME NEW n \in Posts, Open(n) PROVE Homes'
  <2>. DEFINE p == Place(n)
              inode == IF tmp[p] = None THEN n ELSE tmp[p]
  <2>1. /\ pc[n] = "open" /\ pc'[n] = "write" /\ fd'[n] = inode /\ tmp'[p] = inode
        /\ \A m \in Posts \ {n} : pc'[m] = pc[m] /\ fd'[m] = fd[m]
        /\ \A q \in Places \ {p} : tmp'[q] = tmp[q]
        /\ UNCHANGED <<post, dest, fetch>>
    BY <1>0, <1>7 DEF Open
  <2>2. \A i \in Posts, q \in Places : Owned(i, q) => i # n
    BY <2>1 DEF Owned
  <2>3. pc'[n] \notin {"idle", "open"} /\ \A i \in Posts, q \in Places :
            Owned(i, q) => pc'[i] \notin {"idle", "open"}
    BY <2>1 DEF Owned
  <2>. DEFINE Owns(i, q) == i \in Posts /\ pc'[i] \notin {"idle", "open"} /\ Place(i) = q
  <2>4. dest[p] # None => dest[p] # inode
    BY <1>0, <2>2 DEF Homes, Owned
  <2>5. ASSUME NEW m \in Posts, fetch[m] = "read"
        PROVE  m # n /\ fd[m] # tmp'[Wanted(m)]
    <3>1. m # n
      BY <2>1, <2>5 DEF Staged, Early
    <3>2. fd[m] # tmp[Wanted(m)] /\ Owned(fd[m], Wanted(m))
      BY <2>5 DEF Homes
    <3>3. fd[m] # n
      BY <1>0, <3>2, <2>2 DEF Owned
    <3>. QED  BY <1>0, <2>1, <3>1, <3>2, <3>3
  <2>6. Owns(inode, p) /\ \A i \in Posts, q \in Places : Owned(i, q) => Owns(i, q)
    BY <1>0, <2>3 DEF Homes, Owned
  <2>7. ASSUME NEW q \in Places
        PROVE  /\ dest'[q] # None => Owns(dest'[q], q) /\ dest'[q] # tmp'[q]
               /\ tmp'[q] # None => Owns(tmp'[q], q)
    <3>1. dest[q] # None => dest[q] \in Posts
      OBVIOUS
    <3>2. tmp[q] # None => tmp[q] \in Posts
      OBVIOUS
    <3>. HIDE DEF inode, p, Owns
    <3>3. CASE q = p
      BY <1>0, <2>1, <2>4, <2>6, <3>1, <3>3 DEF Homes
    <3>4. CASE q # p
      BY <1>0, <2>1, <2>6, <3>1, <3>2, <3>4 DEF Homes
    <3>. QED  BY <3>3, <3>4
  <2>8. ASSUME NEW m \in Posts
        PROVE  /\ pc'[m] = "write" => Owns(fd'[m], Place(m))
               /\ fetch'[m] = "read" => /\ Owns(fd'[m], Wanted(m))
                                        /\ fd'[m] # tmp'[Wanted(m)]
    <3>. HIDE DEF inode, Owns
    <3>1. CASE m = n
      BY <2>1, <2>5, <2>6, <3>1
    <3>2. CASE m # n
      BY <1>0, <1>3a, <2>1, <2>5, <2>6, <3>2
    <3>. QED  BY <3>1, <3>2
  <2>. HIDE DEF inode, p
  <2>9. ASSUME NEW q \in Places
        PROVE  /\ dest'[q] # None => Owned(dest[q], q)' /\ dest'[q] # tmp'[q]
               /\ tmp'[q] # None => Owned(tmp[q], q)'
    BY <2>1, <2>7 DEF Owned, Place
  <2>10. ASSUME NEW m \in Posts
         PROVE  /\ pc'[m] = "write" => Owned(fd[m], Place(m))'
                /\ fetch'[m] = "read" => Owned(fd[m], Wanted(m))' /\ fd'[m] # tmp'[Wanted(m)']
    BY <2>1, <2>8 DEF Owned, Place, Wanted
  <2>. QED  BY <2>9, <2>10 DEF Homes
<1>8. ASSUME NEW n \in Posts, Write(n) \/ Fail(n) PROVE Homes'
  BY <1>1, <1>5, <1>8 DEF Write, Fail, files, Staged, Early
<1>9. ASSUME NEW n \in Posts, Rename(n) PROVE Homes'
  <2>. DEFINE p == Place(n)
  <2>1. /\ tmp[p] # None /\ dest'[p] = tmp[p] /\ tmp'[p] = None /\ p \in Places
        /\ \A q \in Places \ {p} : dest'[q] = dest[q] /\ tmp'[q] = tmp[q]
        /\ \A m \in Posts : pc'[m] = "write" => pc[m] = "write"
        /\ UNCHANGED <<fetch, fd>>
    BY <1>0, <1>9 DEF Rename, Freed, rabbit
  <2>2. \A m \in Posts : fetch[m] = "read" => fd[m] \in Posts /\ Wanted(m) \in Places
    BY <1>0 DEF Homes, Owned
  <2>. HIDE DEF p
  <2>3. ASSUME NEW q \in Places
        PROVE  /\ dest'[q] # None => Owned(dest'[q], q) /\ dest'[q] # tmp'[q]
               /\ tmp'[q] # None => Owned(tmp'[q], q)
    BY <2>1 DEF Homes
  <2>4. ASSUME NEW m \in Posts
        PROVE  /\ pc'[m] = "write" => pc[m] # "idle" /\ Owned(fd'[m], Place(m))
               /\ fetch'[m] = "read" => /\ pc[m] # "idle" /\ Owned(fd'[m], Wanted(m))
                                        /\ fd'[m] # tmp'[Wanted(m)]
    <3>1. fd'[m] = fd[m] /\ fetch'[m] = fetch[m] /\ (pc'[m] = "write" => pc[m] = "write")
      BY <2>1
    <3>2. pc'[m] = "write" => pc[m] # "idle" /\ Owned(fd[m], Place(m))
      BY <3>1 DEF Homes
    <3>3. fetch[m] = "read" => Owned(fd[m], Wanted(m)) /\ fd[m] # tmp[Wanted(m)]
      BY DEF Homes
    <3>4. fetch[m] = "read" => pc[m] # "idle"
      BY <1>2
    <3>5. fetch[m] = "read" => fd[m] # tmp'[Wanted(m)]
      <4>1. CASE Wanted(m) = p
        BY <1>0, <4>1, <2>1, <2>2
      <4>2. CASE Wanted(m) # p
        BY <4>2, <2>1, <2>2, <3>3
      <4>. QED  BY <4>1, <4>2
    <3>. QED  BY <3>1, <3>2, <3>3, <3>4, <3>5
  <2>. QED  BY <1>4, <2>3, <2>4
<1>10. ASSUME NEW n \in Posts, Send(n) \/ Hear(n) \/ Timeout(n) PROVE Homes'
  BY <1>5, <1>10 DEF Send, Hear, Timeout, Answered, files, rabbit
<1>11. ASSUME NEW n \in Posts, HangUp(n) PROVE Homes'
  BY <1>5, <1>11 DEF HangUp, files, rabbit
<1>12. ASSUME NEW n \in Posts, Run(n) \/ Lose(n) PROVE Homes'
  BY <1>5, <1>12 DEF Run, Lose, files, rabbit
<1>13. ASSUME NEW n \in Posts, Look(n) PROVE Homes'
  <2>. DEFINE p == Wanted(n)
  <2>1. /\ fetch[n] = "look" /\ fd'[n] = dest[p] /\ p \in Places
        /\ fetch'[n] = "read" => dest[p] # None
        /\ \A m \in Posts \ {n} : fd'[m] = fd[m] /\ fetch'[m] = fetch[m]
        /\ UNCHANGED <<pc, dest, tmp>>
    BY <1>0, <1>13 DEF Look, files
  <2>2. pc[n] # "idle" /\ pc[n] # "write"
    BY <2>1 DEF Staged, Early
  <2>3. ASSUME NEW m \in Posts
        PROVE  /\ pc'[m] = "write" => pc[m] # "idle" /\ Owned(fd'[m], Place(m))
               /\ fetch'[m] = "read" => /\ pc[m] # "idle" /\ Owned(fd'[m], Wanted(m))
                                        /\ fd'[m] # tmp'[Wanted(m)]
    BY <1>2, <2>1, <2>2 DEF Homes
  <2>4. ASSUME NEW q \in Places
        PROVE  /\ dest'[q] # None => Owned(dest'[q], q) /\ dest'[q] # tmp'[q]
               /\ tmp'[q] # None => Owned(tmp'[q], q)
    BY <2>1 DEF Homes
  <2>. QED  BY <1>4, <2>3, <2>4
<1>14. ASSUME NEW n \in Posts, Read(n) \/ FetchFails(n) PROVE Homes'
  BY <1>1, <1>5, <1>14 DEF Read, FetchFails, files
<1>15. CASE Crash
  BY <1>1, <1>5, <1>15 DEF Crash, files
<1>16. CASE UNCHANGED vars
  BY <1>5, <1>16 DEF vars, files, rabbit
<1>. QED  BY <1>6, <1>7, <1>8, <1>9, <1>10, <1>11, <1>12, <1>13, <1>14, <1>15, <1>16
          DEF Next, Handler

--------------------------------------------------------------------------------
LEMMA StagedStep == Typed /\ Staged /\ Homes /\ [Next]_vars => Staged'
<1>. SUFFICES ASSUME Typed, Staged, Homes, [Next]_vars PROVE Staged'
  OBVIOUS
<1>0. /\ Onward
      /\ \A n \in Posts : Place(n) \in Places /\ Wanted(n) \in Places
  BY GoesOnward, PlacesIn
<1>1. \A p \in Places : Len(installs[p]) \in Nat
  BY LenProperties DEF Typed
<1>1a. /\ post \in [Posts -> Asking] /\ pc \in [Posts -> Steps]
       /\ told \in [Posts -> {"nothing", "refused", "thinking", "answered", "no answer"}]
       /\ fetch \in [Posts -> {"none", "look", "read", "done"}]
       /\ got \in [Posts -> SUBSET (Posts \cup {None})] /\ floor \in [Posts -> Nat]
       /\ installs \in [Places -> Seq(Posts)]
  BY DEF Typed
<1>1b. floor \in [Posts -> Nat]
  BY <1>1a
<1>. USE DEF Goto, Early
<1>2. ASSUME NEW n \in Posts, dance_post(n) \/ ctl_post(n) \/ say_post(n) PROVE Staged'
  <2>1. Taken(n)
    BY <1>2, FormTaken
  <2>2. pc[n] = "idle" /\ UNCHANGED <<installs, floor, commands, replies, fetch, got>>
    BY <2>1 DEF Taken, files, air, rabbit
  <2>3. Wanted(n)' \in Places
    <3>1. post'[n] \in Asking
      BY <2>1 DEF Taken
    <3>2. post'[n].to \in Rabbits
      BY <3>1 DEF Asking
    <3>. QED  BY <3>2 DEF Wanted, Places, Dirs
  <2>4. floor'[n] <= Len(installs'[Wanted(n)'])
    BY <1>1, <1>1b, <2>2, <2>3 DEF Staged
  <2>5. \A m \in Posts \ {n} : /\ pc'[m] = pc[m] /\ told'[m] = told[m] /\ post'[m] = post[m]
                               /\ Place(m)' = Place(m) /\ Wanted(m)' = Wanted(m)
    BY <2>1 DEF Taken, Place, Wanted
  <2>6. /\ pc'[n] \in {"open", "send", "done"}
        /\ pc'[n] = "send" => post'[n].kind # "dance"
        /\ told'[n] # "answered" /\ (told'[n] = "refused" => pc'[n] = "done")
    BY <2>1 DEF Taken
  <2>7. /\ n \notin commands \cup replies /\ fetch[n] = "none" /\ got[n] = Unfed
        /\ \A p \in Places : n \notin Range(installs[p])
    BY <2>2 DEF Staged
  <2>. QED  BY <2>2, <2>4, <2>5, <2>6, <2>7 DEF Staged
<1>3. ASSUME UNCHANGED post
      PROVE  \A n \in Posts : Place(n)' = Place(n) /\ Wanted(n)' = Wanted(n)
  BY <1>3 DEF Place, Wanted
<1>4. ASSUME UNCHANGED <<post, installs, floor>>,
             \A n \in Posts :
                /\ pc'[n] = "idle" => told'[n] = told[n]
                /\ pc'[n] \in Early \cup {"send"} =>
                      /\ pc[n] \in Early \cup {"send"}
                      /\ pc'[n] \in Early => pc[n] \in Early
                      /\ n \notin (commands' \cup replies') /\ fetch'[n] = "none"
                      /\ got'[n] = Unfed
                /\ told'[n] = "refused" => /\ pc[n] \in Early \/ told[n] = "refused"
                                           /\ pc'[n] = "done"
                /\ n \in replies' \/ told'[n] = "answered" => fetch'[n] # "none"
                /\ pc'[n] \in {"send", "await"} => pc[n] \in {"send", "await"}
                /\ told'[n] = "answered" => told[n] = "answered" \/ pc[n] = "await"
      PROVE  Staged'
  <2>1. \A n \in Posts : pc'[n] = "idle" => pc[n] = "idle"
    BY <1>0 DEF Onward
  <2>. QED  BY <1>3, <1>4, <2>1 DEF Staged
<1>5. ASSUME NEW n \in Posts, Open(n) \/ Write(n) PROVE Staged'
  <2>1. /\ pc[n] \in Early \ {"idle"} /\ pc'[n] \in Early \cup {"done"}
        /\ \A m \in Posts \ {n} : pc'[m] = pc[m]
        /\ UNCHANGED <<post, installs, floor, told, commands, replies, fetch, got>>
    BY <1>1a, <1>5 DEF Open, Write, air
  <2>. QED  BY <1>4, <2>1 DEF Staged
<1>6. ASSUME NEW n \in Posts, Rename(n) PROVE Staged'
  <2>. DEFINE p == Place(n)
  <2>1. /\ pc[n] = "rename" /\ pc'[n] \in {"send", "done"} /\ p \in Places
        /\ \A m \in Posts \ {n} : pc'[m] = pc[m]
        /\ UNCHANGED <<post, floor, told, commands, replies, fetch, got>>
    BY <1>0, <1>1a, <1>6 DEF Rename, air, rabbit
  <2>2. /\ \A q \in Places \ {p} : installs'[q] = installs[q]
        /\ Len(installs'[p]) = Len(installs[p]) + 1
        /\ DOMAIN installs[p] = 1 .. Len(installs[p])
        /\ DOMAIN installs'[p] = 1 .. Len(installs'[p])
        /\ \A k \in 1 .. Len(installs[p]) : installs'[p][k] = installs[p][k]
        /\ installs'[p][Len(installs'[p])] = n
        /\ Len(installs[p]) \in Nat
    BY <1>6, Installed
  <2>3. /\ n \in Range(installs'[p])
        /\ \A m \in Posts : m \in Range(installs[p]) => m \in Range(installs'[p])
        /\ \A m \in Posts \ {n} : m \in Range(installs'[p]) => m \in Range(installs[p])
    <3>. DEFINE s == installs[p]
                t == installs'[p]
    <3>1. Len(t) \in 1 .. Len(t) /\ \A k : k \in 1 .. Len(t) <=> k \in 1 .. Len(s) \/ k = Len(t)
      <4>1. \A i \in Nat : \A j : j = i + 1 =>
                j \in 1 .. j /\ \A k : k \in 1 .. j <=> k \in 1 .. i \/ k = j
        OBVIOUS
      <4>. QED  BY <2>2, <4>1
    <3>2. /\ \A m : m \in Range(s) <=> \E k \in 1 .. Len(s) : s[k] = m
          /\ \A m : m \in Range(t) <=> \E k \in 1 .. Len(t) : t[k] = m
      BY <2>2 DEF Range
    <3>. HIDE DEF s, t
    <3>3. /\ \A k \in 1 .. Len(s) : t[k] = s[k]
          /\ t[Len(t)] = n
      BY <2>2 DEF s, t
    <3>4. /\ n \in Range(t)
          /\ \A m \in Posts : m \in Range(s) => m \in Range(t)
          /\ \A m \in Posts \ {n} : m \in Range(t) => m \in Range(s)
      BY <3>1, <3>2, <3>3
    <3>. QED  BY <3>4 DEF s, t
  <2>. HIDE DEF p
  <2>4. \A m \in Posts : floor[m] <= Len(installs'[Wanted(m)])
    <3>. SUFFICES ASSUME NEW m \in Posts PROVE floor[m] <= Len(installs'[Wanted(m)])
      OBVIOUS
    <3>1. /\ floor[m] \in Nat /\ floor[m] <= Len(installs[Wanted(m)]) /\ Wanted(m) \in Places
          /\ Len(installs[Wanted(m)]) \in Nat
      BY <1>0, <1>1, <1>1b DEF Staged
    <3>2. CASE Wanted(m) = p
      BY <2>2, <3>1, <3>2
    <3>3. CASE Wanted(m) # p
      BY <2>2, <3>1, <3>3
    <3>. QED  BY <3>2, <3>3
  <2>5. \A m \in Posts : Place(m) \in Places /\ Place(m)' = Place(m) /\ Wanted(m)' = Wanted(m)
    BY <1>0, <1>3, <2>1
  <2>6. Place(n) = p
    BY DEF p
  <2>7. told[n] # "refused" /\ told[n] # "answered"
    BY <2>1 DEF Staged
  <2>8. ASSUME NEW m \in Posts, m # n, pc[m] \in Early \/ told[m] = "refused"
        PROVE  \A q \in Places : m \notin Range(installs'[q])
    <3>. SUFFICES ASSUME NEW q \in Places PROVE m \notin Range(installs'[q])
      OBVIOUS
    <3>1. m \notin Range(installs[q])
      BY <2>8 DEF Staged
    <3>. QED  BY <2>2, <2>3, <2>8, <3>1
  <2>9. ASSUME NEW m \in Posts, m # n,
               (pc[m] \in {"send", "await"} \/ told[m] = "answered") /\ post[m].kind = "dance"
        PROVE  m \in Range(installs'[Place(m)])
    <3>1. m \in Range(installs[Place(m)])
      BY <2>9 DEF Staged
    <3>. QED  BY <2>2, <2>3, <2>5, <3>1
  <2>. QED  BY <2>1, <2>3, <2>4, <2>5, <2>6, <2>7, <2>8, <2>9 DEF Staged
<1>7. ASSUME NEW n \in Posts, Fail(n) PROVE Staged'
  <2>1. /\ pc[n] \in Early \ {"idle"} /\ pc'[n] = "done"
        /\ told'[n] \in {told[n], "refused"}
        /\ \A m \in Posts \ {n} : pc'[m] = pc[m] /\ told'[m] = told[m]
        /\ UNCHANGED <<post, installs, floor, commands, replies, fetch, got>>
    BY <1>1a, <1>7 DEF Fail, Tell, files, air
  <2>2. told[n] # "answered"
    BY <2>1 DEF Staged
  <2>. QED  BY <1>4, <2>1, <2>2 DEF Staged
<1>8. ASSUME NEW n \in Posts, Send(n) PROVE Staged'
  <2>1. /\ pc[n] = "send" /\ pc'[n] = "await" /\ commands' = commands \cup {n}
        /\ floor'[n] = Len(installs[Wanted(n)])
        /\ \A m \in Posts \ {n} : pc'[m] = pc[m] /\ floor'[m] = floor[m]
        /\ UNCHANGED <<post, installs, told, replies, fetch, got>>
    BY <1>1a, <1>8 DEF Send, files, rabbit
  <2>2. floor'[n] <= Len(installs[Wanted(n)])
    BY <1>0, <1>1, <2>1
  <2>. QED  BY <1>3, <2>1, <2>2 DEF Staged
<1>9. ASSUME NEW n \in Posts, Hear(n) \/ Timeout(n) PROVE Staged'
  <2>1. /\ pc[n] = "await" /\ pc'[n] = "done"
        /\ told'[n] \in {told[n], "no answer"} \/ (told'[n] = "answered" /\ n \in replies)
        /\ replies' \subseteq replies
        /\ \A m \in Posts \ {n} : pc'[m] = pc[m] /\ told'[m] = told[m]
        /\ UNCHANGED <<post, installs, floor, commands, fetch, got>>
    BY <1>1a, <1>9 DEF Hear, Timeout, Heard, Answered, Tell, files, air, rabbit
  <2>. QED  BY <1>4, <2>1 DEF Staged
<1>10. ASSUME NEW n \in Posts, HangUp(n) PROVE Staged'
  <2>1. /\ pc[n] # "idle" /\ pc'[n] \in {pc[n], "done"}
        /\ \A m \in Posts \ {n} : pc'[m] = pc[m]
        /\ UNCHANGED <<post, told, installs, floor, commands, replies, fetch, got>>
    BY <1>1a, <1>10 DEF HangUp, files, air, rabbit
  <2>. QED  BY <1>4, <2>1 DEF Staged
<1>11. ASSUME NEW n \in Posts, Run(n) PROVE Staged'
  <2>1. /\ n \in commands /\ commands' = commands \ {n} /\ replies' = replies \cup {n}
        /\ fetch'[n] # "none" /\ \A m \in Posts \ {n} : fetch'[m] = fetch[m]
        /\ UNCHANGED <<post, pc, told, installs, floor, got>>
    BY <1>1a, <1>11 DEF Run, files
  <2>. QED  BY <1>4, <2>1 DEF Staged
<1>12. ASSUME NEW n \in Posts, Lose(n) PROVE Staged'
  BY <1>4, <1>1a, <1>12 DEF Lose, files, rabbit, Staged
<1>13. ASSUME NEW n \in Posts, Look(n) \/ Read(n) \/ FetchFails(n) PROVE Staged'
  <2>1. /\ fetch[n] # "none" /\ fetch'[n] # "none"
        /\ \A m \in Posts \ {n} : fetch'[m] = fetch[m] /\ got'[m] = got[m]
        /\ UNCHANGED <<post, pc, told, installs, floor, commands, replies>>
    BY <1>1a, <1>13 DEF Look, Read, FetchFails, files, air
  <2>. QED  BY <1>4, <2>1 DEF Staged
<1>14. CASE Crash
  <2>1. /\ \A n \in Posts : /\ pc'[n] \in {pc[n], "done"} /\ (pc[n] = "idle" => pc'[n] = "idle")
                            /\ fetch'[n] \in {fetch[n], "done"}
                            /\ fetch[n] = "none" => fetch'[n] = "none"
        /\ UNCHANGED <<post, told, installs, floor, commands, replies, got>>
    BY <1>1a, <1>14 DEF Crash, files, air
  <2>. QED  BY <1>4, <2>1 DEF Staged
<1>15. CASE UNCHANGED vars
  BY <1>4, <1>15 DEF vars, files, air, rabbit, Staged
<1>. QED  BY <1>2, <1>5, <1>6, <1>7, <1>8, <1>9, <1>10, <1>11, <1>12, <1>13, <1>14, <1>15
          DEF Next, Handler

LEMMA VettedStep == Typed /\ Staged /\ Vetted /\ [Next]_vars => Vetted'
<1>. SUFFICES ASSUME Typed, Staged, Vetted, [Next]_vars PROVE Vetted'
  OBVIOUS
<1>0. Onward
  BY GoesOnward
<1>. USE DEF Typed, Goto
<1>1. ASSUME UNCHANGED volume,
             \A n \in Posts : /\ pc'[n] \notin {"idle", "done"} => pc[n] \notin {"idle", "done"}
                              /\ n \in commands' => n \in commands
                              /\ fetch'[n] # "none" => fetch[n] # "none"
      PROVE  Vetted'
  BY <1>0, <1>1 DEF Vetted, Onward, Fit, Understood
<1>2. ASSUME NEW n \in Posts, dance_post(n) \/ ctl_post(n) \/ say_post(n) PROVE Vetted'
  <2>1. Taken(n)
    BY <1>2, FormTaken
  <2>2. pc[n] = "idle" /\ UNCHANGED <<commands, fetch, volume>>
    BY <2>1 DEF Taken, air, rabbit
  <2>3. n \notin commands /\ fetch[n] = "none"
    BY <2>2 DEF Vetted
  <2>4. \A m \in Posts \ {n} : pc'[m] = pc[m] /\ post'[m] = post[m]
    BY <2>1 DEF Taken
  <2>5. pc'[n] # "idle" /\ (pc'[n] # "done" => Fit(post[n].cmd)')
    BY <2>1 DEF Taken, Fit, Understood
  <2>. QED  BY <2>2, <2>3, <2>4, <2>5 DEF Vetted, Fit, Understood
<1>3. ASSUME NEW n \in Posts, Open(n) \/ Write(n) \/ Rename(n) \/ Fail(n) PROVE Vetted'
  BY <1>1, <1>3 DEF Open, Write, Rename, Fail, air, rabbit
<1>4. ASSUME NEW n \in Posts, Send(n) PROVE Vetted'
  BY <1>0, <1>4 DEF Send, rabbit, Vetted, Onward, Fit, Understood
<1>5. ASSUME NEW n \in Posts, Hear(n) \/ Timeout(n) PROVE Vetted'
  BY <1>1, <1>5 DEF Hear, Timeout, Answered, air, rabbit
<1>6. ASSUME NEW n \in Posts, HangUp(n) PROVE Vetted'
  BY <1>1, <1>6 DEF HangUp, air, rabbit
<1>7. ASSUME NEW n \in Posts, Run(n) PROVE Vetted'
  <2>1. /\ n \in commands /\ commands' = commands \ {n}
        /\ \A m \in Posts \ {n} : fetch'[m] = fetch[m]
        /\ UNCHANGED <<post, pc>>
    BY <1>7 DEF Run
  <2>2. Fit(post[n].cmd) /\ pc[n] # "idle"
    BY <2>1 DEF Vetted
  <2>3. post[n].cmd.level \in Nat
    BY CommandIn
  <2>4. \A r \in Rabbits : volume'[r] >= 40
    BY <1>7, <2>2, <2>3 DEF Run, Vetted, Fit
  <2>. QED  BY <2>1, <2>2, <2>4 DEF Vetted, Fit, Understood
<1>8. ASSUME NEW n \in Posts, Lose(n) \/ Look(n) \/ Read(n) \/ FetchFails(n) PROVE Vetted'
  BY <1>1, <1>8 DEF Lose, Look, Read, FetchFails, air, rabbit
<1>9. CASE Crash
  BY <1>1, <1>9 DEF Crash, air
<1>10. CASE UNCHANGED vars
  BY <1>1, <1>10 DEF vars, air, rabbit
<1>. QED  BY <1>2, <1>3, <1>4, <1>5, <1>6, <1>7, <1>8, <1>9, <1>10 DEF Next, Handler

--------------------------------------------------------------------------------
\* What was installed stays on record, and writers that met stay marked.
Grown ==
    \A q \in Places :
        /\ crossed[q] => crossed'[q]
        /\ \A k \in DOMAIN installs[q] : /\ k \in DOMAIN installs'[q]
                                         /\ installs'[q][k] = installs[q][k]

LEMMA Grows == Typed /\ Staged /\ [Next]_vars => Grown
<1>. SUFFICES ASSUME Typed, Staged, [Next]_vars PROVE Grown
  OBVIOUS
<1>0. /\ crossed \in [Places -> BOOLEAN]
      /\ \A n \in Posts : Place(n) \in Places
  BY PlacesIn DEF Typed
<1>. USE DEF Grown
<1>1. ASSUME NEW n \in Posts, dance_post(n) \/ ctl_post(n) \/ say_post(n) PROVE Grown
  BY <1>1, FormTaken DEF Taken, files
<1>2. ASSUME NEW n \in Posts, Open(n) PROVE Grown
  <2>1. UNCHANGED installs /\ \A q \in Places : crossed[q] => crossed'[q]
    BY <1>0, <1>2 DEF Open
  <2>. QED  BY <2>1
<1>3. ASSUME NEW n \in Posts, Rename(n) PROVE Grown
  <2>1. UNCHANGED crossed
    BY <1>3 DEF Rename
  <2>2. \A q \in Places \ {Place(n)} : installs'[q] = installs[q]
    BY <1>3, Installed
  <2>3. \A k \in DOMAIN installs[Place(n)] :
            /\ k \in DOMAIN installs'[Place(n)]
            /\ installs'[Place(n)][k] = installs[Place(n)][k]
    <3>. DEFINE s == installs[Place(n)]
                t == installs'[Place(n)]
    <3>1. /\ Len(s) \in Nat /\ Len(t) = Len(s) + 1
          /\ DOMAIN s = 1 .. Len(s) /\ DOMAIN t = 1 .. Len(t)
          /\ \A k \in 1 .. Len(s) : t[k] = s[k]
      BY <1>3, Installed
    <3>2. \A k \in 1 .. Len(s) : k \in 1 .. Len(t)
      BY <3>1
    <3>. HIDE DEF s, t
    <3>3. \A k \in DOMAIN s : k \in DOMAIN t /\ t[k] = s[k]
      BY <3>1, <3>2
    <3>. QED  BY <3>3 DEF s, t
  <2>. QED  BY <2>1, <2>2, <2>3
<1>4. ASSUME UNCHANGED <<installs, crossed>> PROVE Grown
  BY <1>4
<1>5. ASSUME NEW n \in Posts,
             \/ Write(n) \/ Fail(n) \/ Send(n) \/ Hear(n) \/ Timeout(n) \/ HangUp(n)
             \/ Run(n) \/ Lose(n) \/ Look(n) \/ Read(n) \/ FetchFails(n)
      PROVE  Grown
  BY <1>4, <1>5, Zenon DEF Write, Fail, Send, Hear, Timeout, HangUp, Run, Lose, Look, Read,
                           FetchFails, files
<1>6. CASE Crash
  BY <1>4, <1>6 DEF Crash, files
<1>7. CASE UNCHANGED vars
  BY <1>4, <1>7 DEF vars, files
<1>. QED  BY <1>1, <1>2, <1>3, <1>5, <1>6, <1>7 DEF Next, Handler

LEMMA TidyStep ==
    ASSUME Typed, Staged, Homes, Homes', Tidied, [Next]_vars, NEW p \in Places, ~crossed'[p]
    PROVE  Tidy(p)'
<1>0. /\ Onward
      /\ \A n \in Posts : Place(n) \in Places /\ Wanted(n) \in Places
      /\ None \notin Posts
  BY GoesOnward, PlacesIn, PilotAssumption
<1>0a. Tidy(p)
  BY Grows DEF Grown, Tidied
<1>1. \A n \in Posts : pc[n] # "idle" => Place(n)' = Place(n) /\ Wanted(n)' = Wanted(n)
  BY <1>0 DEF Onward, Place, Wanted
<1>2. /\ pc \in [Posts -> Steps] /\ fetch \in [Posts -> {"none", "look", "read", "done"}]
      /\ fd \in [Posts -> Posts \cup {None}] /\ content \in [Posts -> SUBSET Posts]
      /\ dest \in [Places -> Posts \cup {None}] /\ tmp \in [Places -> Posts \cup {None}]
      /\ crossed \in [Places -> BOOLEAN]
  BY DEF Typed
<1>2a. floor \in [Posts -> Nat]
  BY DEF Typed
<1>3. \A n \in Posts : /\ fetch[n] # "none" => pc[n] # "idle"
                       /\ Writing(n) => fetch[n] = "none"
                       /\ pc[n] = "send" => fetch[n] = "none"
  BY DEF Staged, Early, Writing
<1>. USE DEF Goto, Writing
<1>4. ASSUME UNCHANGED content, installs'[p] = installs[p], dest'[p] = dest[p], tmp'[p] = tmp[p],
             \A n \in Posts :
                /\ pc'[n] \in {"write", "rename"} => pc'[n] = pc[n] /\ fd'[n] = fd[n]
                /\ fetch'[n] = "read" => fetch[n] = "read" /\ fd'[n] = fd[n] /\ floor'[n] = floor[n]
      PROVE  Tidy(p)'
  <2>1. \A n \in Posts : /\ pc'[n] \in {"write", "rename"} => Place(n)' = Place(n)
                         /\ fetch'[n] = "read" => Wanted(n)' = Wanted(n)
    BY <1>1, <1>3, <1>4
  <2>2. \A n \in Posts : Writing(n)' => Writing(n) /\ Place(n)' = Place(n) /\ pc'[n] = pc[n]
    BY <1>4, <2>1
  <2>3. \A m, n \in Posts : Writing(m)' /\ Writing(n)' /\ Place(m)' = p /\ Place(n)' = p => m = n
    BY <1>0a, <2>2 DEF Tidy
  <2>4. \A n \in Posts : Place(n)' = p =>
            /\ pc'[n] = "write" => fd'[n] = tmp'[p] /\ content'[tmp'[p]] = {}
            /\ pc'[n] = "rename" => tmp'[p] # None /\ content'[tmp'[p]] = {n}
    BY <1>0a, <1>4, <2>2 DEF Tidy
  <2>5. dest'[p] # None => /\ Len(installs'[p]) > 0
                           /\ content'[dest'[p]] = {installs'[p][Len(installs'[p])]}
    BY <1>0a, <1>4 DEF Tidy
  <2>6. \A n \in Posts : fetch'[n] = "read" /\ Wanted(n)' = p =>
            \E k \in DOMAIN installs'[p] : /\ content'[fd'[n]] = {installs'[p][k]}
                                           /\ k >= floor'[n]
    BY <1>0a, <1>4, <2>1 DEF Tidy
  <2>. QED  BY <2>3, <2>4, <2>5, <2>6 DEF Tidy
<1>5. ASSUME NEW n \in Posts, dance_post(n) \/ ctl_post(n) \/ say_post(n) PROVE Tidy(p)'
  <2>1. Taken(n)
    BY <1>5, FormTaken
  <2>2. pc'[n] \in {"open", "send", "done"} /\ \A m \in Posts \ {n} : pc'[m] = pc[m]
    BY <2>1 DEF Taken
  <2>3. UNCHANGED <<content, installs, dest, tmp, fetch, fd, floor>>
    BY <2>1 DEF Taken, files, rabbit
  <2>. QED  BY <1>4, <2>2, <2>3
<1>6. \* A file of another place may change; the files of this one do not.
      ASSUME NEW f, NEW q \in Places, q # p, f \in Posts, Place(f) = q,
             \A i \in Posts : i # f => content'[i] = content[i],
             UNCHANGED <<post, installs, dest, fetch, floor>>, tmp'[p] = tmp[p],
             NEW n \in Posts, Place(n) = q,
             \A m \in Posts \ {n} : pc'[m] = pc[m] /\ fd'[m] = fd[m],
             fetch[n] = "none"
      PROVE  Tidy(p)'
  <2>1. \A m \in Posts : Place(m)' = Place(m) /\ Wanted(m)' = Wanted(m)
    BY <1>6 DEF Place, Wanted
  <2>2. \A i \in Posts : Owned(i, p) => content'[i] = content[i]
    BY <1>6 DEF Owned
  <2>3. ASSUME NEW m \in Posts, Place(m) = p
        PROVE  /\ m # n
               /\ pc[m] = "write" => fd[m] = tmp[p] /\ content'[tmp[p]] = {}
               /\ pc[m] = "rename" => tmp[p] # None /\ content'[tmp[p]] = {m}
    <3>1. /\ pc[m] = "write" => fd[m] = tmp[p] /\ content[tmp[p]] = {} /\ Owned(fd[m], p)
          /\ pc[m] = "rename" => tmp[p] # None /\ content[tmp[p]] = {m}
      BY <1>0a, <2>3 DEF Tidy, Homes
    <3>2. tmp[p] # None => Owned(tmp[p], p)
      BY DEF Homes
    <3>. QED  BY <1>6, <2>2, <2>3, <3>1, <3>2 DEF Owned
  <2>4. dest[p] # None => content'[dest[p]] = content[dest[p]]
    BY <1>2, <2>2 DEF Homes
  <2>5. ASSUME NEW m \in Posts, fetch[m] = "read", Wanted(m) = p
        PROVE  m # n /\ content'[fd[m]] = content[fd[m]]
    <3>1. Owned(fd[m], p)
      BY <2>5 DEF Homes
    <3>. QED  BY <1>6, <2>2, <2>5, <3>1 DEF Owned
  <2>6. \A m \in Posts : Place(m) = p => m # n
    BY <2>3
  <2>7. \A m \in Posts : Place(m)' = p => /\ m # n /\ pc'[m] = pc[m] /\ fd'[m] = fd[m]
                                          /\ Place(m) = p
    BY <1>6, <2>1, <2>6
  <2>8. \A m, o \in Posts : Writing(m)' /\ Writing(o)' /\ Place(m)' = p /\ Place(o)' = p => m = o
    BY <1>0a, <2>7 DEF Tidy
  <2>9. \A m \in Posts : Place(m)' = p =>
            /\ pc'[m] = "write" => fd'[m] = tmp'[p] /\ content'[tmp'[p]] = {}
            /\ pc'[m] = "rename" => tmp'[p] # None /\ content'[tmp'[p]] = {m}
    BY <1>6, <2>3, <2>7
  <2>10. dest'[p] # None => /\ Len(installs'[p]) > 0
                            /\ content'[dest'[p]] = {installs'[p][Len(installs'[p])]}
    BY <1>0a, <1>6, <2>4 DEF Tidy
  <2>11. \A m \in Posts : fetch'[m] = "read" /\ Wanted(m)' = p =>
            \E k \in DOMAIN installs'[p] : /\ content'[fd'[m]] = {installs'[p][k]}
                                           /\ k >= floor'[m]
    BY <1>0a, <1>6, <2>1, <2>5 DEF Tidy
  <2>. QED  BY <2>8, <2>9, <2>10, <2>11 DEF Tidy
<1>7. ASSUME NEW n \in Posts, Open(n) PROVE Tidy(p)'
  <2>. DEFINE q == Place(n)
              inode == IF tmp[q] = None THEN n ELSE tmp[q]
  <2>1. /\ pc[n] = "open" /\ pc'[n] = "write" /\ fd'[n] = inode /\ tmp'[q] = inode
        /\ \A m \in Posts \ {n} : pc'[m] = pc[m] /\ fd'[m] = fd[m]
        /\ \A o \in Places \ {q} : tmp'[o] = tmp[o]
        /\ UNCHANGED <<post, dest, installs, fetch, floor>>
    BY <1>0, <1>2, <1>7 DEF Open
  <2>2. inode \in Posts /\ Place(inode) = q /\ q \in Places
    BY <1>0, <1>2 DEF Homes, Owned
  <2>3. content'[inode] = {} /\ \A i \in Posts : i # inode => content'[i] = content[i]
    BY <1>2, <1>7, <2>2 DEF Open, Truncated
  <2>4. fetch[n] = "none"
    BY <2>1 DEF Staged, Early
  <2>. HIDE DEF inode
  <2>5. CASE q # p
    BY <1>6, <2>1, <2>2, <2>3, <2>4, <2>5
  <2>6. CASE q = p
    <3>1. \A m \in Posts : Writing(m) => Place(m) # p
      BY <1>0, <1>2, <1>7, <2>6 DEF Open
    <3>2. \A m \in Posts : Place(m)' = Place(m) /\ Wanted(m)' = Wanted(m)
      BY <2>1 DEF Place, Wanted
    <3>3. tmp'[p] = inode /\ Place(n) = p
      BY <2>1, <2>6
    <3>4. dest[p] # None => dest[p] \in Posts /\ dest[p] # inode
      BY <1>2, <2>1, <3>3 DEF Homes
    <3>5. \A m \in Posts : fetch[m] = "read" /\ Wanted(m) = p =>
              m # n /\ fd[m] \in Posts /\ fd[m] # inode
      <4>. SUFFICES ASSUME NEW m \in Posts, fetch[m] = "read", Wanted(m) = p
                    PROVE  m # n /\ fd[m] \in Posts /\ fd[m] # inode
        OBVIOUS
      <4>1. m # n /\ fd[m] \in Posts
        BY <2>4 DEF Homes, Owned
      <4>2. fd'[m] # tmp'[Wanted(m)']
        BY <2>1 DEF Homes
      <4>. QED  BY <2>1, <3>2, <3>3, <4>1, <4>2
    <3>6. \A m, o \in Posts : Writing(m)' /\ Writing(o)' /\ Place(m)' = p /\ Place(o)' = p => m = o
      BY <2>1, <3>1, <3>2
    <3>7. \A m \in Posts : Place(m)' = p =>
              /\ pc'[m] = "write" => fd'[m] = tmp'[p] /\ content'[tmp'[p]] = {}
              /\ pc'[m] = "rename" => tmp'[p] # None /\ content'[tmp'[p]] = {m}
      BY <2>1, <2>3, <3>1, <3>2, <3>3
    <3>8. dest'[p] # None => /\ Len(installs'[p]) > 0
                             /\ content'[dest'[p]] = {installs'[p][Len(installs'[p])]}
      BY <1>0a, <2>1, <2>3, <3>4 DEF Tidy
    <3>9. \A m \in Posts : fetch'[m] = "read" /\ Wanted(m)' = p =>
              \E k \in DOMAIN installs'[p] : /\ content'[fd'[m]] = {installs'[p][k]}
                                             /\ k >= floor'[m]
      BY <1>0a, <2>1, <2>3, <3>2, <3>5 DEF Tidy
    <3>. QED  BY <3>6, <3>7, <3>8, <3>9 DEF Tidy
  <2>. QED  BY <2>5, <2>6
<1>8. ASSUME NEW n \in Posts, Write(n) PROVE Tidy(p)'
  <2>. DEFINE q == Place(n)
  <2>1. /\ pc[n] = "write" /\ pc'[n] \in {"rename", "done"} /\ fd'[n] = None
        /\ \A m \in Posts \ {n} : pc'[m] = pc[m] /\ fd'[m] = fd[m]
        /\ UNCHANGED <<post, dest, tmp, installs, fetch, floor>>
    BY <1>2, <1>8 DEF Write
  <2>2. fd[n] \in Posts /\ Place(fd[n]) = q /\ q \in Places
    BY <1>0, <2>1 DEF Homes, Owned
  <2>3. /\ content'[fd[n]] = content[fd[n]] \cup {n}
        /\ \A i \in Posts : i # fd[n] => content'[i] = content[i]
    BY <1>2, <1>8, <2>2 DEF Write
  <2>4. fetch[n] = "none"
    BY <1>3, <2>1
  <2>5. CASE q # p
    BY <1>6, <2>1, <2>2, <2>3, <2>4, <2>5
  <2>6. CASE q = p
    <3>1. fd[n] = tmp[p] /\ content[tmp[p]] = {} /\ Place(n) = p
      BY <1>0a, <2>1, <2>6 DEF Tidy
    <3>2. \A m \in Posts : Place(m)' = Place(m) /\ Wanted(m)' = Wanted(m)
      BY <2>1 DEF Place, Wanted
    <3>3. \A m \in Posts \ {n} : ~(Writing(m) /\ Place(m) = p)
      BY <1>0a, <2>1, <3>1 DEF Tidy
    <3>4. dest[p] # None => dest[p] \in Posts /\ dest[p] # fd[n]
      BY <1>2, <3>1 DEF Homes
    <3>5. \A m \in Posts : fetch[m] = "read" /\ Wanted(m) = p =>
              m # n /\ fd[m] \in Posts /\ fd[m] # fd[n]
      BY <2>4, <3>1 DEF Homes, Owned
    <3>6. \A m, o \in Posts : Writing(m)' /\ Writing(o)' /\ Place(m)' = p /\ Place(o)' = p => m = o
      BY <2>1, <3>2, <3>3
    <3>7. \A m \in Posts : Place(m)' = p =>
              /\ pc'[m] = "write" => fd'[m] = tmp'[p] /\ content'[tmp'[p]] = {}
              /\ pc'[m] = "rename" => tmp'[p] # None /\ content'[tmp'[p]] = {m}
      <4>1. content'[tmp[p]] = {n} /\ tmp[p] # None
        BY <1>0, <2>2, <2>3, <3>1
      <4>. QED  BY <2>1, <3>2, <3>3, <4>1
    <3>8. dest'[p] # None => /\ Len(installs'[p]) > 0
                             /\ content'[dest'[p]] = {installs'[p][Len(installs'[p])]}
      BY <1>0a, <2>1, <2>3, <3>4 DEF Tidy
    <3>9. \A m \in Posts : fetch'[m] = "read" /\ Wanted(m)' = p =>
              \E k \in DOMAIN installs'[p] : /\ content'[fd'[m]] = {installs'[p][k]}
                                             /\ k >= floor'[m]
      BY <1>0a, <2>1, <2>3, <3>2, <3>5 DEF Tidy
    <3>. QED  BY <3>6, <3>7, <3>8, <3>9 DEF Tidy
  <2>. QED  BY <2>5, <2>6
<1>9. ASSUME NEW n \in Posts, Rename(n) PROVE Tidy(p)'
  <2>. DEFINE q == Place(n)
  <2>1. /\ pc[n] = "rename" /\ pc'[n] \in {"send", "done"} /\ q \in Places /\ tmp[q] # None
        /\ dest'[q] = tmp[q] /\ tmp'[q] = None
        /\ \A o \in Places \ {q} : dest'[o] = dest[o] /\ tmp'[o] = tmp[o]
        /\ \A m \in Posts \ {n} : pc'[m] = pc[m]
        /\ UNCHANGED <<post, content, fetch, fd, floor>>
    BY <1>0, <1>2, <1>9 DEF Rename, Freed, rabbit
  <2>2. \A o \in Places \ {q} : installs'[o] = installs[o]
    BY <1>9, Installed
  <2>3. CASE q # p
    BY <1>4, <2>1, <2>2, <2>3
  <2>4. CASE q = p
    <3>1. Place(n) = p /\ content[tmp[p]] = {n}
      BY <1>0a, <2>1, <2>4 DEF Tidy
    <3>2. \A m \in Posts : Place(m)' = Place(m) /\ Wanted(m)' = Wanted(m)
      BY <2>1 DEF Place, Wanted
    <3>3. \A m \in Posts \ {n} : ~(Writing(m) /\ Place(m) = p)
      BY <1>0a, <2>1, <3>1 DEF Tidy
    <3>4. /\ Len(installs'[p]) = Len(installs[p]) + 1 /\ Len(installs[p]) \in Nat
          /\ installs'[p][Len(installs'[p])] = n
      BY <1>9, <2>4, Installed
    <3>5. \A k \in DOMAIN installs[p] : /\ k \in DOMAIN installs'[p]
                                        /\ installs'[p][k] = installs[p][k]
      BY Grows DEF Grown
    <3>6. \A m, o \in Posts : Writing(m)' /\ Writing(o)' /\ Place(m)' = p /\ Place(o)' = p => m = o
      BY <2>1, <3>2, <3>3
    <3>7. \A m \in Posts : Place(m)' = p =>
              /\ pc'[m] = "write" => fd'[m] = tmp'[p] /\ content'[tmp'[p]] = {}
              /\ pc'[m] = "rename" => tmp'[p] # None /\ content'[tmp'[p]] = {m}
      BY <2>1, <3>2, <3>3
    <3>8. /\ Len(installs'[p]) > 0
          /\ content'[dest'[p]] = {installs'[p][Len(installs'[p])]}
      BY <2>1, <2>4, <3>1, <3>4
    <3>9. \A m \in Posts : fetch'[m] = "read" /\ Wanted(m)' = p =>
              \E k \in DOMAIN installs'[p] : /\ content'[fd'[m]] = {installs'[p][k]}
                                             /\ k >= floor'[m]
      BY <1>0a, <2>1, <3>2, <3>5 DEF Tidy
    <3>. QED  BY <3>6, <3>7, <3>8, <3>9 DEF Tidy
  <2>. QED  BY <2>3, <2>4
<1>10. ASSUME NEW n \in Posts, Look(n) PROVE Tidy(p)'
  <2>. DEFINE q == Wanted(n)
  <2>1. /\ fetch[n] = "look" /\ fd'[n] = dest[q] /\ q \in Places
        /\ fetch'[n] = "read" => dest[q] # None
        /\ \A m \in Posts \ {n} : fd'[m] = fd[m] /\ fetch'[m] = fetch[m]
        /\ UNCHANGED <<post, pc, dest, tmp, content, installs, floor>>
    BY <1>0, <1>2, <1>10 DEF Look, files
  <2>2. ~Writing(n)
    BY <1>3, <2>1
  <2>3. \A m \in Posts : Place(m)' = Place(m) /\ Wanted(m)' = Wanted(m)
    BY <2>1 DEF Place, Wanted
  <2>4. ASSUME fetch'[n] = "read", q = p
        PROVE  \E k \in DOMAIN installs[p] : content[fd'[n]] = {installs[p][k]} /\ k >= floor[n]
    <3>1. installs[p] \in Seq(Posts) /\ floor[n] <= Len(installs[Wanted(n)])
      BY DEF Typed, Staged
    <3>2. Len(installs[p]) \in Nat /\ DOMAIN installs[p] = 1 .. Len(installs[p])
      BY <3>1, LenProperties
    <3>3. /\ Len(installs[p]) > 0
          /\ content[fd'[n]] = {installs[p][Len(installs[p])]}
      BY <1>0a, <2>1, <2>4 DEF Tidy
    <3>4. Len(installs[p]) \in DOMAIN installs[p] /\ Len(installs[p]) >= floor[n]
      BY <1>2a, <2>4, <3>1, <3>2, <3>3
    <3>. QED  BY <3>3, <3>4
  <2>5. \A m \in Posts : pc'[m] = "write" => fd'[m] = fd[m]
    BY <2>1, <2>2
  <2>6. \A m \in Posts : fetch'[m] = "read" /\ Wanted(m)' = p =>
            \E k \in DOMAIN installs'[p] : /\ content'[fd'[m]] = {installs'[p][k]}
                                           /\ k >= floor'[m]
    <3>. SUFFICES ASSUME NEW m \in Posts, fetch'[m] = "read", Wanted(m) = p
                  PROVE  \E k \in DOMAIN installs[p] : /\ content[fd'[m]] = {installs[p][k]}
                                                       /\ k >= floor[m]
      BY <2>1, <2>3
    <3>1. CASE m = n
      BY <2>4, <3>1
    <3>2. CASE m # n
      BY <1>0a, <2>1, <3>2 DEF Tidy
    <3>. QED  BY <3>1, <3>2
  <2>. QED  BY <1>0a, <2>1, <2>3, <2>5, <2>6 DEF Tidy
<1>11. ASSUME NEW n \in Posts, Send(n) PROVE Tidy(p)'
  <2>1. /\ pc[n] = "send" /\ pc'[n] = "await"
        /\ \A m \in Posts \ {n} : pc'[m] = pc[m] /\ floor'[m] = floor[m]
        /\ UNCHANGED <<content, dest, tmp, installs, fetch, fd>>
    BY <1>2, <1>2a, <1>11 DEF Send, files, rabbit
  <2>. QED  BY <1>3, <1>4, <2>1
<1>12. ASSUME NEW n \in Posts, Fail(n) PROVE Tidy(p)'
  <2>1. /\ pc[n] \in Early /\ pc'[n] = "done"
        /\ \A m \in Posts \ {n} : pc'[m] = pc[m] /\ fd'[m] = fd[m]
        /\ UNCHANGED <<content, dest, tmp, installs, fetch, floor>>
    BY <1>2, <1>12 DEF Fail, files, Early
  <2>2. fetch[n] = "none"
    BY <2>1 DEF Staged
  <2>. QED  BY <1>4, <2>1, <2>2
<1>13. ASSUME NEW n \in Posts, Hear(n) \/ Timeout(n) PROVE Tidy(p)'
  BY <1>2, <1>4, <1>13 DEF Hear, Timeout, Answered, files, rabbit
<1>14. ASSUME NEW n \in Posts, HangUp(n) PROVE Tidy(p)'
  BY <1>2, <1>4, <1>14 DEF HangUp, files, rabbit
<1>15. ASSUME NEW n \in Posts, Run(n) \/ Lose(n) PROVE Tidy(p)'
  BY <1>2, <1>4, <1>15 DEF Run, Lose, files, rabbit
<1>16. ASSUME NEW n \in Posts, Read(n) \/ FetchFails(n) PROVE Tidy(p)'
  <2>1. /\ fetch[n] # "none" /\ fetch'[n] = "done"
        /\ \A m \in Posts \ {n} : fetch'[m] = fetch[m] /\ fd'[m] = fd[m]
        /\ UNCHANGED <<pc, content, dest, tmp, installs, floor>>
    BY <1>2, <1>16 DEF Read, FetchFails, files
  <2>2. ~Writing(n)
    BY <1>3, <2>1
  <2>. QED  BY <1>4, <2>1, <2>2
<1>17. CASE Crash
  <2>1. /\ \A n \in Posts :
              /\ pc'[n] \in {pc[n], "done"}
              /\ pc'[n] = pc[n] /\ Writing(n) => fd'[n] = fd[n]
              /\ fetch'[n] # "read"
        /\ UNCHANGED <<content, dest, tmp, installs, floor>>
    BY <1>2, <1>3, <1>17 DEF Crash, files
  <2>. QED  BY <1>4, <2>1
<1>18. CASE UNCHANGED vars
  BY <1>4, <1>18 DEF vars, files, rabbit
<1>. QED  BY <1>5, <1>7, <1>8, <1>9, <1>10, <1>11, <1>12, <1>13, <1>14, <1>15, <1>16,
             <1>17, <1>18 DEF Next, Handler

--------------------------------------------------------------------------------
\* What a fetch brought stays one whole file, installed no earlier than its command.
LEMMA PlaysStep ==
    Typed /\ Staged /\ Homes /\ Tidied /\ PlaysWhatWasSent /\ [Next]_vars => PlaysWhatWasSent'
<1>. SUFFICES ASSUME Typed, Staged, Homes, Tidied, PlaysWhatWasSent, [Next]_vars,
                     NEW n \in Posts, got'[n] # Unfed, ~crossed'[Wanted(n)']
              PROVE  \E k \in DOMAIN installs'[Wanted(n)'] :
                         got'[n] = {installs'[Wanted(n)'][k]} /\ k >= floor'[n]
  BY DEF PlaysWhatWasSent
<1>0. /\ Onward /\ Grown
      /\ \A m \in Posts : Wanted(m) \in Places
  BY GoesOnward, Grows, PlacesIn
<1>1. /\ got \in [Posts -> SUBSET (Posts \cup {None})] /\ pc \in [Posts -> Steps]
      /\ fetch \in [Posts -> {"none", "look", "read", "done"}]
  BY DEF Typed
<1>1a. floor \in [Posts -> Nat]
  BY DEF Typed
<1>2. pc[n] # "idle" => Wanted(n)' = Wanted(n) /\ ~crossed[Wanted(n)]
  <2>1. pc[n] # "idle" => Wanted(n)' = Wanted(n)
    BY <1>0 DEF Onward, Wanted
  <2>. QED  BY <1>0, <2>1 DEF Grown
<1>3. ASSUME got'[n] = got[n], floor'[n] = floor[n]
      PROVE  \E k \in DOMAIN installs'[Wanted(n)'] :
                 got'[n] = {installs'[Wanted(n)'][k]} /\ k >= floor'[n]
  <2>1. pc[n] # "idle"
    BY <1>3 DEF Staged, Early
  <2>2. \E k \in DOMAIN installs[Wanted(n)] : got[n] = {installs[Wanted(n)][k]} /\ k >= floor[n]
    BY <1>2, <1>3, <2>1 DEF PlaysWhatWasSent
  <2>. QED  BY <1>0, <1>2, <1>3, <2>1, <2>2 DEF Grown
<1>4. ASSUME NEW m \in Posts, dance_post(m) \/ ctl_post(m) \/ say_post(m)
      PROVE  UNCHANGED <<got, floor>>
  BY <1>4, FormTaken DEF Taken, rabbit
<1>5. ASSUME NEW m \in Posts,
             \/ Open(m) \/ Write(m) \/ Rename(m) \/ Fail(m) \/ Hear(m) \/ Timeout(m)
             \/ HangUp(m) \/ Run(m) \/ Lose(m) \/ Look(m) \/ FetchFails(m)
      PROVE  UNCHANGED <<got, floor>>
  BY <1>5 DEF Open, Write, Rename, Fail, Hear, Timeout, HangUp, Run, Lose, Look, FetchFails,
              rabbit
<1>6. ASSUME NEW m \in Posts, Send(m)
      PROVE  \E k \in DOMAIN installs'[Wanted(n)'] :
                 got'[n] = {installs'[Wanted(n)'][k]} /\ k >= floor'[n]
  <2>1. got'[n] = got[n] /\ pc[m] = "send" /\ (m # n => floor'[n] = floor[n])
    BY <1>1a, <1>6 DEF Send, rabbit
  <2>2. m # n
    BY <2>1 DEF Staged
  <2>. QED  BY <1>3, <2>1, <2>2
<1>7. ASSUME NEW m \in Posts, Read(m)
      PROVE  \E k \in DOMAIN installs'[Wanted(n)'] :
                 got'[n] = {installs'[Wanted(n)'][k]} /\ k >= floor'[n]
  <2>1. /\ fetch[m] = "read" /\ got'[m] = content[fd[m]]
        /\ m # n => got'[n] = got[n]
        /\ UNCHANGED <<floor, pc, installs>>
    BY <1>1, <1>7 DEF Read, files
  <2>2. CASE m = n
    <3>1. pc[n] # "idle"
      BY <2>1, <2>2 DEF Staged, Early
    <3>2. \E k \in DOMAIN installs[Wanted(n)] :
              content[fd[n]] = {installs[Wanted(n)][k]} /\ k >= floor[n]
      BY <1>0, <1>2, <2>1, <2>2, <3>1 DEF Tidied, Tidy
    <3>. QED  BY <1>2, <2>1, <2>2, <3>1, <3>2
  <2>3. CASE m # n
    BY <1>3, <2>1, <2>3
  <2>. QED  BY <2>2, <2>3
<1>8. CASE Crash
  BY <1>3, <1>8 DEF Crash
<1>9. CASE UNCHANGED vars
  BY <1>3, <1>9 DEF vars, rabbit
<1>. QED  BY <1>3, <1>4, <1>5, <1>6, <1>7, <1>8, <1>9 DEF Next, Handler

--------------------------------------------------------------------------------
LEMMA IInvInit == Init => IInv
<1>. SUFFICES ASSUME Init PROVE IInv
  OBVIOUS
<1>1. SayRabbit \in Rabbits /\ None \notin Posts
  BY PilotAssumption
<1>2. [kind |-> "none", mac |-> SayRabbit, to |-> SayRabbit, cmd |-> Nothing] \in Asking
  BY <1>1 DEF Asking, Nothing
<1>3. <<>> \in Seq(Posts) /\ Len(<<>>) = 0
  BY EmptySeq
<1>4. post \in [Posts -> Asking]
  BY <1>2 DEF Init
<1>5. installs \in [Places -> Seq(Posts)]
  BY <1>3 DEF Init
<1>6. /\ pc \in [Posts -> Steps] /\ volume \in [Rabbits -> Nat] /\ floor \in [Posts -> Nat]
      /\ content \in [Posts -> SUBSET Posts] /\ got \in [Posts -> SUBSET (Posts \cup {None})]
  BY DEF Init, Steps, Unfed
<1>7. Typed
  BY <1>4, <1>5, <1>6 DEF Init, Typed
<1>8. Homes
  BY DEF Init, Homes
<1>9. \A n \in Posts : Wanted(n) \in Places
  BY <1>7, PlacesIn
<1>10. Staged
  <2>1. \A p \in Places : installs[p] = <<>>
    BY DEF Init
  <2>2. \A n, p : p \in Places => n \notin Range(installs[p])
    BY <2>1 DEF Range
  <2>3. \A n \in Posts : floor[n] <= Len(installs[Wanted(n)])
    BY <1>3, <1>9, <2>1 DEF Init
  <2>4. \A n \in Posts : /\ pc[n] = "idle" /\ told[n] = "nothing" /\ floor[n] = 0
                         /\ fetch[n] = "none" /\ got[n] = Unfed
    BY DEF Init
  <2>5. commands = {} /\ replies = {}
    BY DEF Init
  <2>. QED  BY <2>2, <2>3, <2>4, <2>5 DEF Staged
<1>11. Vetted
  BY DEF Init, Vetted
<1>12. Tidied
  BY DEF Init, Tidied, Tidy, Writing
<1>13. PlaysWhatWasSent
  BY DEF Init, PlaysWhatWasSent
<1>. QED  BY <1>7, <1>8, <1>10, <1>11, <1>12, <1>13 DEF IInv

LEMMA IInvStep == IInv /\ [Next]_vars => IInv'
<1>. SUFFICES ASSUME IInv, [Next]_vars PROVE IInv'
  OBVIOUS
<1>1. Typed' /\ Homes' /\ Staged' /\ Vetted' /\ PlaysWhatWasSent'
  BY TypedStep, HomesStep, StagedStep, VettedStep, PlaysStep DEF IInv
<1>2. Tidied'
  BY <1>1, TidyStep DEF IInv, Tidied
<1>. QED  BY <1>1, <1>2 DEF IInv

LEMMA IInvHolds == Spec => []IInv
BY IInvInit, IInvStep, PTL DEF Spec

\* Every variable keeps its type, and no two names, in whichever burrow, ever
\* share a file.
THEOREM TypeOKHolds == Spec => []TypeOK
<1>1. ASSUME IInv PROVE TypeOK
  <2>1. Typed /\ Homes /\ None \notin Posts
    BY <1>1, PilotAssumption DEF IInv
  <2>2. \A p, q \in Places : /\ dest[p] # None => dest[p] # tmp[q]
                             /\ p # q /\ dest[p] # None => dest[p] # dest[q]
    BY <2>1 DEF Homes, Owned
  <2>. QED  BY <2>1, <2>2 DEF Typed, TypeOK
<1>. QED  BY <1>1, IInvHolds, PTL

\* Unless two writers of its file were under way at once, what a rabbit dances
\* or says on a command is one whole file, installed for it, and no older than
\* what its burrow held when the command was sent.
THEOREM PlaysWhatWasSentHolds == Spec => []PlaysWhatWasSent
<1>1. IInv => PlaysWhatWasSent
  BY DEF IInv
<1>. QED  BY <1>1, IInvHolds, PTL

\* A refused dance is never installed nor played, and an answer that is shown
\* is of a command that was run, after its file was installed.
THEOREM ToldTrulyHolds == Spec => []ToldTruly
<1>1. ASSUME IInv PROVE ToldTruly
  <2>1. Typed /\ Staged /\ PlaysWhatWasSent
    BY <1>1 DEF IInv
  <2>2. ASSUME NEW n \in Posts, told[n] = "refused"
        PROVE  /\ \A p \in Places : n \notin Range(installs[p])
               /\ \A m \in Posts : n \in got[m] => crossed[Wanted(m)]
    <3>1. \A p \in Places : n \notin Range(installs[p])
      BY <2>1, <2>2 DEF Staged
    <3>2. ASSUME NEW m \in Posts, n \in got[m], ~crossed[Wanted(m)] PROVE FALSE
      <4>0. got[m] # Unfed
        BY <2>1, <3>2, PilotAssumption DEF Unfed
      <4>1. PICK k \in DOMAIN installs[Wanted(m)] : got[m] = {installs[Wanted(m)][k]}
        BY <2>1, <3>2, <4>0 DEF PlaysWhatWasSent
      <4>2. n \in Range(installs[Wanted(m)])
        BY <3>2, <4>1 DEF Range
      <4>. QED  BY <2>1, <3>1, <4>2, PlacesIn
    <3>. QED  BY <3>1, <3>2
  <2>3. ASSUME NEW n \in Posts, told[n] = "answered"
        PROVE  /\ fetch[n] # "none"
               /\ post[n].kind = "dance" => n \in Range(installs[Place(n)])
    BY <2>1, <2>3 DEF Staged
  <2>. QED  BY <2>2, <2>3 DEF ToldTruly
<1>. QED  BY <1>1, IInvHolds, PTL

\* Whatever is typed into a button, the rabbit understands what it gets, and its
\* volume never goes below its floor.
THEOREM GateAlwaysHolds == Spec => []GateHolds
<1>1. IInv => GateHolds
  BY DEF IInv, Vetted, GateHolds, Fit
<1>. QED  BY <1>1, IInvHolds, PTL
================================================================================
